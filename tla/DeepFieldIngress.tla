-------------------------- MODULE DeepFieldIngress --------------------------
(***************************************************************************)
(* The HTTP boundary of the loop: events that DeepField delivers to        *)
(* accept_deepfield_event and direct requests for a cycle                  *)
(* (gcl/api/routes.py), the event contract                                 *)
(* (gcl/adapter/deepfield_event_adapter.py), the decision package made     *)
(* from an event (gcl/domain/decision_package.py), the ledger in which its *)
(* cycle leaves entries, and the fleet, external, that admits packages.    *)
(*                                                                         *)
(* GovernedCycle gives the cycle that a delivery starts; to its steps this *)
(* module adds time, ledger entries, packages and their keys.  DeepField   *)
(* may deliver an event any number of times.  A request that is refused    *)
(* changes nothing and is no step.  Time is counted in halves of a second, *)
(* so that what int() cuts off the remaining seconds is seen.              *)
(***************************************************************************)
EXTENDS GovernedCycle, LedgerClient

CONSTANTS
  Events,         \* what DeepField may deliver
  Production,     \* runtime_mode = "production"
  CredentialSet,  \* deepfield_event_bearer_token is set
  DefaultTtl,     \* decision_package_ttl_seconds
  MaxTime,        \* bound: the last instant
  MaxFaults,      \* bound: failed ledger writes, resets and crashes, together
  None            \* no event: a cycle that was requested directly

EventTypes == {"observation", "finding", "forecast", "remediation"}
Instants   == 0 .. MaxTime

ASSUME IngressAssumption ==
  /\ \A e \in Events :
       /\ e.type \in EventTypes /\ e.schema \in EventTypes
       /\ {e.time, e.payloadTime} \subseteq Instants
       /\ {e.expires, e.validUntil} \subseteq Nat
       /\ e.horizon \in Nat \ {0}   \* in seconds, of a forecast
       /\ {e.trusted, e.evidenced} \subseteq BOOLEAN
  /\ None \notin Events
  /\ {Production, CredentialSet} \subseteq BOOLEAN
  /\ DefaultTtl \in 1 .. 3600
  /\ {MaxTime, MaxFaults} \subseteq Nat

VARIABLES
  now,
  event,       \* the event that started each cycle
  acceptedAt,  \* when it was accepted
  ttl,         \* decision_ttl_seconds
  package,     \* the decision package of each cycle: <<>> or one
  written,     \* the entries each cycle has written
  registered,  \* _cycles
  faults,      \* failed writes, resets and crashes so far
  repeats,     \* history: cycles whose package the fleet took for a repeat
  spanned      \* history: cycles that were under way at a reset

deliveryVars == <<event, acceptedAt, ttl>>
apiVars == <<registered, spanned, repeats>>
vars == <<now, faults, deliveryVars, package, written, apiVars, cycleVars, ledgerVars>>

-----------------------------------------------------------------------------
(* The event and what it says of its own lifetime.                         *)

(* contract_identity_and_expiry_match.                                     *)
WellFormed(e) ==
  /\ e.schema = e.type
  /\ e.expires > e.time
  /\ e.payloadTime = e.time
  /\ e.type = "forecast" => e.validUntil = e.expires
  /\ e.evidenced

(* The source is the configured one, and so is the credential if there is  *)
(* one; production cannot do without.                                      *)
Trusted(e, credential) ==
  /\ e.trusted
  /\ Production => CredentialSet
  /\ CredentialSet => credential

Lesser(a, b) == IF a < b THEN a ELSE b

(* Whole seconds.                                                          *)
Remaining(e) == (e.expires - now) \div 2

(* Not expired, with a whole second left.  Plausible bug: only the former. *)
InTimeUnexpired(e) == now < e.expires

InTime(e) == now < e.expires /\ Remaining(e) > 0

(* Plausible bug: a forecast is good for as long as the event is.          *)
DecisionTtlWithoutHorizon(e) == Remaining(e)

DecisionTtl(e) ==
  IF e.type = "forecast" THEN Lesser(Remaining(e), e.horizon) ELSE Remaining(e)

Correlation(c) == IF event[c] = None THEN c ELSE event[c].correlation

(* The Idempotency-Key of a package: one for each event, one for each      *)
(* direct cycle.  Plausible bugs: one for each delivery, or for each       *)
(* correlation id.                                                         *)
KeyPerDelivery(c)    == <<"gcl", c>>
KeyPerCorrelation(c) == <<"decision", Correlation(c)>>

Key(c) ==
  IF event[c] = None THEN <<"decision", Correlation(c)>> ELSE <<"gcl", event[c].key>>

-----------------------------------------------------------------------------
(* Requests.                                                               *)

Accept(c) ==
  /\ Begin(c)
  /\ \E e \in Events, credential \in BOOLEAN :
       /\ WellFormed(e)
       /\ Trusted(e, credential)
       /\ InTime(e)
       /\ event' = [event EXCEPT ![c] = e]
       /\ ttl' = [ttl EXCEPT ![c] = DecisionTtl(e)]
  /\ acceptedAt' = [acceptedAt EXCEPT ![c] = now]
  /\ UNCHANGED <<now, faults, package, written, apiVars, ledgerVars>>

(* run_cycle, cycle_from_metrics and classify_and_run, closed in           *)
(* production.                                                             *)
Request(c) ==
  /\ Begin(c)
  /\ ~Production
  /\ acceptedAt' = [acceptedAt EXCEPT ![c] = now]
  /\ ttl' = [ttl EXCEPT ![c] = DefaultTtl]
  /\ UNCHANGED <<now, faults, event, package, written, apiVars, ledgerVars>>

Fault == faults < MaxFaults /\ faults' = faults + 1

(* reset: the cycles in flight go on, and register when they are over.     *)
(* Plausible bug: the evidence goes, the cycles stay.                      *)
ForgottenNone == registered

Forgotten == {}

Reset ==
  /\ Fault
  /\ registered' = Forgotten
  /\ memory' = {}
  /\ spanned' = spanned \union {c \in Cycles : phase[c] \in Running}
  /\ UNCHANGED <<now, deliveryVars, package, written, repeats, cycleVars,
                 remote, missed>>

-----------------------------------------------------------------------------
(* The cycle of a delivery.  What its entries say is equal for every       *)
(* delivery of an event, but for those that name the package.              *)

Entry(c, type, content) ==
  [type |-> type, correlation |-> Correlation(c), content |-> content]

Writes(c, type, content) ==
  /\ \E outcome \in WriteOutcomes :
       /\ WriteEntry(Entry(c, type, content), outcome)
       /\ IF outcome \in {"lost", "lost_reply"} THEN Fault ELSE UNCHANGED faults
  /\ written' = [written EXCEPT ![c] = @ \union {Entry(c, type, content)}]

Started(c) == Entry(c, "gcl.cycle_start", "start") \in written[c]

WriteStart(c) ==
  /\ phase[c] = "deciding" /\ ~Started(c)
  /\ Writes(c, "gcl.cycle_start", "start")
  /\ UNCHANGED <<now, deliveryVars, package, apiVars, cycleVars>>

(* build_decision_package: the time to live counts from now.               *)
Built(c) == <<[created |-> now, expires |-> now + 2 * Lesser(DefaultTtl, ttl[c])]>>

(* The package follows the verdict at once; the time that a promotion      *)
(* service may take to answer in between passes before the verdict here.   *)
(* The package is refused when its contract or the signing key fail.       *)
WriteVerdict(c) ==
  /\ Started(c)
  /\ Approve(c)
  /\ Writes(c, "gcl.falsify", "survives")
  /\ package' \in {package, [package EXCEPT ![c] = Built(c)]}
  /\ UNCHANGED <<now, deliveryVars, apiVars>>

(* verify, for the time a package is valid.                                *)
Valid(c) == package[c][1].created <= now /\ now < package[c][1].expires

(* External: the fleet admits a valid package, once for each key.          *)
Answer(c) ==
  LET known == \E d \in admitted : Key(d) = Key(c)
  IN  /\ admitted' # admitted => ~known /\ Valid(c)
      /\ repeats' \in {repeats} \union IF known THEN {repeats \union {c}} ELSE {}

Propose(c) ==
  /\ package[c] # <<>>
  /\ Submit(c) \/ SubmitUnreadable(c)
  /\ Answer(c)
  /\ UNCHANGED <<now, faults, deliveryVars, package, written, registered, spanned, ledgerVars>>

Register(c) == registered' = registered \union {c}

WriteProposal(c) ==
  /\ Record(c)
  /\ Writes(c, "gcl.proposed", <<c, package[c]>>)
  /\ Register(c)
  /\ UNCHANGED <<now, deliveryVars, package, spanned, repeats>>

(* A cycle that proposes nothing, the one without a package included.      *)
WriteEnd(c) ==
  /\ Started(c) /\ package[c] = <<>>
  /\ Refrain(c)
  /\ Writes(c, "gcl.reject", phase[c])
  /\ Register(c)
  /\ UNCHANGED <<now, deliveryVars, package, spanned, repeats>>

(* An exception on the way, such as a model's: the request is answered 500 *)
(* and the cycle is not registered.                                        *)
Fail(c) ==
  /\ phase[c] = "deciding"
  /\ Started(c)
  /\ Refrain(c)
  /\ UNCHANGED <<now, faults, deliveryVars, package, written, apiVars, ledgerVars>>

Step(c) ==
  WriteStart(c) \/ WriteVerdict(c) \/ Propose(c)
    \/ WriteProposal(c) \/ WriteEnd(c) \/ Fail(c)

-----------------------------------------------------------------------------
(* The process dies; what it kept in memory goes with it.                  *)
Restart ==
  /\ Crash
  /\ Fault
  /\ memory' = {} /\ registered' = {}
  /\ UNCHANGED <<now, deliveryVars, package, written, spanned, repeats,
                 remote, missed>>

Tick ==
  /\ now < MaxTime
  /\ now' = now + 1
  /\ UNCHANGED <<faults, deliveryVars, package, written, apiVars, cycleVars, ledgerVars>>

Init ==
  /\ CycleInit
  /\ LedgerInit
  /\ now = 0
  /\ event = [c \in Cycles |-> None]
  /\ acceptedAt = [c \in Cycles |-> 0]
  /\ ttl = [c \in Cycles |-> 0]
  /\ package = [c \in Cycles |-> <<>>]
  /\ written = [c \in Cycles |-> {}]
  /\ faults = 0 /\ registered = {} /\ repeats = {} /\ spanned = {}

Next ==
  \/ \E c \in Cycles : Accept(c) \/ Request(c) \/ Step(c)
  \/ Reset \/ Restart \/ Tick

Spec == Init /\ [][Next]_vars

-----------------------------------------------------------------------------
(* Properties.                                                             *)

EventOf(c) == event[c].key
FromEvent == {c \in Cycles : event[c] # None}

(* Types; and a package lives for a second at least, so that the contract  *)
(* never refuses one of an event that was accepted.                        *)
IngressTypeOK ==
  /\ phase \in [Cycles -> Phases]
  /\ admitted \union recorded \union registered \union repeats \union spanned \subseteq Cycles
  /\ now \in Instants
  /\ event \in [Cycles -> Events \union {None}]
  /\ acceptedAt \in [Cycles -> 0 .. now]
  /\ \A c \in Cycles : package[c] # <<>> =>
       package[c][1].created <= now /\ package[c][1].expires >= package[c][1].created + 2

(* However often an event is delivered, and whatever crashes or replies    *)
(* are lost in between, the fleet admits one package for it                *)
(* (idempotency_id in accept_deepfield_event).                             *)
OneAdmissionPerEvent ==
  \A c, d \in admitted \intersect FromEvent : EventOf(c) = EventOf(d) => c = d

(* What the fleet takes for a repeat is one: two events of one             *)
(* correlation, or two direct cycles, are never merged.                    *)
RepeatsAreRepeats ==
  \A c \in repeats :
    \E d \in admitted \ {c} : {c, d} \subseteq FromEvent /\ EventOf(c) = EventOf(d)

(* A package outlives its event by no more than the time that its cycle    *)
(* took to make it, as the remaining seconds are counted when the event is *)
(* accepted and the package's lifetime when it is built; and one made from *)
(* a forecast lives no longer than the forecast looks ahead.               *)
PackageWithinEvent ==
  \A c \in FromEvent : package[c] # <<>> =>
    LET p == package[c][1]
        e == event[c]
    IN  /\ p.expires <= e.expires + (p.created - acceptedAt[c])
        /\ e.type = "forecast" => p.expires - p.created <= 2 * e.horizon

(* What get_chain shows of a registered cycle.  When the ledger answers:   *)
(* every entry the cycle wrote but those whose own write failed, which are *)
(* in the memory of the process only and are not added.  When it does not  *)
(* answer, query_chain falls back to that memory, against the documents    *)
(* (VerdictLedgered): nothing is missing there, unless a reset came while  *)
(* the cycle was under way (query_chain, reset).                           *)
RegisteredCanBeShown ==
  \A c \in registered :
    /\ LedgerConfigured => written[c] \ missed \subseteq QueryChain(Correlation(c), TRUE)
    /\ c \notin spanned => written[c] \subseteq QueryChain(Correlation(c), FALSE)

=============================================================================
