---------------------------- MODULE IngressProofs ----------------------------
(***************************************************************************)
(* What holds at the HTTP boundary for any events, however often they are  *)
(* delivered, whatever ledger writes fail and however often the process    *)
(* restarts or is reset: one theorem for each invariant of the ingress     *)
(* run.                                                                    *)
(***************************************************************************)
EXTENDS DeepFieldIngress, Arithmetic

-----------------------------------------------------------------------------
(* The inductive invariant.                                                *)

Unproposed == {"idle", "deciding", "approved"}

FormsOK ==
  /\ phase \in [Cycles -> Phases]
  /\ admitted \subseteq Cycles /\ recorded \subseteq Cycles /\ registered \subseteq Cycles
  /\ repeats \subseteq Cycles /\ spanned \subseteq Cycles
  /\ now \in Instants
  /\ event \in [Cycles -> Events \union {None}]
  /\ acceptedAt \in [Cycles -> Nat]
  /\ ttl \in [Cycles -> Nat]
  /\ package = [c \in Cycles |-> package[c]]
  /\ written = [c \in Cycles |-> written[c]]

(* What a delivery fixed for its cycle: the time to live ends with the     *)
(* event, and nothing is fixed before.                                     *)
DeliveryOK(c) ==
  /\ acceptedAt[c] <= now
  /\ phase[c] = "idle" => event[c] = None /\ package[c] = <<>> /\ written[c] = {}
  /\ phase[c] # "idle" => ttl[c] > 0
  /\ event[c] # None =>
       /\ acceptedAt[c] + 2 * ttl[c] <= event[c].expires
       /\ event[c].type = "forecast" => ttl[c] <= event[c].horizon

PackageOK(c) ==
  package[c] # <<>> =>
    /\ package[c][1].created \in Nat
    /\ acceptedAt[c] <= package[c][1].created
    /\ package[c][1].created <= now
    /\ package[c][1].expires = package[c][1].created + 2 * Lesser(DefaultTtl, ttl[c])

(* One admission for each key; a repeat is one of another admission.       *)
AdmissionsOK ==
  /\ \A c \in Cycles : phase[c] \in Unproposed => c \notin admitted /\ c \notin repeats
  /\ \A c, d \in admitted : Key(c) = Key(d) => c = d
  /\ \A c \in repeats : c \notin admitted /\ \E d \in admitted : Key(d) = Key(c)

(* A cycle that is under way or registered, and that no reset spanned, has *)
(* all its entries in memory.                                              *)
Kept(c) ==
  /\ \A x \in written[c] : x.correlation = Correlation(c)
  /\ c \notin spanned /\ (c \in registered \/ phase[c] \in Running) =>
       \A x \in written[c] : \E m \in memory : m.entry = x

(* The ledger has what a cycle wrote but for the writes that failed.       *)
WrittenHeld == LedgerConfigured => \A c \in Cycles : \A x \in written[c] : Held(x)

IsEntry(x) == x = [type |-> x.type, correlation |-> x.correlation, content |-> x.content]

(* The key of an entry tells it from every other entry.                    *)
LedgerOK ==
  /\ \A r \in remote : IsEntry(r.entry) /\ r.key = IdempotencyKey(r.entry)
  /\ ProofsAreReal

IngressInv ==
  /\ FormsOK
  /\ \A c \in Cycles : DeliveryOK(c) /\ PackageOK(c) /\ Kept(c)
  /\ WrittenHeld
  /\ AdmissionsOK
  /\ LedgerOK

-----------------------------------------------------------------------------
(* The ledger.                                                             *)

(* Entries with equal keys are equal.                                      *)
LEMMA KeyTells ==
  ASSUME NEW x, NEW y, IsEntry(x), IsEntry(y), IdempotencyKey(x) = IdempotencyKey(y)
  PROVE  x = y
<1>1. x.type = y.type /\ x.correlation = y.correlation /\ x.content = y.content
  BY DEF IdempotencyKey
<1> QED
  BY <1>1 DEF IsEntry

(* What is held after a step; what is held stays held.                     *)
HeldThen(x) == x \in missed' \/ \E r \in remote' : r.entry = x

LedgerGrows == remote \subseteq remote' /\ missed \subseteq missed'

LEMMA HeldStays ==
  ASSUME LedgerGrows
  PROVE  \A x : Held(x) => HeldThen(x)
BY DEF LedgerGrows, Held, HeldThen

(* A write, however it ends, keeps the ledger and the proofs in order, and *)
(* the entry is remembered; with a ledger it is held.                      *)
LEMMA WriteKeeps ==
  ASSUME LedgerOK, NEW x, IsEntry(x), NEW outcome \in WriteOutcomes, WriteEntry(x, outcome)
  PROVE  /\ LedgerOK'
         /\ memory \subseteq memory' /\ LedgerGrows
         /\ \E m \in memory' : m.entry = x
         /\ LedgerConfigured => HeldThen(x)
<1> DEFINE held == [entry |-> x, external |-> outcome = "ok"]
           new  == [key |-> IdempotencyKey(x), entry |-> x]
<1>1. memory' = memory \union {held} /\ held.entry = x
  BY DEF WriteEntry, Remembered
<1>2. held.external => outcome = "ok"
  OBVIOUS
<1>3. /\ remote \subseteq remote'
      /\ \A r \in remote' : r \in remote \/ r = new
  BY DEF WriteEntry, Stored
<1>4. outcome \in {"ok", "lost_reply"} => \E r \in remote' : r.entry = x
  <2>1. SUFFICES ASSUME outcome \in {"ok", "lost_reply"}  PROVE \E r \in remote' : r.entry = x
    OBVIOUS
  <2>2. remote' = Stored(IdempotencyKey(x), x)
    BY <2>1 DEF WriteEntry
  <2>3. CASE \E r \in remote : r.key = IdempotencyKey(x)
    <3>1. PICK r \in remote : r.key = IdempotencyKey(x)
      BY <2>3
    <3>2. r.entry = x
      BY <3>1, KeyTells DEF LedgerOK
    <3> QED
      BY <1>3, <3>2
  <2>4. CASE ~ \E r \in remote : r.key = IdempotencyKey(x)
    <3>1. new \in remote' /\ new.entry = x
      BY <2>2, <2>4 DEF Stored
    <3> QED
      BY <3>1
  <2> QED
    BY <2>3, <2>4
<1>5. \A r \in remote' : IsEntry(r.entry) /\ r.key = IdempotencyKey(r.entry)
  <2>1. new.entry = x /\ new.key = IdempotencyKey(x)
    OBVIOUS
  <2> QED
    BY <1>3, <2>1 DEF LedgerOK
<1>6. ASSUME NEW m \in memory', m.external
      PROVE  \E r \in remote' : r.entry = m.entry
  <2>1. CASE m \in memory
    BY <2>1, <1>6, <1>3 DEF LedgerOK, ProofsAreReal
  <2>2. CASE m = held
    BY <2>2, <1>6, <1>2, <1>4, <1>1
  <2> QED
    BY <1>1, <2>1, <2>2
<1>7. LedgerOK'
  BY <1>5, <1>6 DEF LedgerOK, ProofsAreReal, IsEntry, IdempotencyKey
<1>8. missed \subseteq missed' /\ (outcome = "lost" => x \in missed')
  BY DEF WriteEntry
<1>9. LedgerConfigured => outcome \in {"ok", "lost", "lost_reply"}
  BY DEF WriteOutcomes
<1>10. LedgerConfigured => HeldThen(x)
  BY <1>4, <1>8, <1>9 DEF HeldThen
<1> QED
  BY <1>1, <1>3, <1>7, <1>8, <1>10 DEF LedgerGrows

-----------------------------------------------------------------------------
(* What the actions do to the phases.                                      *)

LEMMA PhaseMoves ==
  ASSUME phase \in [Cycles -> Phases], NEW c \in Cycles, NEW next \in Phases, To(c, next)
  PROVE  /\ phase' \in [Cycles -> Phases]
         /\ phase'[c] = next
         /\ \A d \in Cycles : d # c => phase'[d] = phase[d]
  BY DEF To

LEMMA PhasesAre ==
  /\ "idle" \in Phases /\ "deciding" \in Phases /\ "approved" \in Phases
  /\ "answered" \in Phases /\ "over" \in Phases
  BY DEF Phases

(* Every step begins a cycle with what its request says, or leaves that as *)
(* it is, and with it every correlation id and every key.                  *)
LEMMA CorrelationsKept ==
  ASSUME UNCHANGED event, NEW c \in Cycles
  PROVE  Correlation(c)' = Correlation(c) /\ Key(c)' = Key(c)
  BY DEF Correlation, Key

LEMMA EntriesAreEntries ==
  ASSUME NEW c, NEW type, NEW content
  PROVE  IsEntry(Entry(c, type, content)) /\ Entry(c, type, content).correlation = Correlation(c)
  BY DEF IsEntry, Entry

(* An entry that a cycle writes.                                           *)
NewOf(c, x) ==
  /\ x.correlation = Correlation(c)
  /\ \E m \in memory' : m.entry = x
  /\ LedgerConfigured => HeldThen(x)

LEMMA WritesGrow ==
  ASSUME NEW c \in Cycles, NEW type, NEW content, FormsOK, LedgerOK, Writes(c, type, content)
  PROVE  /\ LedgerOK'
         /\ memory \subseteq memory' /\ LedgerGrows
         /\ written' = [d \in Cycles |-> written'[d]]
         /\ \A d \in Cycles : d # c => written'[d] = written[d]
         /\ \A x \in written'[c] : x \in written[c] \/ NewOf(c, x)
<1> DEFINE x == Entry(c, type, content)
<1>1. IsEntry(x) /\ x.correlation = Correlation(c)
  BY EntriesAreEntries
<1>2. PICK outcome \in WriteOutcomes : WriteEntry(x, outcome)
  BY DEF Writes
<1>3. LedgerOK' /\ memory \subseteq memory' /\ LedgerGrows
  BY <1>1, <1>2, WriteKeeps
<1>4. written' = [written EXCEPT ![c] = @ \union {x}]
  BY DEF Writes
<1>6. NewOf(c, x)
  BY <1>1, <1>2, WriteKeeps DEF NewOf
<1> HIDE DEF x
<1>5. /\ written' = [d \in Cycles |-> written'[d]]
      /\ \A d \in Cycles : d # c => written'[d] = written[d]
      /\ written'[c] = written[c] \union {x}
  BY <1>4 DEF FormsOK
<1> QED
  BY <1>3, <1>5, <1>6

-----------------------------------------------------------------------------
(* The steps of a cycle, by what they share.                               *)

(* The cycle a step belongs to is under way.                               *)
LEMMA StepIsRunning ==
  ASSUME NEW c \in Cycles, Step(c)
  PROVE  phase[c] \in Running
  BY DEF Step, WriteStart, WriteVerdict, Propose, WriteProposal, WriteEnd, Fail, Approve,
         Submit, SubmitUnreadable, Record, Refrain, Running

(* A step of a cycle leaves the others where they are, and its own never   *)
(* returns to the beginning.                                               *)
LEMMA StepMoves ==
  ASSUME phase \in [Cycles -> Phases], NEW c \in Cycles, Step(c)
  PROVE  /\ phase' \in [Cycles -> Phases]
         /\ phase'[c] # "idle" /\ phase[c] # "idle"
         /\ \A d \in Cycles : d # c => phase'[d] = phase[d]
<1>1. \E next \in Phases : next # "idle" /\ (To(c, next) \/ (next = phase[c] /\ UNCHANGED phase))
  BY PhasesAre DEF Step, WriteStart, WriteVerdict, Propose, WriteProposal, WriteEnd, Fail,
     Approve, Submit, SubmitUnreadable, Record, Refrain, cycleVars
<1>2. PICK next \in Phases :
        next # "idle" /\ (To(c, next) \/ (next = phase[c] /\ UNCHANGED phase))
  BY <1>1
<1>3. phase[c] # "idle"
  BY StepIsRunning DEF Running
<1> QED
  BY <1>2, <1>3, PhaseMoves

(* A crash ends what is under way.                                         *)
LEMMA CrashMoves ==
  ASSUME phase \in [Cycles -> Phases], Crash
  PROVE  /\ phase' \in [Cycles -> Phases]
         /\ \A c \in Cycles : /\ phase'[c] \notin Running
                              /\ phase'[c] = "idle" <=> phase[c] = "idle"
                              /\ phase'[c] # "over" => phase'[c] = phase[c]
  BY DEF Crash, Phases, Running

-----------------------------------------------------------------------------
(* The step of the invariant, part by part.                                *)

LEMMA IngressInvInit ==
  ASSUME Init
  PROVE  IngressInv
<1> USE IngressAssumption DEF Init, CycleInit, LedgerInit
<1>1. FormsOK
  BY DEF FormsOK, Phases, Instants
<1>2. ASSUME NEW c \in Cycles  PROVE DeliveryOK(c) /\ PackageOK(c) /\ Kept(c)
  BY DEF DeliveryOK, PackageOK, Kept
<1>3. WrittenHeld /\ AdmissionsOK /\ LedgerOK
  BY DEF WrittenHeld, AdmissionsOK, LedgerOK, ProofsAreReal
<1> QED
  BY <1>1, <1>2, <1>3 DEF IngressInv

LEMMA TtlPositive == DefaultTtl \in Nat /\ DefaultTtl > 0 /\ MaxTime \in Nat
<1>1. DefaultTtl \in 1 .. 3600 /\ MaxTime \in Nat
  BY IngressAssumption
<1> QED
  BY <1>1

(* A request that is taken up fixes a time to live within its event.       *)
LEMMA AcceptFixes ==
  ASSUME FormsOK, NEW c \in Cycles, Accept(c)
  PROVE  \E e \in Events, credential \in BOOLEAN :
           /\ Trusted(e, credential)
           /\ event' = [event EXCEPT ![c] = e]
           /\ ttl' = [ttl EXCEPT ![c] = DecisionTtl(e)]
           /\ DecisionTtl(e) \in Nat /\ DecisionTtl(e) > 0
           /\ now + 2 * DecisionTtl(e) <= e.expires
           /\ e.type = "forecast" => DecisionTtl(e) <= e.horizon
<1>1. PICK e \in Events, credential \in BOOLEAN :
        /\ Trusted(e, credential) /\ InTime(e)
        /\ event' = [event EXCEPT ![c] = e]
        /\ ttl' = [ttl EXCEPT ![c] = DecisionTtl(e)]
  BY DEF Accept
<1>2. now \in Nat /\ e.expires \in Nat /\ e.horizon \in Nat \ {0}
  BY IngressAssumption, TtlPositive DEF FormsOK, Instants
<1>3. e.expires - now \in Int /\ 2 \in Nat \ {0}
  BY <1>2
<1>4. Remaining(e) \in Int /\ Remaining(e) * 2 <= e.expires - now
  BY <1>3, DivBounds DEF Remaining
<1>5. Remaining(e) > 0
  BY <1>1 DEF InTime
<1>6. /\ DecisionTtl(e) \in Int /\ DecisionTtl(e) > 0
      /\ DecisionTtl(e) <= Remaining(e)
      /\ e.type = "forecast" => DecisionTtl(e) <= e.horizon
  BY <1>2, <1>4, <1>5 DEF DecisionTtl, Lesser
<1>7. DecisionTtl(e) \in Nat /\ now + 2 * DecisionTtl(e) <= e.expires
  BY <1>2, <1>4, <1>6
<1> QED
  BY <1>1, <1>6, <1>7

(* What a step of a cycle does to packages.                                *)
LEMMA StepPackages ==
  ASSUME FormsOK, NEW c \in Cycles, Step(c)
  PROVE  /\ package' = [d \in Cycles |-> package'[d]]
         /\ \A d \in Cycles : d # c => package'[d] = package[d]
         /\ package'[c] = package[c] \/ package'[c] = Built(c)
<1>1. \/ UNCHANGED package
      \/ package' = [package EXCEPT ![c] = Built(c)]
  BY DEF Step, WriteStart, WriteVerdict, Propose, WriteProposal, WriteEnd, Fail
<1> HIDE DEF Built
<1> QED
  BY <1>1 DEF FormsOK

(* What it does to what is written.                                        *)
LEMMA StepWrites ==
  ASSUME FormsOK, LedgerOK, NEW c \in Cycles, Step(c)
  PROVE  /\ LedgerOK'
         /\ memory \subseteq memory' /\ LedgerGrows
         /\ written' = [d \in Cycles |-> written'[d]]
         /\ \A d \in Cycles : d # c => written'[d] = written[d]
         /\ \A x \in written'[c] : x \in written[c] \/ NewOf(c, x)
<1>1. CASE \E type, content : Writes(c, type, content)
  BY <1>1, WritesGrow
<1>2. CASE UNCHANGED <<written, ledgerVars>>
  BY <1>2 DEF FormsOK, ledgerVars, LedgerOK, ProofsAreReal, IdempotencyKey, IsEntry, LedgerGrows
<1>3. (\E type, content : Writes(c, type, content)) \/ UNCHANGED <<written, ledgerVars>>
  BY DEF Step, WriteStart, WriteVerdict, Propose, WriteProposal, WriteEnd, Fail
<1> QED
  BY <1>1, <1>2, <1>3

(* And what it leaves alone.                                               *)
LEMMA StepLeaves ==
  ASSUME NEW c \in Cycles, Step(c)
  PROVE  /\ UNCHANGED <<now, event, acceptedAt, ttl, spanned>>
         /\ registered \subseteq registered' /\ registered' \subseteq registered \union {c}
         /\ c \in registered' \ registered => phase[c] \in Running
         /\ (UNCHANGED <<admitted, repeats>>)
              \/ (Propose(c) /\ phase[c] = "approved" /\ phase'= [phase EXCEPT ![c] = phase'[c]]
                   /\ Answer(c) /\ admitted' \in {admitted, admitted \union {c}})
         /\ recorded \subseteq recorded' /\ recorded' \subseteq recorded \union {c}
  BY DEF Step, WriteStart, WriteVerdict, Propose, WriteProposal, WriteEnd, Fail, deliveryVars,
     apiVars, cycleVars, Approve, Submit, SubmitUnreadable, Record, Refrain, Register, Running, To

LEMMA FormsStep ==
  ASSUME FormsOK, LedgerOK, [Next]_vars
  PROVE  FormsOK'
<1>1. CASE UNCHANGED vars
  BY <1>1 DEF FormsOK, vars, deliveryVars, apiVars, cycleVars
<1>2. ASSUME NEW c \in Cycles, Accept(c)  PROVE FormsOK'
  <2>1. PICK e \in Events, credential \in BOOLEAN :
          /\ event' = [event EXCEPT ![c] = e]
          /\ ttl' = [ttl EXCEPT ![c] = DecisionTtl(e)]
          /\ DecisionTtl(e) \in Nat
    BY <1>2, AcceptFixes
  <2>2. /\ phase' \in [Cycles -> Phases]
        /\ UNCHANGED <<now, package, written, apiVars, admitted, recorded>>
        /\ acceptedAt' = [acceptedAt EXCEPT ![c] = now]
    BY <1>2, PhaseMoves, PhasesAre DEF Accept, Begin, FormsOK
  <2>3. event' \in [Cycles -> Events \union {None}] /\ ttl' \in [Cycles -> Nat]
    BY <2>1 DEF FormsOK
  <2>4. acceptedAt' \in [Cycles -> Nat]
    BY <2>2, TtlPositive DEF FormsOK, Instants
  <2> QED
    BY <2>2, <2>3, <2>4 DEF FormsOK, apiVars
<1>3. ASSUME NEW c \in Cycles, Request(c)  PROVE FormsOK'
  <2>1. /\ phase' \in [Cycles -> Phases]
        /\ UNCHANGED <<now, event, package, written, apiVars, admitted, recorded>>
        /\ acceptedAt' = [acceptedAt EXCEPT ![c] = now]
        /\ ttl' = [ttl EXCEPT ![c] = DefaultTtl]
    BY <1>3, PhaseMoves, PhasesAre DEF Request, Begin, FormsOK
  <2>2. DefaultTtl \in Nat /\ now \in Nat
    BY TtlPositive DEF FormsOK, Instants
  <2>3. acceptedAt' \in [Cycles -> Nat] /\ ttl' \in [Cycles -> Nat]
    BY <2>1, <2>2 DEF FormsOK
  <2> QED
    BY <2>1, <2>3 DEF FormsOK, apiVars
<1>4. ASSUME NEW c \in Cycles, Step(c)  PROVE FormsOK'
  <2>1. phase' \in [Cycles -> Phases]
    BY <1>4, StepMoves DEF FormsOK
  <2>2. package' = [d \in Cycles |-> package'[d]] /\ written' = [d \in Cycles |-> written'[d]]
    BY <1>4, StepPackages, StepWrites
  <2>3. /\ UNCHANGED <<now, event, acceptedAt, ttl, spanned>>
        /\ registered' \subseteq Cycles /\ recorded' \subseteq Cycles
    BY <1>4, StepLeaves DEF FormsOK
  <2>4. admitted' \subseteq Cycles /\ repeats' \subseteq Cycles
    <3>1. CASE UNCHANGED <<admitted, repeats>>
      BY <3>1 DEF FormsOK
    <3>2. CASE Answer(c) /\ admitted' \in {admitted, admitted \union {c}}
      BY <3>2 DEF FormsOK, Answer
    <3> QED
      BY <1>4, <3>1, <3>2, StepLeaves
  <2> QED
    BY <2>1, <2>2, <2>3, <2>4 DEF FormsOK
<1>5. CASE Reset
  BY <1>5 DEF FormsOK, Reset, Forgotten, deliveryVars, cycleVars
<1>6. CASE Restart
  <2>1. phase' \in [Cycles -> Phases] /\ UNCHANGED <<admitted, recorded>>
    BY <1>6, CrashMoves DEF FormsOK, Restart, Crash
  <2> QED
    BY <1>6, <2>1 DEF FormsOK, Restart, deliveryVars
<1>7. CASE Tick
  BY <1>7, IngressAssumption DEF FormsOK, Tick, deliveryVars, apiVars, cycleVars, Instants
<1> QED
  BY <1>1, <1>2, <1>3, <1>4, <1>5, <1>6, <1>7 DEF Next

LEMMA DeliveriesStep ==
  ASSUME FormsOK, LedgerOK, [Next]_vars, NEW d \in Cycles, DeliveryOK(d), PackageOK(d)
  PROVE  DeliveryOK(d)' /\ PackageOK(d)'
<1>0. now \in Nat /\ acceptedAt[d] \in Nat /\ ttl[d] \in Nat
  BY TtlPositive DEF FormsOK, Instants
<1>1. CASE UNCHANGED vars
  BY <1>1 DEF DeliveryOK, PackageOK, vars, deliveryVars, cycleVars
(* A request concerns its own cycle, which has no package yet.             *)
<1>2. ASSUME NEW c \in Cycles, Accept(c)  PROVE DeliveryOK(d)' /\ PackageOK(d)'
  <2>1. PICK e \in Events, credential \in BOOLEAN :
          /\ event' = [event EXCEPT ![c] = e]
          /\ ttl' = [ttl EXCEPT ![c] = DecisionTtl(e)]
          /\ DecisionTtl(e) \in Nat /\ DecisionTtl(e) > 0
          /\ now + 2 * DecisionTtl(e) <= e.expires
          /\ e.type = "forecast" => DecisionTtl(e) <= e.horizon
    BY <1>2, AcceptFixes
  <2>2. /\ phase[c] = "idle" /\ phase'[c] = "deciding"
        /\ \A b \in Cycles : b # c => phase'[b] = phase[b]
        /\ UNCHANGED <<now, package, written>>
        /\ acceptedAt' = [acceptedAt EXCEPT ![c] = now]
    BY <1>2, PhaseMoves, PhasesAre DEF Accept, Begin, FormsOK
  <2>3. CASE d = c
    <3>1. event'[d] = e /\ ttl'[d] = DecisionTtl(e) /\ acceptedAt'[d] = now
      BY <2>1, <2>2, <2>3 DEF FormsOK
    <3>2. package'[d] = <<>>
      BY <2>2, <2>3 DEF DeliveryOK
    <3>3. DeliveryOK(d)'
      BY <1>0, <2>1, <2>2, <2>3, <3>1 DEF DeliveryOK
    <3> QED
      BY <3>2, <3>3 DEF PackageOK
  <2>4. CASE d # c
    <3>1. UNCHANGED <<phase[d], event[d], ttl[d], acceptedAt[d]>>
      BY <2>1, <2>2, <2>4 DEF FormsOK
    <3> QED
      BY <2>2, <3>1 DEF DeliveryOK, PackageOK
  <2> QED
    BY <2>3, <2>4
<1>3. ASSUME NEW c \in Cycles, Request(c)  PROVE DeliveryOK(d)' /\ PackageOK(d)'
  <2>1. /\ phase[c] = "idle" /\ phase'[c] = "deciding"
        /\ \A b \in Cycles : b # c => phase'[b] = phase[b]
        /\ UNCHANGED <<now, event, package, written>>
        /\ acceptedAt' = [acceptedAt EXCEPT ![c] = now]
        /\ ttl' = [ttl EXCEPT ![c] = DefaultTtl]
    BY <1>3, PhaseMoves, PhasesAre DEF Request, Begin, FormsOK
  <2>2. CASE d = c
    <3>1. event'[d] = None /\ package'[d] = <<>>
      BY <2>1, <2>2 DEF DeliveryOK
    <3>2. ttl'[d] = DefaultTtl /\ acceptedAt'[d] = now
      BY <2>1, <2>2 DEF FormsOK
    <3>3. DefaultTtl > 0
      BY TtlPositive
    <3> QED
      BY <1>0, <2>1, <2>2, <3>1, <3>2, <3>3 DEF DeliveryOK, PackageOK
  <2>3. CASE d # c
    <3>1. UNCHANGED <<phase[d], ttl[d], acceptedAt[d]>>
      BY <2>1, <2>3 DEF FormsOK
    <3> QED
      BY <2>1, <3>1 DEF DeliveryOK, PackageOK
  <2> QED
    BY <2>2, <2>3
<1>4. ASSUME NEW c \in Cycles, Step(c)  PROVE DeliveryOK(d)' /\ PackageOK(d)'
  <2>1. UNCHANGED <<now, event, acceptedAt, ttl>>
    BY <1>4, StepLeaves
  <2>2. /\ phase'[c] # "idle" /\ phase[c] # "idle"
        /\ \A b \in Cycles : b # c => phase'[b] = phase[b]
    BY <1>4, StepMoves DEF FormsOK
  <2>3. /\ \A b \in Cycles : b # c => package'[b] = package[b]
        /\ package'[c] = package[c] \/ package'[c] = Built(c)
    BY <1>4, StepPackages
  <2>4. \A b \in Cycles : b # c => written'[b] = written[b]
    BY <1>4, StepWrites
  <2>5. DeliveryOK(d)'
    BY <2>1, <2>2, <2>3, <2>4 DEF DeliveryOK
  <2>6. CASE package'[d] = package[d]
    BY <2>1, <2>5, <2>6 DEF PackageOK
  <2>7. CASE d = c /\ package'[c] = Built(c)
    <3>1. /\ package'[d][1].created = now
          /\ package'[d][1].expires = now + 2 * Lesser(DefaultTtl, ttl[d])
      BY <2>7 DEF Built
    <3>2. PackageOK(d)'
      BY <1>0, <2>1, <3>1 DEF PackageOK, DeliveryOK
    <3> QED
      BY <2>5, <3>2
  <2> QED
    BY <2>3, <2>5, <2>6, <2>7
<1>5. CASE Reset
  BY <1>5 DEF DeliveryOK, PackageOK, Reset, deliveryVars, cycleVars
<1>6. CASE Restart
  <2>1. phase'[d] = "idle" <=> phase[d] = "idle"
    BY <1>6, CrashMoves DEF FormsOK, Restart
  <2> QED
    BY <1>6, <2>1 DEF DeliveryOK, PackageOK, Restart, deliveryVars
<1>7. CASE Tick
  <2>1. now' = now + 1 /\ UNCHANGED <<phase, event, acceptedAt, ttl, package, written>>
    BY <1>7 DEF Tick, deliveryVars, cycleVars
  <2>2. DeliveryOK(d)'
    BY <1>0, <2>1 DEF DeliveryOK
  <2>3. PackageOK(d)'
    BY <1>0, <2>1 DEF PackageOK
  <2> QED
    BY <2>2, <2>3
<1> QED
  BY <1>1, <1>2, <1>3, <1>4, <1>5, <1>6, <1>7 DEF Next

(* A begun cycle is not idle, and its key alone may change.                *)
LEMMA BeginMoves ==
  ASSUME FormsOK, NEW c \in Cycles, Accept(c) \/ Request(c)
  PROVE  /\ phase[c] = "idle" /\ phase'[c] = "deciding"
         /\ \A d \in Cycles : d # c => /\ phase'[d] = phase[d]
                                       /\ Correlation(d)' = Correlation(d)
                                       /\ Key(d)' = Key(d)
         /\ UNCHANGED <<package, written, apiVars, admitted, recorded, crashes, ledgerVars>>
<1>1. /\ Begin(c)
      /\ UNCHANGED <<package, written, apiVars, ledgerVars>>
      /\ (\E e \in Events : event' = [event EXCEPT ![c] = e]) \/ UNCHANGED event
  BY DEF Accept, Request
<1>2. /\ phase[c] = "idle" /\ phase'[c] = "deciding"
      /\ \A d \in Cycles : d # c => phase'[d] = phase[d]
      /\ UNCHANGED <<admitted, recorded, crashes>>
  BY <1>1, PhaseMoves, PhasesAre DEF Begin, FormsOK
<1>3. ASSUME NEW d \in Cycles, d # c
      PROVE  Correlation(d)' = Correlation(d) /\ Key(d)' = Key(d)
  <2>1. event'[d] = event[d]
    BY <1>1, <1>3 DEF FormsOK
  <2> QED
    BY <2>1 DEF Correlation, Key
<1> QED
  BY <1>1, <1>2, <1>3

LEMMA AdmissionsStep ==
  ASSUME FormsOK, LedgerOK, AdmissionsOK, [Next]_vars
  PROVE  AdmissionsOK'
(* Where admissions, repeats and keys stay as they are.                    *)
<1>1. ASSUME UNCHANGED <<admitted, repeats, event>>,
             \A c \in Cycles : phase'[c] \in Unproposed => phase[c] \in Unproposed
      PROVE  AdmissionsOK'
  <2>1. \A c \in Cycles : Key(c)' = Key(c)
    BY <1>1, CorrelationsKept
  <2> QED
    BY <1>1, <2>1 DEF AdmissionsOK, FormsOK
<1>2. CASE UNCHANGED vars
  BY <1>2, <1>1 DEF vars, deliveryVars, apiVars, cycleVars
<1>3. ASSUME NEW c \in Cycles, Accept(c) \/ Request(c)  PROVE AdmissionsOK'
  <2>1. /\ phase[c] = "idle" /\ phase'[c] = "deciding"
        /\ \A d \in Cycles : d # c => phase'[d] = phase[d] /\ Key(d)' = Key(d)
        /\ UNCHANGED <<admitted, repeats>>
    BY <1>3, BeginMoves DEF apiVars
  <2>2. c \notin admitted /\ c \notin repeats
    BY <2>1 DEF AdmissionsOK, Unproposed
  <2> QED
    BY <2>1, <2>2 DEF AdmissionsOK, FormsOK
<1>4. ASSUME NEW c \in Cycles, Step(c)  PROVE AdmissionsOK'
  <2>1. /\ UNCHANGED event
        /\ phase[c] \in Running
        /\ \A d \in Cycles : d # c => phase'[d] = phase[d]
    BY <1>4, StepLeaves, StepMoves, StepIsRunning DEF FormsOK
  <2>2. CASE UNCHANGED <<admitted, repeats>>
    <3>1. phase'[c] \in Unproposed => phase[c] \in Unproposed
      BY <1>4, PhaseMoves, PhasesAre DEF FormsOK, Step, WriteStart, WriteVerdict, Propose,
         WriteProposal, WriteEnd, Fail, Approve, Submit, SubmitUnreadable, Record, Refrain,
         cycleVars, Unproposed
    <3> QED
      BY <1>1, <2>1, <2>2, <3>1
  <2>3. CASE Propose(c) /\ phase[c] = "approved" /\ Answer(c)
               /\ admitted' \in {admitted, admitted \union {c}}
    <3>1. phase'[c] \notin Unproposed
      BY <2>3, PhaseMoves, PhasesAre DEF FormsOK, Propose, Submit, SubmitUnreadable, Unproposed
    <3>2. c \notin admitted /\ c \notin repeats
      BY <2>3 DEF AdmissionsOK, Unproposed
    <3>3. \A d \in Cycles : Key(d)' = Key(d)
      BY <2>1, CorrelationsKept
    <3>4. CASE \E d \in admitted : Key(d) = Key(c)
      <4>1. admitted' = admitted /\ repeats' \in {repeats, repeats \union {c}}
        BY <2>3, <3>4 DEF Answer
      <4> QED
        BY <2>1, <3>1, <3>2, <3>3, <3>4, <4>1 DEF AdmissionsOK, FormsOK
    <3>5. CASE ~ \E d \in admitted : Key(d) = Key(c)
      <4>1. repeats' = repeats
        BY <2>3, <3>5 DEF Answer
      <4> QED
        BY <2>1, <2>3, <3>1, <3>2, <3>3, <3>5, <4>1 DEF AdmissionsOK, FormsOK
    <3> QED
      BY <3>4, <3>5
  <2> QED
    BY <1>4, <2>2, <2>3, StepLeaves
<1>5. CASE Reset
  BY <1>5, <1>1 DEF Reset, deliveryVars, cycleVars
<1>6. CASE Restart
  <2>1. \A c \in Cycles : phase'[c] \in Unproposed => phase[c] \in Unproposed
    BY <1>6, CrashMoves DEF FormsOK, Restart, Unproposed
  <2>2. UNCHANGED <<admitted, repeats, event>>
    BY <1>6 DEF Restart, Crash, deliveryVars
  <2> QED
    BY <1>1, <2>1, <2>2
<1>7. CASE Tick
  BY <1>7, <1>1 DEF Tick, deliveryVars, apiVars, cycleVars
<1> QED
  BY <1>2, <1>3, <1>4, <1>5, <1>6, <1>7 DEF Next

LEMMA KeptStep ==
  ASSUME FormsOK, LedgerOK, [Next]_vars, NEW d \in Cycles, DeliveryOK(d), Kept(d)
  PROVE  Kept(d)'
(* Where what a cycle wrote stays as it is, and nothing is forgotten.      *)
<1>1. ASSUME UNCHANGED <<written[d], spanned>>, memory \subseteq memory',
             Correlation(d)' = Correlation(d),
             d \in registered' \/ phase'[d] \in Running =>
               d \in registered \/ phase[d] \in Running
      PROVE  Kept(d)'
  BY <1>1 DEF Kept
<1>2. CASE UNCHANGED vars
  BY <1>2, <1>1, CorrelationsKept DEF vars, deliveryVars, apiVars, cycleVars, ledgerVars
<1>3. ASSUME NEW c \in Cycles, Accept(c) \/ Request(c)  PROVE Kept(d)'
  <2>1. CASE d = c
    <3>1. written'[d] = {}
      BY <1>3, <2>1, BeginMoves DEF DeliveryOK
    <3> QED
      BY <3>1 DEF Kept
  <2>2. CASE d # c
    BY <1>1, <1>3, <2>2, BeginMoves DEF apiVars, ledgerVars
  <2> QED
    BY <2>1, <2>2
<1>4. ASSUME NEW c \in Cycles, Step(c)  PROVE Kept(d)'
  <2>1. /\ UNCHANGED <<event, spanned>>
        /\ registered \subseteq registered' /\ registered' \subseteq registered \union {c}
        /\ phase[c] \in Running
        /\ \A b \in Cycles : b # c => phase'[b] = phase[b]
    BY <1>4, StepLeaves, StepMoves, StepIsRunning DEF FormsOK
  <2>2. Correlation(d)' = Correlation(d)
    BY <2>1, CorrelationsKept
  <2>3. /\ memory \subseteq memory'
        /\ \A b \in Cycles : b # c => written'[b] = written[b]
        /\ \A x \in written'[c] :
             x \in written[c]
               \/ (x.correlation = Correlation(c) /\ \E m \in memory' : m.entry = x)
    BY <1>4, StepWrites DEF NewOf
  <2>4. CASE d = c
    BY <2>1, <2>2, <2>3, <2>4 DEF Kept
  <2>5. CASE d # c
    BY <1>1, <2>1, <2>2, <2>3, <2>5
  <2> QED
    BY <2>4, <2>5
(* A reset spans what is under way and forgets what is registered.         *)
<1>5. CASE Reset
  <2>1. /\ registered' = {} /\ UNCHANGED <<phase, event, written>>
        /\ spanned' = spanned \union {c \in Cycles : phase[c] \in Running}
    BY <1>5 DEF Reset, Forgotten, deliveryVars, cycleVars
  <2>2. Correlation(d)' = Correlation(d)
    BY <2>1, CorrelationsKept
  <2> QED
    BY <2>1, <2>2 DEF Kept
<1>6. CASE Restart
  <2>1. registered' = {} /\ phase'[d] \notin Running /\ UNCHANGED <<event, written>>
    BY <1>6, CrashMoves DEF FormsOK, Restart, deliveryVars
  <2>2. Correlation(d)' = Correlation(d)
    BY <2>1, CorrelationsKept
  <2> QED
    BY <2>1, <2>2 DEF Kept
<1>7. CASE Tick
  BY <1>7, <1>1, CorrelationsKept DEF Tick, deliveryVars, apiVars, cycleVars, ledgerVars
<1> QED
  BY <1>2, <1>3, <1>4, <1>5, <1>6, <1>7 DEF Next

LEMMA HeldStep ==
  ASSUME FormsOK, LedgerOK, WrittenHeld, \A c \in Cycles : DeliveryOK(c), [Next]_vars
  PROVE  WrittenHeld'
<1>1. SUFFICES ASSUME LedgerConfigured, NEW d \in Cycles
               PROVE  \A x \in written'[d] : HeldThen(x)
  BY DEF WrittenHeld, Held, HeldThen
<1>2. \A x \in written[d] : Held(x)
  BY <1>1 DEF WrittenHeld
<1>3. CASE LedgerGrows /\ written'[d] = written[d]
  BY <1>2, <1>3, HeldStays
<1>4. CASE UNCHANGED vars
  BY <1>3, <1>4 DEF vars, ledgerVars, LedgerGrows
<1>5. ASSUME NEW c \in Cycles, Accept(c) \/ Request(c)
      PROVE  \A x \in written'[d] : HeldThen(x)
  BY <1>3, <1>5, BeginMoves DEF ledgerVars, LedgerGrows
<1>6. ASSUME NEW c \in Cycles, Step(c)
      PROVE  \A x \in written'[d] : HeldThen(x)
  <2>1. /\ LedgerGrows /\ \A b \in Cycles : b # c => written'[b] = written[b]
        /\ \A x \in written'[c] : x \in written[c] \/ NewOf(c, x)
    BY <1>6, StepWrites
  <2>2. CASE d = c
    BY <1>1, <1>2, <2>1, <2>2, HeldStays DEF NewOf
  <2> QED
    BY <1>3, <2>1, <2>2
<1>7. CASE Reset \/ Restart \/ Tick
  BY <1>3, <1>7 DEF Reset, Restart, Tick, ledgerVars, LedgerGrows
<1> QED
  BY <1>4, <1>5, <1>6, <1>7 DEF Next

LEMMA LedgerStep ==
  ASSUME FormsOK, LedgerOK, [Next]_vars
  PROVE  LedgerOK'
<1> USE DEF LedgerOK, ProofsAreReal, IsEntry, IdempotencyKey
<1>1. CASE UNCHANGED vars
  BY <1>1 DEF vars, ledgerVars
<1>2. ASSUME NEW c \in Cycles, Accept(c) \/ Request(c)  PROVE LedgerOK'
  BY <1>2, BeginMoves DEF ledgerVars
<1>3. ASSUME NEW c \in Cycles, Step(c)  PROVE LedgerOK'
  BY <1>3, StepWrites
<1>4. CASE Reset
  BY <1>4 DEF Reset
<1>5. CASE Restart
  BY <1>5 DEF Restart
<1>6. CASE Tick
  BY <1>6 DEF Tick, ledgerVars
<1> QED
  BY <1>1, <1>2, <1>3, <1>4, <1>5, <1>6 DEF Next

LEMMA IngressInvHolds == Spec => []IngressInv
<1>1. IngressInv /\ [Next]_vars => IngressInv'
  BY FormsStep, DeliveriesStep, AdmissionsStep, KeptStep, HeldStep, LedgerStep DEF IngressInv
<1> QED
  BY IngressInvInit, <1>1, PTL DEF Spec

-----------------------------------------------------------------------------
(* The theorems.                                                           *)

(* Types; and every package that is made lives for a second at least, so   *)
(* that the contract of build_decision_package never refuses one of an     *)
(* event that accept_deepfield_event let in.                               *)
THEOREM IngressTypeCorrect == Spec => []IngressTypeOK
<1>1. IngressInv => IngressTypeOK
  <2>1. SUFFICES ASSUME IngressInv  PROVE IngressTypeOK
    OBVIOUS
  <2>2. now \in Nat
    BY <2>1, TtlPositive DEF IngressInv, FormsOK, Instants
  <2>3. acceptedAt \in [Cycles -> 0 .. now]
    BY <2>1, <2>2 DEF IngressInv, FormsOK, DeliveryOK
  <2>4. ASSUME NEW c \in Cycles, package[c] # <<>>
        PROVE  package[c][1].created <= now
                 /\ package[c][1].expires >= package[c][1].created + 2
    <3>1. ttl[c] \in Nat /\ ttl[c] > 0
      BY <2>1, <2>4 DEF IngressInv, FormsOK, DeliveryOK
    <3>2. Lesser(DefaultTtl, ttl[c]) \in Nat /\ Lesser(DefaultTtl, ttl[c]) > 0
      BY <3>1, TtlPositive DEF Lesser
    <3> QED
      BY <2>1, <2>4, <3>2 DEF IngressInv, PackageOK
  <2> QED
    BY <2>1, <2>3, <2>4 DEF IngressInv, FormsOK, IngressTypeOK
<1> QED
  BY IngressInvHolds, <1>1, PTL

(* However often an event is delivered, whatever replies are lost and      *)
(* whatever crashes in between, the fleet admits at most one package for   *)
(* it: idempotency_id of accept_deepfield_event is the event's own key.    *)
THEOREM OneAdmissionHolds == Spec => []OneAdmissionPerEvent
<1>1. IngressInv => OneAdmissionPerEvent
  BY DEF IngressInv, AdmissionsOK, OneAdmissionPerEvent, Key, EventOf, FromEvent
<1> QED
  BY IngressInvHolds, <1>1, PTL

(* What the fleet takes for a repeat is one of the same event: neither two *)
(* events of one correlation nor two direct cycles are ever merged.        *)
THEOREM RepeatsHold == Spec => []RepeatsAreRepeats
<1>1. IngressInv => RepeatsAreRepeats
  <2>1. SUFFICES ASSUME IngressInv, NEW c \in repeats
                 PROVE  \E d \in admitted \ {c} :
                          {c, d} \subseteq FromEvent /\ EventOf(c) = EventOf(d)
    BY DEF RepeatsAreRepeats
  <2>2. PICK d \in admitted : Key(d) = Key(c) /\ c # d
    BY <2>1 DEF IngressInv, AdmissionsOK
  <2>3. c \in Cycles /\ d \in Cycles
    BY <2>1 DEF IngressInv, FormsOK
  <2>4. event[c] # None /\ event[d] # None
    BY <2>2 DEF Key, Correlation
  <2>5. EventOf(c) = EventOf(d)
    BY <2>2, <2>4 DEF Key, EventOf
  <2> QED
    BY <2>2, <2>3, <2>4, <2>5 DEF FromEvent
<1> QED
  BY IngressInvHolds, <1>1, PTL

(* A package outlives its event by no more than the time its cycle took to *)
(* make it, and one made from a forecast lives no longer than the forecast *)
(* looks ahead, whatever the configured and the remaining time to live     *)
(* (_decision_ttl, build_decision_package).                                *)
THEOREM PackageWithinEventHolds == Spec => []PackageWithinEvent
<1>1. IngressInv => PackageWithinEvent
  <2>1. SUFFICES ASSUME IngressInv, NEW c \in FromEvent, package[c] # <<>>
                 PROVE  /\ package[c][1].expires
                             <= event[c].expires + (package[c][1].created - acceptedAt[c])
                        /\ event[c].type = "forecast" =>
                             package[c][1].expires - package[c][1].created
                               <= 2 * event[c].horizon
    BY DEF PackageWithinEvent
  <2>2. c \in Cycles /\ event[c] # None
    BY <2>1 DEF FromEvent
  <2>3. event[c] \in Events /\ ttl[c] \in Nat /\ acceptedAt[c] \in Nat
    BY <2>1, <2>2 DEF IngressInv, FormsOK
  <2>4. event[c].expires \in Nat /\ event[c].horizon \in Nat
    BY <2>3, IngressAssumption
  <2>5. /\ acceptedAt[c] + 2 * ttl[c] <= event[c].expires
        /\ event[c].type = "forecast" => ttl[c] <= event[c].horizon
    BY <2>1, <2>2 DEF IngressInv, DeliveryOK
  <2>6. /\ package[c][1].created \in Nat
        /\ package[c][1].expires = package[c][1].created + 2 * Lesser(DefaultTtl, ttl[c])
    BY <2>1, <2>2 DEF IngressInv, PackageOK
  <2>7. Lesser(DefaultTtl, ttl[c]) \in Nat /\ Lesser(DefaultTtl, ttl[c]) <= ttl[c]
    BY <2>3, TtlPositive DEF Lesser
  <2> QED
    BY <2>3, <2>4, <2>5, <2>6, <2>7
<1> QED
  BY IngressInvHolds, <1>1, PTL

(* What get_chain shows of a registered cycle: from a ledger that answers, *)
(* every entry but those whose own write failed; from memory, when it does *)
(* not, every entry, unless a reset came while the cycle was under way     *)
(* (query_chain, write_entry, reset).                                      *)
THEOREM RegisteredShown == Spec => []RegisteredCanBeShown
<1>1. IngressInv => RegisteredCanBeShown
  <2>1. SUFFICES ASSUME IngressInv, NEW c \in registered, NEW x \in written[c]
                 PROVE  /\ LedgerConfigured /\ x \notin missed =>
                              x \in QueryChain(Correlation(c), TRUE)
                        /\ c \notin spanned => x \in QueryChain(Correlation(c), FALSE)
    BY DEF RegisteredCanBeShown
  <2>2. c \in Cycles
    BY <2>1 DEF IngressInv, FormsOK
  <2>3. x.correlation = Correlation(c)
    BY <2>1, <2>2 DEF IngressInv, Kept
  <2>4. ASSUME LedgerConfigured, x \notin missed
        PROVE  x \in QueryChain(Correlation(c), TRUE)
    <3>1. PICK r \in remote : r.entry = x
      BY <2>1, <2>2, <2>4 DEF IngressInv, WrittenHeld, Held
    <3>2. x \in RemoteChain(Correlation(c))
      BY <2>3, <3>1 DEF RemoteChain
    <3> QED
      BY <2>4, <3>2 DEF QueryChain
  <2>5. ASSUME c \notin spanned  PROVE x \in QueryChain(Correlation(c), FALSE)
    <3>1. PICK m \in memory : m.entry = x
      BY <2>1, <2>2, <2>5 DEF IngressInv, Kept
    <3>2. x \in LocalChain(Correlation(c))
      BY <2>3, <3>1 DEF LocalChain
    <3> QED
      BY <3>2 DEF QueryChain
  <2> QED
    BY <2>4, <2>5
<1> QED
  BY IngressInvHolds, <1>1, PTL

(* What write_entry calls externally proved is in the ledger, whatever     *)
(* replies are lost and processes restart: a key never stands for another  *)
(* entry.                                                                  *)
THEOREM IngressProofsAreReal == Spec => []ProofsAreReal
<1>1. IngressInv => ProofsAreReal
  BY DEF IngressInv, LedgerOK
<1> QED
  BY IngressInvHolds, <1>1, PTL

=============================================================================
