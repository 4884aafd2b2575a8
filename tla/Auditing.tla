------------------------------ MODULE Auditing ------------------------------
(***************************************************************************)
(* The two auditors of decision records: DecisionSampler                   *)
(* (gcl/loop/decision_sampler.py), a background task of the API process    *)
(* that polls the ledger and audits a sample, and the cascade audit        *)
(* (gcl/loop/cascade_audit.py), a command that judges every drop of a time *)
(* window.  Both read decision.record entries that other systems write and *)
(* post audit.verdict entries to the same ledger.                          *)
(*                                                                         *)
(* As in LoopDriver, an action runs from one awaited (in the command:      *)
(* blocking) call to the next.  The ledger answers a query with entries in *)
(* the order of their timestamps, which come from its own clock.           *)
(***************************************************************************)
EXTENDS LedgerClient, Sampling, SequencesExt

CONSTANTS
  RecordKinds,   \* the decision records other systems may write
  PageSize,      \* entries of one page: 100
  FetchCap,      \* a poll stops asking for pages at this many entries: 500
  RateInverse,   \* 1 / sample_rate
  Probes,        \* what the model may say to a verdict that fails a drop
  MaxVerdicts,   \* max_verdicts_per_poll
  ResultCap,     \* results kept by the sampler: 1000
  Window,        \* window_minutes of the cascade audit
  GatewayCap,    \* entries one query of the cascade audit returns at most
  MaxRecords,    \* bound: decision records written
  MaxTime,       \* bound: the last instant of the ledger's clock
  MaxEvents      \* bound: failed calls, restarts and cascade audits, together

Auditable  == {"drop", "suppress", "dedupe"}
Outcomes   == Auditable \union {"keep"}
Severities == {"missing", "info", "low", "medium", "high", "critical"}

(* A confidence in tenths: -1 when the field is missing, -2 when it is     *)
(* null, which neither auditor can compare with a number.                  *)
Missing     == -1
Null        == -2
Confidences == {Null, Missing} \union 0 .. 10

Decision == [ref : STRING, outcome : Outcomes, severity : Severities,
             confidence : Confidences]

ASSUME AuditAssumption ==
  /\ \A r \in RecordKinds :
       /\ r.correlation \in STRING
       /\ r.readable \in BOOLEAN    \* the content parses as JSON
       /\ r.decisions \in Seq(Decision)
  /\ LedgerConfigured
  /\ "none" \in Probes /\ Probes \subseteq {"none", "upheld", "overrode"}
  /\ {PageSize, FetchCap, RateInverse, MaxVerdicts, ResultCap, GatewayCap, MaxTime}
       \subseteq Nat \ {0}
  /\ {Window, MaxRecords, MaxEvents} \subseteq Nat

VARIABLES
  now,       \* the ledger's clock
  log,       \* the decision records in the ledger, in the order written
  lastSeen,  \* _last_seen_ts
  results,   \* _audit_results
  poll,      \* the poll under way: what it awaits and its local variables
  command,   \* the same of the cascade audit
  handed,    \* history: positions whose records a poll of this process read
  spoiled,   \* history: positions in a batch with a record it could not read
  covered,   \* history: positions read by cascade audits that completed
  events     \* failed calls, restarts and cascade audits so far

samplerVars == <<lastSeen, results, poll, handed, spoiled>>
commandVars == <<command, covered>>
vars == <<now, log, samplerVars, commandVars, events, ledgerVars>>

DecisionAt(x) == log[x[1]].decisions[x[2]]
Dedupes(S) == {x \in S : DecisionAt(x).outcome = "dedupe"}

(* The decisions of some entries that are audited, as <<position, index>>. *)
AuditableIn(positions) ==
  {x \in UNION {{i} \X DOMAIN log[i].decisions : i \in positions} :
     DecisionAt(x).outcome \in Auditable}

Counted == events < MaxEvents /\ events' = events + 1

-----------------------------------------------------------------------------
(* The judgement of a decision, by each auditor.                           *)

Severe(d) == d.severity \in {"high", "critical"}

(* audit_decision: a missing confidence counts as 1.0 ...                  *)
SamplerFails(d) ==
  \/ d.outcome # "dedupe" /\ Severe(d)
  \/ d.confidence \in 0 .. 7

(* ... and in judge_drop as 0.  Plausible bug: dedupe is judged as a drop. *)
CommandFailsDedupe(d) == Severe(d) \/ d.confidence \in {Missing} \union 0 .. 7

CommandFails(d) ==
  \/ d.outcome # "dedupe" /\ Severe(d)
  \/ d.confidence \in {Missing} \union 0 .. 7

Raises(d) == d.confidence = Null

(* An audit.verdict entry; probe is the opinion of a model, if there is    *)
(* one, whose words are left out.                                          *)
VerdictOn(x, fails, probe, by) ==
  [type |-> "audit.verdict", correlation |-> log[x[1]].correlation,
   content |-> [decision |-> DecisionAt(x), probe |-> probe, by |-> by,
                verdict  |-> IF fails /\ probe # "overrode" THEN "FAILS" ELSE "SURVIVES"]]

-----------------------------------------------------------------------------
(* The sampler: poll_and_audit, called again after every poll interval.    *)

(* awaits   "sleeping", "page", "probe" or "write"                         *)
(* fetched  positions in log of the entries on the pages so far            *)
(* todo     sampled decisions not yet judged                               *)
(* current  the verdict whose probe or write is awaited                    *)
(* written  the verdicts of this poll                                      *)
(* sample   history: the decisions sampled, and those of which             *)
Asleep == [awaits |-> "sleeping", fetched |-> <<>>, todo |-> {},
           current |-> <<>>, written |-> <<>>, sample |-> [taken |-> {}, of |-> {}]]

StartPoll ==
  /\ poll.awaits = "sleeping"
  /\ poll' = [poll EXCEPT !.awaits = "page"]
  /\ UNCHANGED <<now, log, lastSeen, results, handed, spoiled, commandVars,
                 events, ledgerVars>>

(* Where a poll may stand once the next decision is judged: judgement      *)
(* calls come before mechanical decisions.  A null confidence raises,      *)
(* which forgets the verdicts of this poll but not their entries.          *)
Judged(todo, written, sample) ==
  LET calls == todo \ Dedupes(todo)
      After(x) ==
        LET fails == SamplerFails(DecisionAt(x))
        IN  [awaits |-> IF fails THEN "probe" ELSE "write", fetched |-> <<>>,
             todo |-> todo \ {x}, written |-> written, sample |-> sample,
             current |-> <<[at |-> x, verdict |-> VerdictOn(x, fails, "none", "sampler")]>>]
  IN  {IF Raises(DecisionAt(x)) THEN Asleep ELSE After(x) :
         x \in IF calls # {} THEN calls ELSE todo}

(* from_ts: one past the watermark.  Plausible bug: the watermark itself,  *)
(* so that entries of the same millisecond are not missed.                 *)
FromInclusive == lastSeen

FromTs == IF lastSeen > 0 THEN lastSeen + 1 ELSE 0

(* The entries written at or after an instant that a page may hold: as the *)
(* log is in the order of time, all that come after those that do not.     *)
Passed(from, fetched) ==
  {i \in DOMAIN log : log[i].at < from \/ \E j \in Range(fetched) : i <= j}

Matching(from, fetched) ==
  LET passed == Cardinality(Passed(from, fetched))
  IN  [k \in 1 .. Len(log) - passed |-> passed + k]

(* What stratified_sample may return for the decisions found.              *)
Samples(found) ==
  LET repeats == Dedupes(found)
      size    == SampleSize(Cardinality(found), RateInverse, MaxVerdicts)
      Of(q)   == {S \in SUBSET found : /\ Cardinality(S \ repeats) = q.judgment
                                      /\ Cardinality(S \intersect repeats) = q.mechanical}
  IN  UNION {Of(q) : q \in {Quotas(Cardinality(found \ repeats), Cardinality(repeats), size)}}

(* All pages are here, or as many as FetchCap asks for: the watermark      *)
(* moves to the latest entry before any content is read.                   *)
Batch(got) ==
  /\ lastSeen' = Max({log[i].at : i \in Range(got)})
  /\ IF \A i \in Range(got) : log[i].readable
       THEN \E found \in {AuditableIn(Range(got))} :
              /\ IF found = {} THEN poll' = Asleep
                 ELSE \E S \in Samples(found) :
                        poll' \in Judged(S, <<>>, [taken |-> S, of |-> found])
              /\ handed' = handed \union Range(got)
              /\ UNCHANGED spoiled
       ELSE /\ poll' = Asleep
            /\ spoiled' = spoiled \union Range(got)
            /\ UNCHANGED handed

FetchPage ==
  /\ poll.awaits = "page"
  /\ \E matching \in {Matching(FromTs, poll.fetched)} :
     \E got \in {poll.fetched \o SubSeq(matching, 1, Lesser(PageSize, Len(matching)))} :
       CASE Len(matching) > PageSize /\ Len(got) < FetchCap ->
              poll' = [poll EXCEPT !.fetched = got] /\ UNCHANGED <<lastSeen, handed, spoiled>>
         [] got = <<>> -> poll' = Asleep /\ UNCHANGED <<lastSeen, handed, spoiled>>
         [] OTHER -> Batch(got)
  /\ UNCHANGED <<now, log, results, commandVars, events, ledgerVars>>

(* A page that fails gives up the poll, and with it the pages before.      *)
(* Plausible bug: the watermark has moved with each page.                  *)
FetchFailsLate ==
  /\ poll.awaits = "page"
  /\ Counted
  /\ poll' = Asleep
  /\ lastSeen' = IF poll.fetched = <<>> THEN lastSeen ELSE log[Last(poll.fetched)].at
  /\ UNCHANGED <<now, log, results, handed, spoiled, commandVars, ledgerVars>>

FetchFails ==
  /\ poll.awaits = "page"
  /\ Counted
  /\ poll' = Asleep
  /\ UNCHANGED <<now, log, lastSeen, results, handed, spoiled, commandVars, ledgerVars>>

(* The model finds the drop right, finds it wrong, or does not say.        *)
Probed ==
  /\ poll.awaits = "probe"
  /\ \E probe \in Probes :
       LET x == Head(poll.current).at
       IN  poll' = [poll EXCEPT !.awaits = "write",
             !.current = <<[at |-> x, verdict |-> VerdictOn(x, TRUE, probe, "sampler")]>>]
  /\ UNCHANGED <<now, log, lastSeen, results, handed, spoiled, commandVars,
                 events, ledgerVars>>

(* The last results.  Plausible bug: trimmed before they are extended.     *)
LastResults(all) == SubSeq(all, Greater(1, Len(all) - ResultCap + 1), Len(all))
ExtendedTrimmed(verdicts) == LastResults(results) \o verdicts

Extended(verdicts) == LastResults(results \o verdicts)

(* _write_verdict.  After the last one the results are extended.           *)
WriteVerdict ==
  /\ poll.awaits = "write"
  /\ LET verdict == Head(poll.current).verdict
         written == Append(poll.written, verdict)
     IN  /\ \E outcome \in WriteOutcomes :
              /\ WriteEntry(verdict, outcome)
              /\ IF outcome = "ok" THEN UNCHANGED events ELSE Counted
         /\ IF poll.todo # {}
              THEN poll' \in Judged(poll.todo, written, poll.sample) /\ UNCHANGED results
              ELSE /\ poll' = Asleep
                   /\ results' = Extended(written)
  /\ UNCHANGED <<now, log, lastSeen, handed, spoiled, commandVars>>

(* The API process restarts: watermark, results and local entries go.      *)
Restart ==
  /\ Counted
  /\ lastSeen' = 0 /\ results' = <<>> /\ poll' = Asleep /\ memory' = {}
  /\ handed' = {} /\ spoiled' = {}
  /\ UNCHANGED <<now, log, commandVars, remote, missed>>

-----------------------------------------------------------------------------
(* The cascade audit, a command that is run again and again.               *)

(* window  positions of the entries it read                                *)
(* todo    what is left to do for them: drops, as <<position, index>>, and *)
(*         <<position, 0>> for an entry whose content cannot be parsed     *)
Off == [awaits |-> "nothing", from |-> 0, window |-> {}, todo |-> {}]

StartAudit ==
  /\ command.awaits = "nothing"
  /\ Counted
  /\ command' = [Off EXCEPT !.awaits = "entries", !.from = now - Window]
  /\ UNCHANGED <<now, log, samplerVars, covered, ledgerVars>>

(* Entries and their decisions are judged in order; what cannot be parsed  *)
(* or compared raises and ends the command.                                *)
WorkOn(window) ==
  AuditableIn({i \in window : log[i].readable})
    \union {<<i, 0>> : i \in {j \in window : ~log[j].readable}}

First(todo) ==
  CHOOSE x \in todo : \A y \in todo : x[1] < y[1] \/ (x[1] = y[1] /\ x[2] <= y[2])

Continue(window, todo) ==
  CASE todo = {} -> command' = Off /\ covered' = covered \union window
    [] todo # {} /\ (First(todo)[2] = 0 \/ Raises(DecisionAt(First(todo)))) ->
         command' = Off /\ UNCHANGED covered
    [] OTHER ->
         /\ command' = [Off EXCEPT !.awaits = "post", !.window = window, !.todo = todo]
         /\ UNCHANGED covered

(* The gateway returns one page; its next_page_token is not looked at.     *)
ReadWindow ==
  /\ command.awaits = "entries"
  /\ LET matching == Matching(command.from, <<>>)
         page     == Range(SubSeq(matching, 1, Lesser(GatewayCap, Len(matching))))
     IN  Continue(page, WorkOn(page))
  /\ UNCHANGED <<now, log, samplerVars, events, ledgerVars>>

(* Unlike the key of LedgerClient this one does not depend on the verdict. *)
(* Plausible bug: nor on the decision.                                     *)
CommandKeyPerCascade(entry) == <<entry.type, entry.correlation, [of |-> "cascade"]>>
CommandKey(entry) ==
  <<entry.type, entry.correlation, [ref |-> entry.content.decision.ref]>>

PostVerdict ==
  /\ command.awaits = "post"
  /\ LET x     == First(command.todo)
         entry == VerdictOn(x, CommandFails(DecisionAt(x)), "none", "command")
     IN  remote' = Stored(CommandKey(entry), entry)
  /\ Continue(command.window, command.todo \ {First(command.todo)})
  /\ UNCHANGED <<now, log, samplerVars, events, memory, missed>>

(* The query, or a post, fails; a post may have been applied all the same. *)
CommandFault ==
  /\ command.awaits # "nothing"
  /\ Counted
  /\ command' = Off
  /\ \/ UNCHANGED remote
     \/ /\ command.awaits = "post"
        /\ LET x     == First(command.todo)
               entry == VerdictOn(x, CommandFails(DecisionAt(x)), "none", "command")
           IN  remote' = Stored(CommandKey(entry), entry)
  /\ UNCHANGED <<now, log, samplerVars, covered, memory, missed>>

-----------------------------------------------------------------------------
(* The systems that write decision records, and the clock.                 *)

RecordWritten ==
  /\ Len(log) < MaxRecords
  /\ \E r \in RecordKinds :
       log' = Append(log, [at |-> now, correlation |-> r.correlation,
                           readable |-> r.readable, decisions |-> r.decisions])
  /\ UNCHANGED <<now, samplerVars, commandVars, events, ledgerVars>>

Tick ==
  /\ now < MaxTime
  /\ now' = now + 1
  /\ UNCHANGED <<log, samplerVars, commandVars, events, ledgerVars>>

Init ==
  /\ now = 1
  /\ log = <<>>
  /\ lastSeen = 0 /\ results = <<>> /\ poll = Asleep
  /\ command = Off
  /\ handed = {} /\ spoiled = {} /\ covered = {}
  /\ events = 0
  /\ LedgerInit

SamplerStep == StartPoll \/ FetchPage \/ FetchFails \/ Probed \/ WriteVerdict

CommandStep == ReadWindow \/ PostVerdict \/ CommandFault

Next ==
  SamplerStep \/ Restart \/ StartAudit \/ CommandStep \/ RecordWritten \/ Tick

(* _sampler_loop polls for ever: it catches what a poll raises, and every  *)
(* call it awaits has a timeout.  That calls stop failing is the bound     *)
(* MaxEvents.  Nobody has to run the cascade audit.                        *)
Spec == Init /\ [][Next]_vars /\ WF_vars(SamplerStep)

-----------------------------------------------------------------------------
(* Properties.                                                             *)

VerdictEntry ==
  [type : {"audit.verdict"}, correlation : STRING,
   content : [decision : Decision, probe : Probes,
              verdict : {"SURVIVES", "FAILS"}, by : {"sampler", "command"}]]

(* Types, and that what a poll or an audit holds is in the log.            *)
AuditTypeOK ==
  /\ now \in 1 .. MaxTime
  /\ lastSeen \in 0 .. now
  /\ results \in Seq(VerdictEntry) /\ Len(results) <= ResultCap
  /\ poll.awaits \in {"sleeping", "page", "probe", "write"}
  /\ Len(poll.current) = IF poll.awaits \in {"probe", "write"} THEN 1 ELSE 0
  /\ Range(poll.fetched) \union handed \union spoiled \union covered \subseteq DOMAIN log
  /\ \A x \in poll.todo : x \in AuditableIn(DOMAIN log)
  /\ Len(poll.written) + Cardinality(poll.todo) <= MaxVerdicts
  /\ \A r \in remote : r.entry \in VerdictEntry
  /\ \A m \in memory : m.entry \in VerdictEntry

(* What the watermark passes was read: a record at or before _last_seen_ts *)
(* was read by a poll, shared its batch with a record that could not be    *)
(* read, or came in the millisecond of an earlier one that was (after its  *)
(* page, or beyond FetchCap), and only such a record is lost for good      *)
(* (_fetch_new_entries).                                                   *)
OnlySameInstantSkipped ==
  LET read == handed \union spoiled
  IN  \A i \in DOMAIN log : log[i].at <= lastSeen =>
        \/ i \in read
        \/ \E j \in read : j < i /\ log[j].at = log[i].at

(* The sample takes all it may, no kind crowds out the other: half of it,  *)
(* rounded up, is for judgement calls if there are as many, and with two   *)
(* or more to audit mechanical decisions are never left out                *)
(* (stratified_sample).                                                    *)
SampleFair ==
  LET taken == poll.sample.taken
      of    == poll.sample.of
      size  == Cardinality(taken)
      calls == Cardinality(taken \ Dedupes(taken))
  IN  /\ taken \subseteq of
      /\ of # {} => size = SampleSize(Cardinality(of), RateInverse, MaxVerdicts)
      /\ 2 * calls >= size \/ taken \ Dedupes(taken) = of \ Dedupes(of)
      /\ size >= 2 /\ Dedupes(of) # {} => Dedupes(taken) # {}

(* "This matches gcl.loop.decision_sampler" (judge_drop), as far as it     *)
(* goes: two verdicts on one decision differ only if a model overrode the  *)
(* sampler's, or the decision has no confidence.                           *)
AuditorsAgree ==
  \A r, s \in remote :
    LET a == r.entry.content
        b == s.entry.content
    IN  a.by = "sampler" /\ b.by = "command" /\ a.decision = b.decision
        => \/ a.verdict = b.verdict
           \/ a.probe = "overrode"
           \/ a.decision.confidence = Missing

(* After a restart the sampler begins again at the first record, and a     *)
(* lost reply leaves it in doubt; still the ledger holds one verdict of    *)
(* its checks for each decision of a cascade (write_entry's key).          *)
VerdictsNotRepeated ==
  \A r, s \in remote :
    /\ r.entry.correlation = s.entry.correlation
    /\ r.entry.content.decision = s.entry.content.decision
    /\ r.entry.content.by = s.entry.content.by
    /\ r.entry.content.probe = "none" /\ s.entry.content.probe = "none"
    => r = s

(* A cascade audit that completed has judged every drop that it read: the  *)
(* ledger has its verdict on each decision's subject, once, however often  *)
(* windows overlap and posts fail half way (audit, _post_verdict).         *)
CompletedAuditCovers ==
  \A x \in AuditableIn(covered) :
    Cardinality({r \in remote :
      /\ r.entry.content.by = "command"
      /\ r.entry.correlation = log[x[1]].correlation
      /\ r.entry.content.decision.ref = DecisionAt(x).ref}) = 1

(* "Every sampled result is durable" (test_decision_sampler.py:159) as far *)
(* as it goes: each verdict that the summary counts is in the ledger       *)
(* itself, unless its own write failed; no verdict gives way to another    *)
(* under a key that both have, to a restart or to a reply that was lost    *)
(* (poll_and_audit, write_entry).                                          *)
ResultsBacked == \A n \in DOMAIN results : Held(results[n])

(* Once records stop coming and calls succeed again, the watermark has     *)
(* passed every record: no batch, however it ends, holds up the polls      *)
(* after it (_sampler_loop, _fetch_new_entries).                           *)
EveryRecordPassed == []<>(\A i \in DOMAIN log : log[i].at <= lastSeen)

=============================================================================
