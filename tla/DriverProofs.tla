---------------------------- MODULE DriverProofs ----------------------------
(***************************************************************************)
(* What holds of run_cycle for any number of overlapping cycles, whatever  *)
(* fails and however often the process restarts: one theorem for each      *)
(* invariant of the chain run, and that run_cycle keeps the promise of     *)
(* GovernedCycle, step by step.                                            *)
(***************************************************************************)
EXTENDS LoopDriver, AccountabilityProofs

-----------------------------------------------------------------------------
(* The entries of a cycle, as they grow.                                   *)

E0 == <<>>
E1 == Append(E0, "cycle_start")
E2 == Append(E1, "classify")
E3 == Append(E2, "predict")
E4 == Append(E3, "interpret")
E5 == Append(E4, "plan")
E6 == Append(E5, "falsify")
E7 == Append(E6, "promotion")

Begun == {E0, E1, E2, E3, E4, E5, E6, E7}

(* A verdict is written.                                                   *)
Judged(entries) == \E i \in DOMAIN entries : entries[i] = "falsify"

EndsProposed(entries) == entries # <<>> /\ entries[Len(entries)] \in ProposalEntries

(* An entry more, and nothing lost.                                        *)
LEMMA OneMore ==
  ASSUME NEW s \in Seq(Awaiting), NEW e \in Awaiting
  PROVE  /\ Append(s, e) \in Seq(Awaiting)
         /\ Len(Append(s, e)) = Len(s) + 1 /\ Len(s) \in Nat
         /\ \A i \in 1 .. Len(s) : Append(s, e)[i] = s[i]
         /\ \A i \in Nat : i = Len(s) + 1 => Append(s, e)[i] = e
         /\ DOMAIN s = 1 .. Len(s) /\ DOMAIN Append(s, e) = 1 .. Len(s) + 1
         /\ Append(s, e) # <<>>
<1>1. Append(s, e) \in Seq(Awaiting)
  BY AppendProperties
<1> QED
  BY <1>1, AppendProperties, LenProperties

(* One more entry, for a sequence of known length.                         *)
LEMMA NextEntry ==
  ASSUME NEW n \in Nat, NEW s \in Seq(Awaiting), Len(s) = n,
         NEW e \in Awaiting, NEW t, t = Append(s, e)
  PROVE  /\ t \in Seq(Awaiting) /\ Len(t) = n + 1
         /\ t[n + 1] = e
         /\ \A i \in 1 .. n : t[i] = s[i]
  BY OneMore

(* The stages, by length and elements.                                     *)
LEMMA EntriesAre ==
  /\ E0 \in Seq(Awaiting) /\ E1 \in Seq(Awaiting) /\ E2 \in Seq(Awaiting)
  /\ E3 \in Seq(Awaiting) /\ E4 \in Seq(Awaiting) /\ E5 \in Seq(Awaiting)
  /\ E6 \in Seq(Awaiting) /\ E7 \in Seq(Awaiting)
  /\ E5 = Stages
  /\ Len(E5) = 5 /\ E6[6] = "falsify" /\ E7[6] = "falsify" /\ Len(E6) = 6 /\ Len(E7) = 7
<1>0. E0 \in Seq(Awaiting) /\ Len(E0) = 0
  BY EmptySeq DEF E0
<1>a. /\ "cycle_start" \in Awaiting /\ "classify" \in Awaiting /\ "predict" \in Awaiting
      /\ "interpret" \in Awaiting /\ "plan" \in Awaiting /\ "falsify" \in Awaiting
      /\ "promotion" \in Awaiting
  BY DEF Awaiting
<1>1. /\ E1 \in Seq(Awaiting) /\ Len(E1) = 1 /\ E1[1] = "cycle_start"
      /\ \A i \in 1 .. 0 : E1[i] = E0[i]
  <2>1. E1 = Append(E0, "cycle_start")
    BY DEF E1
  <2> QED
    BY <1>0, <1>a, <2>1, NextEntry, 0 \in Nat, 0 + 1 = 1
<1>2. /\ E2 \in Seq(Awaiting) /\ Len(E2) = 2 /\ E2[2] = "classify"
      /\ \A i \in 1 .. 1 : E2[i] = E1[i]
  <2>1. E2 = Append(E1, "classify")
    BY DEF E2
  <2> QED
    BY <1>1, <1>a, <2>1, NextEntry, 1 \in Nat, 1 + 1 = 2
<1>3. /\ E3 \in Seq(Awaiting) /\ Len(E3) = 3 /\ E3[3] = "predict"
      /\ \A i \in 1 .. 2 : E3[i] = E2[i]
  <2>1. E3 = Append(E2, "predict")
    BY DEF E3
  <2> QED
    BY <1>2, <1>a, <2>1, NextEntry, 2 \in Nat, 2 + 1 = 3
<1>4. /\ E4 \in Seq(Awaiting) /\ Len(E4) = 4 /\ E4[4] = "interpret"
      /\ \A i \in 1 .. 3 : E4[i] = E3[i]
  <2>1. E4 = Append(E3, "interpret")
    BY DEF E4
  <2> QED
    BY <1>3, <1>a, <2>1, NextEntry, 3 \in Nat, 3 + 1 = 4
<1>5. /\ E5 \in Seq(Awaiting) /\ Len(E5) = 5 /\ E5[5] = "plan"
      /\ \A i \in 1 .. 4 : E5[i] = E4[i]
  <2>1. E5 = Append(E4, "plan")
    BY DEF E5
  <2> QED
    BY <1>4, <1>a, <2>1, NextEntry, 4 \in Nat, 4 + 1 = 5
<1>6. /\ E6 \in Seq(Awaiting) /\ Len(E6) = 6 /\ E6[6] = "falsify"
      /\ \A i \in 1 .. 5 : E6[i] = E5[i]
  <2>1. E6 = Append(E5, "falsify")
    BY DEF E6
  <2> QED
    BY <1>5, <1>a, <2>1, NextEntry, 5 \in Nat, 5 + 1 = 6
<1>7. /\ E7 \in Seq(Awaiting) /\ Len(E7) = 7 /\ E7[7] = "promotion"
      /\ \A i \in 1 .. 6 : E7[i] = E6[i]
  <2>1. E7 = Append(E6, "promotion")
    BY DEF E7
  <2> QED
    BY <1>6, <1>a, <2>1, NextEntry, 6 \in Nat, 6 + 1 = 7
<1>8. E5 = Stages
  <2>1. Stages \in Seq(Awaiting) /\ Len(Stages) = 5
    BY <1>a DEF Stages
  <2>2. /\ Stages[1] = "cycle_start" /\ Stages[2] = "classify" /\ Stages[3] = "predict"
        /\ Stages[4] = "interpret" /\ Stages[5] = "plan"
    BY DEF Stages
  <2>3. /\ E5[1] = "cycle_start" /\ E5[2] = "classify" /\ E5[3] = "predict"
        /\ E5[4] = "interpret" /\ E5[5] = "plan"
    BY <1>1, <1>2, <1>3, <1>4, <1>5
  <2>4. \A i \in 1 .. 5 : E5[i] = Stages[i]
    BY <2>2, <2>3
  <2> QED
    BY <1>5, <2>1, <2>4, SeqEqual
<1> QED
  BY <1>0, <1>1, <1>2, <1>3, <1>4, <1>5, <1>6, <1>7, <1>8

(* The ends of a cycle that returns make its chain complete.               *)
LEMMA Completed ==
  /\ \A e \in {"reject", "no_action", "cooldown"} : Append(E5, e) \in CompleteChains
  /\ Append(E6, "reject") \in CompleteChains
  /\ \A e \in ProposalEntries \union {"package_rejected"} :
       Append(E6, e) \in CompleteChains /\ Append(E7, e) \in CompleteChains
<1> DEFINE S == Seq(Awaiting)
           f == <<"falsify">>
           p == <<"promotion">>
<1>1. /\ Stages \in S /\ f \in S /\ p \in S
      /\ "reject" \in Awaiting /\ "no_action" \in Awaiting /\ "cooldown" \in Awaiting
      /\ ProposalEntries \union {"package_rejected"} \subseteq Awaiting
      /\ "falsify" \in Awaiting /\ "promotion" \in Awaiting
  BY EntriesAre DEF Awaiting, EndEntries
<1>2. \A s \in S, e \in Awaiting : Append(s, e) = s \o <<e>>
  BY AppendIsConcat
<1>3. /\ E5 = Stages /\ E6 = Stages \o f /\ E7 = (Stages \o f) \o p
      /\ E6 \in S /\ E7 \in S
  BY <1>1, <1>2, EntriesAre DEF E6, E7
<1> HIDE DEF S, f, p
<1>4. \A e \in {"reject", "no_action", "cooldown"} : Append(E5, e) \in CompleteChains
  BY <1>1, <1>2, <1>3 DEF CompleteChains
<1>5. \A e \in ProposalEntries \union {"reject", "package_rejected"} :
        Append(E6, e) \in CompleteChains
  <2>1. \A e \in ProposalEntries \union {"reject", "package_rejected"} :
          Append(E6, e) = (Stages \o f) \o <<e>>
    BY <1>1, <1>2, <1>3
  <2> QED
    BY <2>1 DEF CompleteChains, f
<1>6. \A e \in ProposalEntries \union {"package_rejected"} :
        Append(E7, e) \in CompleteChains
  BY <1>1, <1>2, <1>3 DEF CompleteChains, f, p
<1> QED
  BY <1>4, <1>5, <1>6

LEMMA BeginningTransitive ==
  ASSUME NEW s \in Seq(Awaiting), NEW t \in Seq(Awaiting), NEW u \in Seq(Awaiting),
         IsBeginning(s, t), IsBeginning(t, u)
  PROVE  IsBeginning(s, u)
BY LenProperties DEF IsBeginning

LEMMA BeginningAppend ==
  ASSUME NEW s \in Seq(Awaiting), NEW e \in Awaiting
  PROVE  IsBeginning(s, Append(s, e))
BY OneMore DEF IsBeginning

(* Whatever a cycle has written when it is not over can be completed.      *)
LEMMA BegunCanComplete ==
  \A s \in Begun : s \in Seq(Awaiting) /\ \E t \in CompleteChains : IsBeginning(s, t)
<1> DEFINE t == Append(E7, "proposed")
<1>1. /\ "cycle_start" \in Awaiting /\ "classify" \in Awaiting /\ "predict" \in Awaiting
      /\ "interpret" \in Awaiting /\ "plan" \in Awaiting /\ "falsify" \in Awaiting
      /\ "promotion" \in Awaiting /\ "proposed" \in Awaiting
  BY DEF Awaiting, ProposalEntries
<1>2. t \in CompleteChains /\ t \in Seq(Awaiting)
  BY Completed, OneMore, EntriesAre, <1>1 DEF ProposalEntries
<1>3. /\ IsBeginning(E0, E1) /\ IsBeginning(E1, E2) /\ IsBeginning(E2, E3)
      /\ IsBeginning(E3, E4) /\ IsBeginning(E4, E5) /\ IsBeginning(E5, E6)
      /\ IsBeginning(E6, E7) /\ IsBeginning(E7, t)
  BY <1>1, BeginningAppend, EntriesAre DEF E1, E2, E3, E4, E5, E6, E7
<1> HIDE DEF t
<1>4. IsBeginning(E6, t)
  BY <1>2, <1>3, BeginningTransitive, EntriesAre
<1>5. IsBeginning(E5, t)
  BY <1>2, <1>3, <1>4, BeginningTransitive, EntriesAre
<1>6. IsBeginning(E4, t)
  BY <1>2, <1>3, <1>5, BeginningTransitive, EntriesAre
<1>7. IsBeginning(E3, t)
  BY <1>2, <1>3, <1>6, BeginningTransitive, EntriesAre
<1>8. IsBeginning(E2, t)
  BY <1>2, <1>3, <1>7, BeginningTransitive, EntriesAre
<1>9. IsBeginning(E1, t)
  BY <1>2, <1>3, <1>8, BeginningTransitive, EntriesAre
<1>10. IsBeginning(E0, t)
  BY <1>2, <1>3, <1>9, BeginningTransitive, EntriesAre
<1> QED
  BY <1>2, <1>3, <1>4, <1>5, <1>6, <1>7, <1>8, <1>9, <1>10, EntriesAre DEF Begun

-----------------------------------------------------------------------------
(* The inductive invariant.                                                *)

(* Where a verdict in favour of the plan is written, ...                   *)
Approved == {"attesting", "promotion"} \union Packaged

(* ... and where the plan is one that may be proposed.                     *)
Gated == {"falsifying", "falsify"} \union Approved \union ProposalEntries

(* What a cycle has written, planned and been told, by what it awaits.     *)
CycleOK(p, pl, v, com, ch) ==
  /\ p \in {"idle", "cycle_start"}          => ch = E0
  /\ p \in {"classifying", "classify"}      => ch = E1
  /\ p = "predict"                          => ch = E2
  /\ p \in {"interpreting", "interpret"}    => ch = E3
  /\ p = "plan"                             => ch = E4
  /\ p \in {"falsifying", "falsify", "no_action", "cooldown"} => ch = E5
  /\ p = "reject"                           => ch = E5 \/ (ch = E6 /\ v = "fails")
  /\ p \in {"attesting", "promotion"}       => ch = E6
  /\ p \in Packaged \union ProposalEntries  => ch \in {E6, E7}
  /\ p = "aborted"                          => ch \in Begun
  /\ p = "done"                             => ch \in CompleteChains /\ ch \in Seq(Awaiting)
  /\ p \in Gated                            => pl \in Canonical
  /\ p = "falsify"                          => v \in {"survives", "fails"}
  /\ p \in Approved \union ProposalEntries  => v = "survives"
  /\ com <=> p = "done" /\ EndsProposed(ch)

CyclesOK == \A c \in Cycles : CycleOK(pc[c], plan[c], verdict[c], committed[c], chain[c])

(* A package that was admitted belongs to a cycle that is past proposing,  *)
(* and so keeps its plan, its verdict and the entry of it.                 *)
AdmittedOK ==
  /\ \A d \in delivered :
       /\ pc[d.cycle] \in ProposalEntries \union Over
       /\ d.type = plan[d.cycle]
       /\ verdict[d.cycle] = "survives"
       /\ Judged(chain[d.cycle])
  /\ \A d, e \in delivered : d.cycle = e.cycle => d = e

(* No commit of the driver waits for an outcome.                           *)
NoOutcomeDue == pendingOutcomes = {}

(* What a cycle has written, or is writing, of the fleet's answer is so.   *)
Has(entries, e) == \E i \in DOMAIN entries : entries[i] = e
Denials == EndEntries \union {"proposal_rejected"}

ToldOK ==
  \A c \in Cycles :
    /\ pc[c] = "proposed" \/ Has(chain[c], "proposed") => Delivered(c)
    /\ \A e \in Denials : pc[c] = e \/ Has(chain[c], e) => ~Delivered(c)

DriverInv ==
  /\ TypeInv
  /\ DriverTypeOK
  /\ NoOutcomeDue
  /\ CyclesOK
  /\ AdmittedOK
  /\ ToldOK

-----------------------------------------------------------------------------
(* What an action of one cycle does to the variables it keeps per cycle.   *)

CycleVarsOK ==
  /\ pc \in [Cycles -> Awaiting \union Over \union {"idle"}]
  /\ signals \in [Cycles -> {<<>>} \union {<<v>> : v \in Latencies}]
  /\ plan \in [Cycles -> Plans \union {"none"}]
  /\ verdict \in [Cycles -> {"none", "survives", "fails"}]
  /\ committed \in [Cycles -> BOOLEAN]
  /\ chain \in [Cycles -> Seq(Awaiting)]

(* The last entry of a chain that has just grown is the new one.           *)
LEMMA EndsWithNew ==
  ASSUME NEW s \in Seq(Awaiting), NEW e \in Awaiting
  PROVE  EndsProposed(Append(s, e)) <=> e \in ProposalEntries
<1>1. Append(s, e)[Len(Append(s, e))] = e /\ Append(s, e) # <<>>
  BY OneMore
<1> QED
  BY <1>1 DEF EndsProposed

(* A cycle that is not over has written no answer of the fleet.            *)
LEMMA BegunNotProposed ==
  \A s \in Begun : ~EndsProposed(s)
<1>1. /\ "cycle_start" \in Awaiting /\ "classify" \in Awaiting /\ "predict" \in Awaiting
      /\ "interpret" \in Awaiting /\ "plan" \in Awaiting /\ "falsify" \in Awaiting
      /\ "promotion" \in Awaiting
  BY DEF Awaiting
<1>2. /\ "cycle_start" \notin ProposalEntries /\ "classify" \notin ProposalEntries
      /\ "predict" \notin ProposalEntries /\ "interpret" \notin ProposalEntries
      /\ "plan" \notin ProposalEntries /\ "falsify" \notin ProposalEntries
      /\ "promotion" \notin ProposalEntries
  BY DEF ProposalEntries
<1>3. ~EndsProposed(E0)
  BY DEF EndsProposed, E0
<1>4. ~EndsProposed(E1) /\ ~EndsProposed(E2) /\ ~EndsProposed(E3) /\ ~EndsProposed(E4)
  BY <1>1, <1>2, EntriesAre, EndsWithNew DEF E1, E2, E3, E4
<1>5. ~EndsProposed(E5) /\ ~EndsProposed(E6) /\ ~EndsProposed(E7)
  BY <1>1, <1>2, EntriesAre, EndsWithNew DEF E5, E6, E7
<1> QED
  BY <1>3, <1>4, <1>5 DEF Begun

(* A write appends the awaited entry to the chain of its own cycle.        *)
LEMMA WroteIs ==
  ASSUME CycleVarsOK, NEW c \in Cycles, pc[c] \in Awaiting,
         NEW next \in Awaiting \union Over, Wrote(c, next)
  PROVE  /\ pc' \in [Cycles -> Awaiting \union Over \union {"idle"}]
         /\ chain' \in [Cycles -> Seq(Awaiting)]
         /\ pc'[c] = next /\ chain'[c] = Append(chain[c], pc[c])
         /\ \A d \in Cycles : d # c => pc'[d] = pc[d] /\ chain'[d] = chain[d]
<1>1. Append(chain[c], pc[c]) \in Seq(Awaiting)
  BY OneMore DEF CycleVarsOK
<1> QED
  BY <1>1 DEF CycleVarsOK, Wrote, GoesTo

(* The other moves leave the chain alone.                                  *)
LEMMA GoesToIs ==
  ASSUME CycleVarsOK, NEW c \in Cycles,
         NEW next \in Awaiting \union Over, GoesTo(c, next)
  PROVE  /\ pc' \in [Cycles -> Awaiting \union Over \union {"idle"}]
         /\ pc'[c] = next
         /\ \A d \in Cycles : d # c => pc'[d] = pc[d]
BY DEF CycleVarsOK, GoesTo

(* The next stage of a chain.                                              *)
LEMMA NextStages ==
  /\ Append(E0, "cycle_start") = E1 /\ Append(E1, "classify") = E2
  /\ Append(E2, "predict") = E3 /\ Append(E3, "interpret") = E4
  /\ Append(E4, "plan") = E5 /\ Append(E5, "falsify") = E6
  /\ Append(E6, "promotion") = E7
  /\ E0 \in Begun /\ E1 \in Begun /\ E2 \in Begun /\ E3 \in Begun
  /\ E4 \in Begun /\ E5 \in Begun /\ E6 \in Begun /\ E7 \in Begun
BY DEF E1, E2, E3, E4, E5, E6, E7, Begun

KeepsOthers(c) ==
  \A d \in Cycles : d # c =>
    /\ pc'[d] = pc[d] /\ signals'[d] = signals[d] /\ plan'[d] = plan[d]
    /\ verdict'[d] = verdict[d] /\ committed'[d] = committed[d] /\ chain'[d] = chain[d]

CycleOKNext(c) == CycleOK(pc'[c], plan'[c], verdict'[c], committed'[c], chain'[c])

(* A stage that only writes its entry.                                     *)
LEMMA StageWritten ==
  ASSUME CycleVarsOK, CyclesOK, NEW c \in Cycles, pc[c] \in Awaiting,
         NEW next \in Awaiting \union Over, Wrote(c, next),
         UNCHANGED <<signals, plan, verdict, committed>>,
         CycleOK(next, plan[c], verdict[c], committed[c], Append(chain[c], pc[c]))
  PROVE  CycleVarsOK' /\ CycleOKNext(c) /\ KeepsOthers(c)
<1>1. /\ pc' \in [Cycles -> Awaiting \union Over \union {"idle"}]
      /\ chain' \in [Cycles -> Seq(Awaiting)]
      /\ pc'[c] = next /\ chain'[c] = Append(chain[c], pc[c])
      /\ \A d \in Cycles : d # c => pc'[d] = pc[d] /\ chain'[d] = chain[d]
  BY WroteIs
<1>2. CycleVarsOK'
  BY <1>1 DEF CycleVarsOK
<1>3. CycleOKNext(c)
  BY <1>1 DEF CycleOKNext
<1>4. KeepsOthers(c)
  BY <1>1 DEF KeepsOthers
<1> QED
  BY <1>2, <1>3, <1>4

(* A move that writes no entry.                                            *)
LEMMA CallReturned ==
  ASSUME CycleVarsOK, CyclesOK, NEW c \in Cycles,
         NEW next \in Awaiting \union Over, GoesTo(c, next),
         UNCHANGED <<signals, plan, verdict, committed, chain>>,
         CycleOK(next, plan[c], verdict[c], committed[c], chain[c])
  PROVE  CycleVarsOK' /\ CycleOKNext(c) /\ KeepsOthers(c)
<1>1. /\ pc' \in [Cycles -> Awaiting \union Over \union {"idle"}]
      /\ pc'[c] = next
      /\ \A d \in Cycles : d # c => pc'[d] = pc[d]
  BY GoesToIs
<1>2. CycleVarsOK'
  BY <1>1 DEF CycleVarsOK
<1>3. CycleOKNext(c)
  BY <1>1 DEF CycleOKNext
<1>4. KeepsOthers(c)
  BY <1>1 DEF KeepsOthers
<1> QED
  BY <1>2, <1>3, <1>4

(* Every step of a cycle leaves its own books in order and those of the    *)
(* other cycles untouched.                                                 *)
LEMMA CycleStep ==
  ASSUME CycleVarsOK, CyclesOK, NEW c \in Cycles, Start(c) \/ Proceed(c)
  PROVE  CycleVarsOK' /\ CycleOKNext(c) /\ KeepsOthers(c)
<1> USE NextStages
<1>0. CycleOK(pc[c], plan[c], verdict[c], committed[c], chain[c])
  BY DEF CyclesOK
<1>a. Begun \subseteq Seq(Awaiting) /\ \A s \in Begun : ~EndsProposed(s)
  BY BegunCanComplete, BegunNotProposed
<1>1. CASE WriteCycleStart(c)
  <2>1. /\ pc[c] = "cycle_start" /\ Wrote(c, "classifying")
        /\ UNCHANGED <<signals, plan, verdict, committed>>
    BY <1>1 DEF WriteCycleStart
  <2>2. CycleOK("classifying", plan[c], verdict[c], committed[c], Append(chain[c], pc[c]))
    BY <1>0, <1>a, <2>1, Completed DEF CycleOK, Gated, Approved, Packaged, ProposalEntries, EndEntries
  <2> QED
    BY <2>1, <2>2, StageWritten DEF Awaiting, Over, EndEntries, ModelCalls
<1>2. CASE Classified(c)
  <2>1. /\ pc[c] = "classifying" /\ GoesTo(c, "classify")
        /\ UNCHANGED <<signals, plan, verdict, committed, chain>>
    BY <1>2 DEF Classified
  <2>2. CycleOK("classify", plan[c], verdict[c], committed[c], chain[c])
    BY <1>0, <1>a, <2>1 DEF CycleOK, Gated, Approved, Packaged, ProposalEntries, ModelCalls
  <2> QED
    BY <2>1, <2>2, CallReturned DEF Awaiting, Over, ModelCalls
<1>3. CASE WriteClassify(c)
  <2>1. /\ pc[c] = "classify" /\ Wrote(c, "predict")
        /\ UNCHANGED <<signals, plan, verdict, committed>>
    BY <1>3 DEF WriteClassify
  <2>2. CycleOK("predict", plan[c], verdict[c], committed[c], Append(chain[c], pc[c]))
    BY <1>0, <1>a, <2>1, Completed DEF CycleOK, Gated, Approved, Packaged, ProposalEntries, EndEntries
  <2> QED
    BY <2>1, <2>2, StageWritten DEF Awaiting, Over, EndEntries, ModelCalls
<1>4. CASE WritePredict(c)
  <2>1. /\ pc[c] = "predict" /\ Wrote(c, "interpreting")
        /\ UNCHANGED <<signals, plan, verdict, committed>>
    BY <1>4 DEF WritePredict
  <2>2. CycleOK("interpreting", plan[c], verdict[c], committed[c], Append(chain[c], pc[c]))
    BY <1>0, <1>a, <2>1, Completed DEF CycleOK, Gated, Approved, Packaged, ProposalEntries, EndEntries
  <2> QED
    BY <2>1, <2>2, StageWritten DEF Awaiting, Over, EndEntries, ModelCalls
<1>5. CASE Interpreted(c)
  <2>1. /\ pc[c] = "interpreting" /\ GoesTo(c, "interpret")
        /\ UNCHANGED <<signals, plan, verdict, committed, chain>>
    BY <1>5 DEF Interpreted
  <2>2. CycleOK("interpret", plan[c], verdict[c], committed[c], chain[c])
    BY <1>0, <1>a, <2>1 DEF CycleOK, Gated, Approved, Packaged, ProposalEntries, ModelCalls
  <2> QED
    BY <2>1, <2>2, CallReturned DEF Awaiting, Over, ModelCalls
<1>6. CASE LlmError(c)
  <2>1. /\ pc[c] \in ModelCalls /\ GoesTo(c, "aborted")
        /\ UNCHANGED <<signals, plan, verdict, committed, chain>>
    BY <1>6 DEF LlmError
  <2>2. CycleOK("aborted", plan[c], verdict[c], committed[c], chain[c])
    BY <1>0, <1>a, <2>1 DEF CycleOK, Gated, Approved, Packaged, ProposalEntries, ModelCalls
  <2> QED
    BY <2>1, <2>2, CallReturned DEF Awaiting, Over, ModelCalls
<1>7. CASE ControllerError(c)
  <2>1. /\ pc[c] = "interpret" /\ Wrote(c, "aborted")
        /\ UNCHANGED <<signals, plan, verdict, committed>>
    BY <1>7 DEF ControllerError
  <2>2. CycleOK("aborted", plan[c], verdict[c], committed[c], Append(chain[c], pc[c]))
    BY <1>0, <1>a, <2>1, Completed DEF CycleOK, Gated, Approved, Packaged, ProposalEntries, EndEntries
  <2> QED
    BY <2>1, <2>2, StageWritten DEF Awaiting, Over, EndEntries, ModelCalls
<1>8. CASE Infeasible(c)
  <2>1. /\ pc[c] = "plan" /\ Wrote(c, "reject")
        /\ UNCHANGED <<signals, plan, verdict, committed>>
    BY <1>8 DEF Infeasible
  <2>2. CycleOK("reject", plan[c], verdict[c], committed[c], Append(chain[c], pc[c]))
    BY <1>0, <1>a, <2>1, Completed DEF CycleOK, Gated, Approved, Packaged, ProposalEntries, EndEntries
  <2> QED
    BY <2>1, <2>2, StageWritten DEF Awaiting, Over, EndEntries, ModelCalls
<1>9. CASE NotCanonical(c)
  <2>1. /\ pc[c] = "plan" /\ Wrote(c, "reject")
        /\ UNCHANGED <<signals, plan, verdict, committed>>
    BY <1>9 DEF NotCanonical
  <2>2. CycleOK("reject", plan[c], verdict[c], committed[c], Append(chain[c], pc[c]))
    BY <1>0, <1>a, <2>1, Completed DEF CycleOK, Gated, Approved, Packaged, ProposalEntries, EndEntries
  <2> QED
    BY <2>1, <2>2, StageWritten DEF Awaiting, Over, EndEntries, ModelCalls
<1>10. CASE NoAction(c)
  <2>1. /\ pc[c] = "plan" /\ Wrote(c, "no_action")
        /\ UNCHANGED <<signals, plan, verdict, committed>>
    BY <1>10 DEF NoAction
  <2>2. CycleOK("no_action", plan[c], verdict[c], committed[c], Append(chain[c], pc[c]))
    BY <1>0, <1>a, <2>1, Completed DEF CycleOK, Gated, Approved, Packaged, ProposalEntries, EndEntries
  <2> QED
    BY <2>1, <2>2, StageWritten DEF Awaiting, Over, EndEntries, ModelCalls
<1>11. CASE Attested(c)
  <2>1. /\ pc[c] = "attesting" /\ GoesTo(c, "promotion")
        /\ UNCHANGED <<signals, plan, verdict, committed, chain>>
    BY <1>11 DEF Attested
  <2>2. CycleOK("promotion", plan[c], verdict[c], committed[c], chain[c])
    BY <1>0, <1>a, <2>1 DEF CycleOK, Gated, Approved, Packaged, ProposalEntries, ModelCalls
  <2> QED
    BY <2>1, <2>2, CallReturned DEF Awaiting, Over, ModelCalls
<1>12. CASE CheckCooldown(c)
  <2>1. PICK next \in {"falsifying", "cooldown"} :
          /\ pc[c] = "plan" /\ plan[c] \in Canonical /\ Wrote(c, next)
          /\ UNCHANGED <<signals, plan, verdict, committed>>
    BY <1>12 DEF CheckCooldown
  <2>2. CycleOK(next, plan[c], verdict[c], committed[c], Append(chain[c], pc[c]))
    BY <1>0, <1>a, <2>1 DEF CycleOK, Gated, Approved, Packaged, ProposalEntries, EndEntries
  <2> QED
    BY <2>1, <2>2, StageWritten DEF Awaiting, Over, EndEntries, ModelCalls
<1>13. CASE WriteFalsify(c)
  <2>1. PICK next \in {"reject", "attesting"} \union Packaged :
          /\ pc[c] = "falsify" /\ Wrote(c, next)
          /\ next = "reject" <=> verdict[c] = "fails"
          /\ UNCHANGED <<signals, plan, verdict, committed>>
    BY <1>13 DEF WriteFalsify, Packaged
  <2>2. next # "reject" => verdict[c] = "survives"
    BY <1>0, <2>1 DEF CycleOK
  <2>3. CycleOK(next, plan[c], verdict[c], committed[c], Append(chain[c], pc[c]))
    BY <1>0, <1>a, <2>1, <2>2 DEF CycleOK, Gated, Approved, Packaged, ProposalEntries, EndEntries
  <2> QED
    BY <2>1, <2>3, StageWritten DEF Awaiting, Over, EndEntries, ModelCalls, Packaged
<1>14. CASE WritePromotion(c)
  <2>1. PICK next \in Packaged :
          /\ pc[c] = "promotion" /\ Wrote(c, next)
          /\ UNCHANGED <<signals, plan, verdict, committed>>
    BY <1>14 DEF WritePromotion
  <2>2. CycleOK(next, plan[c], verdict[c], committed[c], Append(chain[c], pc[c]))
    BY <1>0, <1>a, <2>1 DEF CycleOK, Gated, Approved, Packaged, ProposalEntries, EndEntries
  <2> QED
    BY <2>1, <2>2, StageWritten DEF Awaiting, Over, EndEntries, ModelCalls, Packaged
<1>15. CASE Proposed(c)
  <2>1. PICK next \in ProposalEntries \union {"aborted"} :
          /\ pc[c] = "proposing" /\ GoesTo(c, next)
          /\ UNCHANGED <<signals, plan, verdict, committed, chain>>
    BY <1>15 DEF Proposed, EntryFor, ProposalEntries
  <2>2. CycleOK(next, plan[c], verdict[c], committed[c], chain[c])
    BY <1>0, <1>a, <2>1 DEF CycleOK, Gated, Approved, Packaged, ProposalEntries, ModelCalls
  <2> QED
    BY <2>1, <2>2, CallReturned DEF Awaiting, Over, ModelCalls
<1>16. CASE WriteEnd(c)
  <2>1. /\ pc[c] \in EndEntries /\ Wrote(c, "done") /\ pc[c] \in Awaiting
        /\ UNCHANGED <<signals, plan, verdict, committed>>
    BY <1>16 DEF WriteEnd, Awaiting
  <2>2. ~EndsProposed(Append(chain[c], pc[c]))
    BY <2>1, EndsWithNew DEF CycleVarsOK, ProposalEntries, EndEntries
  <2>3. Append(chain[c], pc[c]) \in CompleteChains /\ Append(chain[c], pc[c]) \in Seq(Awaiting)
    BY <1>0, <2>1, Completed, OneMore DEF CycleOK, EndEntries, Packaged, CycleVarsOK
  <2>4. CycleOK("done", plan[c], verdict[c], committed[c], Append(chain[c], pc[c]))
    BY <1>0, <2>1, <2>2, <2>3 DEF CycleOK, Gated, Approved, Packaged, ProposalEntries, EndEntries
  <2> QED
    BY <2>1, <2>4, StageWritten DEF Awaiting, Over, EndEntries, ModelCalls
<1>17. CASE Start(c)
  <2>1. PICK s \in Signals :
          /\ pc[c] = "idle" /\ GoesTo(c, "cycle_start")
          /\ signals' = [signals EXCEPT ![c] = s]
          /\ UNCHANGED <<plan, verdict, committed, chain>>
    BY <1>17 DEF Start
  <2>2. CycleOK("cycle_start", plan[c], verdict[c], committed[c], chain[c])
    BY <1>0, <1>a, <2>1 DEF CycleOK, Gated, Approved, Packaged, ProposalEntries
  <2>3. /\ pc' \in [Cycles -> Awaiting \union Over \union {"idle"}]
        /\ pc'[c] = "cycle_start"
        /\ \A d \in Cycles : d # c => pc'[d] = pc[d]
    BY <2>1, GoesToIs DEF Awaiting
  <2>4. /\ signals' \in [Cycles -> {<<>>} \union {<<v>> : v \in Latencies}]
        /\ \A d \in Cycles : d # c => signals'[d] = signals[d]
    BY <2>1, DriverAssumption DEF CycleVarsOK
  <2>5. CycleVarsOK'
    BY <2>1, <2>3, <2>4 DEF CycleVarsOK
  <2>6. CycleOKNext(c) /\ KeepsOthers(c)
    BY <2>1, <2>2, <2>3, <2>4 DEF CycleOKNext, KeepsOthers
  <2> QED
    BY <2>5, <2>6
<1>18. CASE WriteInterpret(c)
  <2>1. PICK p \in Plans :
          /\ pc[c] = "interpret" /\ Wrote(c, "plan")
          /\ plan' = [plan EXCEPT ![c] = p]
          /\ UNCHANGED <<signals, verdict, committed>>
    BY <1>18 DEF WriteInterpret
  <2>2. CycleOK("plan", p, verdict[c], committed[c], Append(chain[c], pc[c]))
    BY <1>0, <1>a, <2>1 DEF CycleOK, Gated, Approved, Packaged, ProposalEntries
  <2>3. /\ pc' \in [Cycles -> Awaiting \union Over \union {"idle"}]
        /\ chain' \in [Cycles -> Seq(Awaiting)]
        /\ pc'[c] = "plan" /\ chain'[c] = Append(chain[c], pc[c])
        /\ \A d \in Cycles : d # c => pc'[d] = pc[d] /\ chain'[d] = chain[d]
    BY <2>1, WroteIs DEF Awaiting
  <2>4. /\ plan' \in [Cycles -> Plans \union {"none"}] /\ plan'[c] = p
        /\ \A d \in Cycles : d # c => plan'[d] = plan[d]
    BY <2>1 DEF CycleVarsOK
  <2>5. CycleVarsOK'
    BY <2>1, <2>3, <2>4 DEF CycleVarsOK
  <2>6. CycleOKNext(c) /\ KeepsOthers(c)
    BY <2>1, <2>2, <2>3, <2>4 DEF CycleOKNext, KeepsOthers
  <2> QED
    BY <2>5, <2>6
<1>19. CASE Falsified(c)
  <2>1. PICK v \in {"survives", "fails"} :
          /\ pc[c] = "falsifying" /\ GoesTo(c, "falsify")
          /\ verdict' = [verdict EXCEPT ![c] = v]
          /\ UNCHANGED <<signals, plan, committed, chain>>
    BY <1>19 DEF Falsified
  <2>2. CycleOK("falsify", plan[c], v, committed[c], chain[c])
    BY <1>0, <1>a, <2>1 DEF CycleOK, Gated, Approved, Packaged, ProposalEntries
  <2>3. /\ pc' \in [Cycles -> Awaiting \union Over \union {"idle"}]
        /\ pc'[c] = "falsify"
        /\ \A d \in Cycles : d # c => pc'[d] = pc[d]
    BY <2>1, GoesToIs DEF Awaiting
  <2>4. /\ verdict' \in [Cycles -> {"none", "survives", "fails"}] /\ verdict'[c] = v
        /\ \A d \in Cycles : d # c => verdict'[d] = verdict[d]
    BY <2>1 DEF CycleVarsOK
  <2>5. CycleVarsOK'
    BY <2>1, <2>3, <2>4 DEF CycleVarsOK
  <2>6. CycleOKNext(c) /\ KeepsOthers(c)
    BY <2>1, <2>2, <2>3, <2>4 DEF CycleOKNext, KeepsOthers
  <2> QED
    BY <2>5, <2>6
<1>20. CASE WriteProposal(c)
  <2>1. /\ pc[c] \in ProposalEntries /\ Wrote(c, "done") /\ pc[c] \in Awaiting
        /\ committed' = [committed EXCEPT ![c] = TRUE]
        /\ UNCHANGED <<signals, plan, verdict>>
    BY <1>20 DEF WriteProposal, Awaiting
  <2>2. EndsProposed(Append(chain[c], pc[c]))
    BY <2>1, EndsWithNew DEF CycleVarsOK
  <2>3. Append(chain[c], pc[c]) \in CompleteChains /\ Append(chain[c], pc[c]) \in Seq(Awaiting)
    BY <1>0, <2>1, Completed, OneMore DEF CycleOK, CycleVarsOK
  <2>4. CycleOK("done", plan[c], verdict[c], TRUE, Append(chain[c], pc[c]))
    BY <2>2, <2>3 DEF CycleOK, Gated, Approved, Packaged, ProposalEntries
  <2>5. /\ pc' \in [Cycles -> Awaiting \union Over \union {"idle"}]
        /\ chain' \in [Cycles -> Seq(Awaiting)]
        /\ pc'[c] = "done" /\ chain'[c] = Append(chain[c], pc[c])
        /\ \A d \in Cycles : d # c => pc'[d] = pc[d] /\ chain'[d] = chain[d]
    BY <2>1, WroteIs DEF Over
  <2>6. /\ committed' \in [Cycles -> BOOLEAN] /\ committed'[c] = TRUE
        /\ \A d \in Cycles : d # c => committed'[d] = committed[d]
    BY <2>1 DEF CycleVarsOK
  <2>7. CycleVarsOK'
    BY <2>1, <2>5, <2>6 DEF CycleVarsOK
  <2>8. CycleOKNext(c) /\ KeepsOthers(c)
    BY <2>1, <2>4, <2>5, <2>6 DEF CycleOKNext, KeepsOthers
  <2> QED
    BY <2>7, <2>8
<1> QED
  BY <1>1, <1>2, <1>3, <1>4, <1>5, <1>6, <1>7, <1>8, <1>9, <1>10, <1>11, <1>12,
     <1>13, <1>14, <1>15, <1>16, <1>17, <1>18, <1>19, <1>20 DEF Proceed

-----------------------------------------------------------------------------
(* The tracker under the cycles, and the variables they have in common.    *)

LEMMA CycleVarsTyped == DriverInv => CycleVarsOK
BY DEF DriverInv, DriverTypeOK, CycleVarsOK

(* The actions of a cycle that leave the tracker alone.                    *)
LEMMA TrackerActions ==
  ASSUME NEW c \in Cycles, Start(c) \/ Proceed(c)
  PROVE  \/ UNCHANGED trackerVars /\ UNCHANGED recordOf /\ ~WriteProposal(c)
         \/ WriteCycleStart(c)
         \/ WriteProposal(c)
BY DEF Start, Proceed, Classified, WriteClassify, WritePredict, Interpreted,
   WriteInterpret, LlmError, ControllerError, Infeasible, NotCanonical, NoAction,
   CheckCooldown, Falsified, WriteFalsify, Attested, WritePromotion, Proposed,
   WriteEnd, WriteProposal, ProposalEntries, EndEntries, ModelCalls

(* The record that WriteProposal appends.                                  *)
ProposalRecord(c) ==
  NewRecord(plan[c], IF signals[c] = <<>> THEN 0 ELSE Head(signals[c]))

LEMMA ProposalRecorded ==
  ASSUME DriverInv, NEW c \in Cycles, WriteProposal(c)
  PROVE  /\ ProposalRecord(c) \in CommitRecord
         /\ ProposalRecord(c).type = plan[c] /\ ProposalRecord(c).at = now
         /\ plan[c] \in Canonical /\ plan[c] \in ActionTypes
         /\ history' = Append(history, ProposalRecord(c))
         /\ recentCommits' = KeepLast(Append(recentCommits, ProposalRecord(c)), CommitCap)
         /\ pendingOutcomes' = pendingOutcomes
         /\ now' = now
         /\ Len(history) \in Nat /\ Len(history') = Len(history) + 1
         /\ history'[Len(history) + 1] = ProposalRecord(c)
         /\ \A i \in 1 .. Len(history) : history'[i] = history[i]
         /\ recordOf' = [recordOf EXCEPT ![c] = Len(history) + 1]
         /\ TypeInv'
<1> DEFINE latency == IF signals[c] = <<>> THEN 0 ELSE Head(signals[c])
           response == IF pc[c] = "proposal_rejected" THEN "rejected" ELSE "unverified"
<1>1. plan[c] \in Canonical /\ plan[c] \in ActionTypes
  BY DriverAssumption DEF DriverInv, CyclesOK, CycleOK, WriteProposal, Gated
<1>2. latency \in Latencies
  <2>1. signals[c] \in {<<>>} \union {<<v>> : v \in Latencies}
    BY DEF DriverInv, DriverTypeOK
  <2>2. CASE signals[c] = <<>>
    BY <2>2, DriverAssumption
  <2>3. CASE signals[c] # <<>>
    <3>1. PICK v \in Latencies : signals[c] = <<v>>
      BY <2>1, <2>3
    <3> QED
      BY <3>1, <2>3
  <2> QED
    BY <2>2, <2>3
<1>3. RecordCommit(plan[c], latency, response, FALSE)
  BY DEF WriteProposal
<1>4. TypeInv
  BY DEF DriverInv
<1> HIDE DEF latency, response
<1>5. TypeInv'
  BY <1>1, <1>2, <1>3, <1>4, RecordCommitType
<1> DEFINE r == NewRecord(plan[c], latency)
<1>6. /\ history' = Append(history, r)
      /\ recentCommits' = KeepLast(Append(recentCommits, r), CommitCap)
      /\ pendingOutcomes' = pendingOutcomes /\ now' = now
  BY <1>3 DEF RecordCommit, NewRecord, AwaitsOutcome
<1>7. r \in CommitRecord /\ r.type = plan[c] /\ r.at = now
  BY <1>1, <1>2, <1>4, NewRecordType DEF NewRecord
<1> HIDE DEF r
<1>8. history \in Seq(CommitRecord)
  BY <1>4 DEF TypeInv, TrackerTypeOK
<1>9. /\ Len(history) \in Nat /\ Len(history') = Len(history) + 1
      /\ history'[Len(history) + 1] = r
      /\ \A i \in 1 .. Len(history) : history'[i] = history[i]
  BY <1>6, <1>7, <1>8, AppendProperties, LenProperties
<1>10. r = ProposalRecord(c)
  BY DEF r, latency, ProposalRecord
<1>11. recordOf' = [recordOf EXCEPT ![c] = Len(history) + 1]
  BY DEF WriteProposal
<1> QED
  BY <1>1, <1>5, <1>6, <1>7, <1>9, <1>10, <1>11

(* No step spoils the tracker, gives it an outcome to judge or takes a     *)
(* record out of its history.                                              *)
LEMMA TrackerStep ==
  ASSUME DriverInv, [Next]_vars
  PROVE  /\ TypeInv' /\ NoOutcomeDue'
         /\ Len(history) \in Nat /\ Len(history') \in Nat /\ Len(history) <= Len(history')
         /\ \A i \in 1 .. Len(history) : history'[i] = history[i]
<1>0. TypeInv /\ NoOutcomeDue /\ Len(history) \in Nat
  BY HistoryTypes DEF DriverInv
<1>1. ASSUME UNCHANGED trackerVars
      PROVE  /\ TypeInv' /\ NoOutcomeDue' /\ history' = history
  BY <1>0, <1>1 DEF TypeInv, TrackerTypeOK, PendingNumbered, trackerVars, NoOutcomeDue
<1>2. ASSUME NEW c \in Cycles, WriteCycleStart(c)
      PROVE  TypeInv' /\ NoOutcomeDue' /\ history' = history
  <2>1. signals[c] \in {<<>>} \union {<<v>> : v \in Latencies} /\ CheckOutcomes(signals[c])
    BY <1>2 DEF WriteCycleStart, DriverInv, DriverTypeOK
  <2> QED
    BY <1>0, <2>1, CheckOutcomesType DEF CheckOutcomes, NoOutcomeDue, StillPending
<1>3. ASSUME NEW c \in Cycles, WriteProposal(c)
      PROVE  /\ TypeInv' /\ NoOutcomeDue'
             /\ Len(history') = Len(history) + 1
             /\ \A i \in 1 .. Len(history) : history'[i] = history[i]
  BY <1>0, <1>3, ProposalRecorded DEF NoOutcomeDue
<1>4. CASE ClockStep
  <2>1. TypeInv'
    BY <1>0, <1>4, TypeInvStep DEF ClockStep, TrackerNext
  <2> QED
    BY <1>0, <1>4, <2>1 DEF ClockStep, ClockMoves, NoOutcomeDue
<1>5. CASE Restart
  <2>1. /\ recentCommits' = <<>> /\ pendingOutcomes' = {}
        /\ UNCHANGED <<now, outcomes, history>>
    BY <1>5 DEF Restart
  <2>2. <<>> \in Seq(CommitRecord) /\ Len(<<>>) = 0
    BY EmptySeq
  <2>3. IsFiniteSet({}) /\ Cardinality({}) = 0
    BY FS_EmptySet
  <2> QED
    BY <1>0, <2>1, <2>2, <2>3, TrackerAssumption
    DEF TypeInv, TrackerTypeOK, PendingNumbered, NoOutcomeDue
<1>6. CASE UNCHANGED vars
  BY <1>0, <1>1, <1>6 DEF vars
<1>7. ASSUME NEW c \in Cycles, Start(c) \/ Proceed(c)
      PROVE  /\ TypeInv' /\ NoOutcomeDue'
             /\ Len(history') \in Nat /\ Len(history) <= Len(history')
             /\ \A i \in 1 .. Len(history) : history'[i] = history[i]
  BY <1>0, <1>1, <1>2, <1>3, <1>7, TrackerActions
<1> QED
  BY <1>0, <1>4, <1>5, <1>6, <1>7 DEF Next

(* A cycle that has begun never adds to the cycles in flight; one that     *)
(* begins does so below the bound (Start).                                 *)
LEMMA InFlightBounded ==
  ASSUME DriverInv, [Next]_vars
  PROVE  Cardinality(InFlight') <= MaxInFlight
<1>0. /\ IsFiniteSet(InFlight) /\ Cardinality(InFlight) \in Nat
      /\ Cardinality(InFlight) <= MaxInFlight /\ MaxInFlight \in Nat
  <2>1. InFlight \subseteq Cycles
    BY DEF InFlight
  <2> QED
    BY <2>1, FS_Subset, FS_CardinalityType, DriverAssumption DEF DriverInv, DriverTypeOK
<1>1. ASSUME InFlight' \subseteq InFlight  PROVE Cardinality(InFlight') <= MaxInFlight
  <2>1. /\ IsFiniteSet(InFlight') /\ Cardinality(InFlight') <= Cardinality(InFlight)
    BY <1>0, <1>1, FS_Subset
  <2>2. Cardinality(InFlight') \in Nat
    BY <2>1, FS_CardinalityType
  <2> QED
    BY <1>0, <2>1, <2>2
<1>2. ASSUME NEW c \in Cycles, Start(c)  PROVE Cardinality(InFlight') <= MaxInFlight
  <2>1. /\ Cardinality(InFlight) < MaxInFlight
        /\ \A d \in Cycles : d # c => pc'[d] = pc[d]
    BY <1>2, CycleVarsTyped, GoesToIs DEF Start, Awaiting
  <2>2. InFlight' \subseteq InFlight \union {c}
    BY <2>1 DEF InFlight
  <2>3. /\ IsFiniteSet(InFlight \union {c})
        /\ Cardinality(InFlight \union {c}) <= Cardinality(InFlight) + 1
        /\ Cardinality(InFlight \union {c}) \in Nat
    <3>1. IsFiniteSet(InFlight \union {c})
      BY <1>0, FS_AddElement
    <3>2. Cardinality(InFlight \union {c})
            = IF c \in InFlight THEN Cardinality(InFlight) ELSE Cardinality(InFlight) + 1
      BY <1>0, FS_AddElement
    <3> QED
      BY <1>0, <3>1, <3>2, FS_CardinalityType
  <2>4. IsFiniteSet(InFlight') /\ Cardinality(InFlight') <= Cardinality(InFlight \union {c})
    BY <2>2, <2>3, FS_Subset
  <2>5. Cardinality(InFlight') \in Nat
    BY <2>4, FS_CardinalityType
  <2> QED
    BY <1>0, <2>1, <2>3, <2>4, <2>5
<1>3. ASSUME NEW c \in Cycles, Proceed(c)  PROVE InFlight' \subseteq InFlight
  <2>1. \A d \in Cycles : d # c => pc'[d] = pc[d]
    BY <1>3, CycleVarsTyped, CycleStep DEF KeepsOthers, DriverInv
  <2>2. pc[c] \in Awaiting
    BY <1>3 DEF Proceed, WriteCycleStart, Classified, WriteClassify, WritePredict,
      Interpreted, WriteInterpret, LlmError, ControllerError, Infeasible, NotCanonical,
      NoAction, CheckCooldown, Falsified, WriteFalsify, Attested, WritePromotion,
      Proposed, WriteProposal, WriteEnd, Awaiting, ModelCalls
  <2> QED
    BY <2>1, <2>2 DEF InFlight
<1>4. ASSUME UNCHANGED pc  PROVE InFlight' \subseteq InFlight
  BY <1>4 DEF InFlight
<1>5. CASE Restart
  <2>1. InFlight' \subseteq InFlight
    BY <1>5 DEF Restart, InFlight, Awaiting, ModelCalls, EndEntries, ProposalEntries
  <2> QED
    BY <1>1, <2>1
<1>6. CASE ClockStep \/ UNCHANGED vars
  BY <1>1, <1>4, <1>6 DEF ClockStep, vars, driverVars
<1> QED
  BY <1>1, <1>2, <1>3, <1>5, <1>6 DEF Next

(* No action but those named here touches the history variables, the       *)
(* deliveries or the crash counter.                                        *)
LEMMA OtherVars ==
  ASSUME NEW c \in Cycles, Start(c) \/ Proceed(c)
  PROVE  /\ restarts' = restarts
         /\ delivered' = delivered \/ Proposed(c)
         /\ \/ checkedAt' = checkedAt
            \/ checkedAt' = [checkedAt EXCEPT ![c] = Len(history)]
         /\ missed' = missed \/ (pc[c] \in Awaiting /\ missed' = missed \union {<<c, pc[c]>>})
BY DEF Start, Proceed, WriteCycleStart, Classified, WriteClassify, WritePredict,
   Interpreted, WriteInterpret, LlmError, ControllerError, Infeasible, NotCanonical,
   NoAction, CheckCooldown, Falsified, WriteFalsify, Attested, WritePromotion,
   Proposed, WriteEnd, WriteProposal, Wrote, Awaiting

(* What a proposal adds to the packages admitted, if anything.             *)
Package(c) == [cycle |-> c, type |-> plan[c], at |-> now]

LEMMA ProposedIs ==
  ASSUME DriverInv, NEW c \in Cycles, Proposed(c)
  PROVE  /\ pc[c] = "proposing" /\ pc'[c] \in ProposalEntries \union {"aborted"}
         /\ delivered' \in {delivered, delivered \union {Package(c)}}
         /\ Package(c) \in DeliveredRecord
         /\ plan[c] \in Canonical /\ verdict[c] = "survives" /\ chain[c] \in {E6, E7}
         /\ UNCHANGED <<signals, plan, verdict, committed, chain, trackerVars>>
<1>1. plan[c] \in Canonical /\ verdict[c] = "survives" /\ chain[c] \in {E6, E7}
  BY DEF DriverInv, CyclesOK, CycleOK, Proposed, Gated, Approved, Packaged
<1>2. now \in Int
  BY HistoryTypes DEF DriverInv
<1>3. Package(c) \in DeliveredRecord
  BY <1>1, <1>2 DEF Package, DeliveredRecord
<1>4. PICK next \in ProposalEntries \union {"aborted"} :
        /\ pc[c] = "proposing" /\ GoesTo(c, next)
        /\ delivered' \in {delivered, delivered \union {Package(c)}}
        /\ UNCHANGED <<signals, plan, verdict, committed, chain, trackerVars>>
  BY DEF Proposed, EntryFor, ProposalEntries, Package
<1>5. pc'[c] = next
  BY <1>4, CycleVarsTyped, GoesToIs DEF Awaiting, Over
<1> QED
  BY <1>1, <1>3, <1>4, <1>5

(* The types of everything.                                                *)
LEMMA DriverTypeStep ==
  ASSUME DriverInv, [Next]_vars
  PROVE  DriverTypeOK'
<1>1. /\ TrackerTypeOK' /\ Cardinality(InFlight') <= MaxInFlight
      /\ Len(history) \in Nat /\ Len(history') \in Nat /\ Len(history) <= Len(history')
  BY TrackerStep, InFlightBounded DEF TypeInv
<1>0. /\ CycleVarsOK
      /\ restarts \in 0 .. MaxRestarts /\ delivered \subseteq DeliveredRecord
      /\ missed \subseteq Cycles \X Awaiting
      /\ checkedAt \in [Cycles -> 0 .. Len(history)]
      /\ recordOf \in [Cycles -> 0 .. Len(history)]
      /\ MaxRestarts \in Nat
  BY CycleVarsTyped, DriverAssumption DEF DriverInv, DriverTypeOK
<1>2. 0 .. Len(history) \subseteq 0 .. Len(history')
  BY <1>1
<1>3. ASSUME UNCHANGED <<checkedAt, recordOf>>
      PROVE  /\ checkedAt' \in [Cycles -> 0 .. Len(history')]
             /\ recordOf' \in [Cycles -> 0 .. Len(history')]
  BY <1>0, <1>2, <1>3
<1>4. ASSUME NEW c \in Cycles, Start(c) \/ Proceed(c)
      PROVE  /\ CycleVarsOK' /\ restarts' \in 0 .. MaxRestarts
             /\ delivered' \subseteq DeliveredRecord
             /\ missed' \subseteq Cycles \X Awaiting
             /\ checkedAt' \in [Cycles -> 0 .. Len(history')]
             /\ recordOf' \in [Cycles -> 0 .. Len(history')]
  <2>1. CycleVarsOK'
    BY <1>0, <1>4, CycleStep DEF DriverInv
  <2>2. restarts' = restarts
    BY <1>4, OtherVars
  <2>3. delivered' \subseteq DeliveredRecord
    BY <1>0, <1>4, OtherVars, ProposedIs
  <2>4. checkedAt' \in [Cycles -> 0 .. Len(history')]
    <3>1. Len(history) \in 0 .. Len(history')
      BY <1>1
    <3> QED
      BY <1>0, <1>2, <1>4, <3>1, OtherVars
  <2>5. recordOf' \in [Cycles -> 0 .. Len(history')]
    <3>1. CASE recordOf' = recordOf
      BY <1>0, <1>2, <3>1
    <3>2. CASE WriteProposal(c)
      <4>1. /\ recordOf' = [recordOf EXCEPT ![c] = Len(history) + 1]
            /\ Len(history') = Len(history) + 1
        BY <3>2, ProposalRecorded
      <4>2. Len(history) + 1 \in 0 .. Len(history')
        BY <1>1, <4>1
      <4> QED
        BY <1>0, <1>2, <4>1, <4>2
    <3>3. CASE WriteCycleStart(c)
      BY <3>1, <3>3 DEF WriteCycleStart
    <3> QED
      BY <1>4, <3>1, <3>2, <3>3, TrackerActions
  <2>6. missed' \subseteq Cycles \X Awaiting
    BY <1>0, <1>4, OtherVars
  <2> QED
    BY <1>0, <2>1, <2>2, <2>3, <2>4, <2>5, <2>6
<1>5. CASE ClockStep \/ UNCHANGED vars
  <2>1. UNCHANGED driverVars
    BY <1>5 DEF ClockStep, vars
  <2> QED
    BY <1>0, <1>1, <1>3, <2>1 DEF driverVars, DriverTypeOK, CycleVarsOK
<1>6. CASE Restart
  <2>1. pc' \in [Cycles -> Awaiting \union Over \union {"idle"}]
    BY <1>0, <1>6 DEF Restart, CycleVarsOK, Over
  <2>2. restarts' \in 0 .. MaxRestarts
    BY <1>0, <1>6 DEF Restart
  <2> QED
    BY <1>0, <1>1, <1>3, <1>6, <2>1, <2>2 DEF Restart, DriverTypeOK, CycleVarsOK
<1> QED
  <2>1. ASSUME NEW c \in Cycles, Start(c) \/ Proceed(c)  PROVE DriverTypeOK'
    BY <1>1, <1>4, <2>1 DEF DriverTypeOK, CycleVarsOK
  <2> QED
    BY <1>5, <1>6, <2>1 DEF Next

(* The books of every cycle stay in order.                                 *)
LEMMA CyclesStep ==
  ASSUME DriverInv, [Next]_vars
  PROVE  CyclesOK'
<1>0. CyclesOK /\ CycleVarsOK
  BY CycleVarsTyped DEF DriverInv
<1>1. ASSUME NEW c \in Cycles, Start(c) \/ Proceed(c)  PROVE CyclesOK'
  <2>1. CycleOKNext(c) /\ KeepsOthers(c)
    BY <1>0, <1>1, CycleStep
  <2>2. ASSUME NEW d \in Cycles  PROVE CycleOKNext(d)
    BY <1>0, <2>1 DEF KeepsOthers, CyclesOK, CycleOKNext
  <2> QED
    BY <2>2 DEF CyclesOK, CycleOKNext
<1>2. CASE ClockStep \/ UNCHANGED vars
  BY <1>0, <1>2 DEF ClockStep, vars, driverVars, CyclesOK
<1>3. CASE Restart
  <2>1. ASSUME NEW c \in Cycles
        PROVE  CycleOK(pc'[c], plan[c], verdict[c], committed[c], chain[c])
    <3>0. CycleOK(pc[c], plan[c], verdict[c], committed[c], chain[c])
      BY <1>0 DEF CyclesOK
    <3>1. pc'[c] = IF c \in InFlight THEN "aborted" ELSE pc[c]
      BY <1>3 DEF Restart
    <3>2. CASE c \notin InFlight
      BY <3>0, <3>1, <3>2
    <3>3. CASE c \in InFlight
      <4>1. pc[c] \in Awaiting
        BY <3>3 DEF InFlight
      <4>2. chain[c] \in Begun /\ ~committed[c]
        BY <3>0, <4>1, NextStages DEF CycleOK, Awaiting, ModelCalls, EndEntries,
          ProposalEntries, Packaged
      <4>3. CycleOK("aborted", plan[c], verdict[c], committed[c], chain[c])
        BY <4>2 DEF CycleOK, Gated, Approved, Packaged, ProposalEntries
      <4> QED
        BY <3>1, <3>3, <4>3
    <3> QED
      BY <3>2, <3>3
  <2>2. UNCHANGED <<plan, verdict, committed, chain>>
    BY <1>3 DEF Restart
  <2> QED
    BY <2>1, <2>2 DEF CyclesOK
<1> QED
  BY <1>1, <1>2, <1>3 DEF Next

(* Growing a chain takes no verdict from it.                               *)
LEMMA JudgedKept ==
  ASSUME NEW s \in Seq(Awaiting), NEW e \in Awaiting, Judged(s)
  PROVE  Judged(Append(s, e))
<1>1. PICK i \in DOMAIN s : s[i] = "falsify"
  BY DEF Judged
<1>2. i \in DOMAIN Append(s, e) /\ Append(s, e)[i] = s[i]
  BY OneMore
<1> QED
  BY <1>1, <1>2 DEF Judged

LEMMA JudgedStages == Judged(E6) /\ Judged(E7)
<1>1. 6 \in DOMAIN E6 /\ 6 \in DOMAIN E7 /\ E6[6] = "falsify" /\ E7[6] = "falsify"
  BY EntriesAre, LenProperties
<1> QED
  BY <1>1 DEF Judged

(* After its proposal, a cycle only writes its record and ends.            *)
LEMMA AfterProposal ==
  ASSUME NEW c \in Cycles, Start(c) \/ Proceed(c), pc[c] \in ProposalEntries \union Over
  PROVE  WriteProposal(c)
BY DEF Start, Proceed, WriteCycleStart, Classified, WriteClassify, WritePredict,
   Interpreted, WriteInterpret, LlmError, ControllerError, Infeasible, NotCanonical,
   NoAction, CheckCooldown, Falsified, WriteFalsify, Attested, WritePromotion, Proposed,
   WriteEnd, ProposalEntries, Over, EndEntries, ModelCalls

(* A package admitted stays one of a cycle whose verdict is written.       *)
LEMMA AdmittedStep ==
  ASSUME DriverInv, [Next]_vars
  PROVE  AdmittedOK'
<1>0. AdmittedOK /\ CycleVarsOK /\ CyclesOK /\ delivered \subseteq DeliveredRecord
  BY CycleVarsTyped DEF DriverInv, DriverTypeOK
<1> DEFINE Fine(d) == /\ pc[d.cycle] \in ProposalEntries \union Over
                      /\ d.type = plan[d.cycle]
                      /\ verdict[d.cycle] = "survives"
                      /\ Judged(chain[d.cycle])
           FineNext(d) == /\ pc'[d.cycle] \in ProposalEntries \union Over
                          /\ d.type = plan'[d.cycle]
                          /\ verdict'[d.cycle] = "survives"
                          /\ Judged(chain'[d.cycle])
<1>1. \A d \in delivered : d.cycle \in Cycles /\ Fine(d)
  BY <1>0 DEF AdmittedOK, DeliveredRecord
<1>2. ASSUME NEW c \in Cycles, Start(c) \/ Proceed(c), NEW d \in delivered
      PROVE  FineNext(d)
  <2>1. Fine(d) /\ d.cycle \in Cycles
    BY <1>1
  <2>2. CASE d.cycle # c
    <3>1. KeepsOthers(c)
      BY <1>0, <1>2, CycleStep
    <3> QED
      BY <2>1, <2>2, <3>1 DEF KeepsOthers
  <2>3. CASE d.cycle = c
    <3>1. WriteProposal(c)
      BY <1>2, <2>1, <2>3, AfterProposal
    <3>2. pc[c] \in Awaiting /\ Wrote(c, "done") /\ UNCHANGED <<plan, verdict>>
      BY <3>1 DEF WriteProposal, Awaiting
    <3>3. pc'[c] = "done" /\ chain'[c] = Append(chain[c], pc[c])
      BY <1>0, <3>2, WroteIs DEF Over
    <3>4. Judged(chain'[c])
      BY <1>0, <2>1, <2>3, <3>2, <3>3, JudgedKept DEF CycleVarsOK
    <3> QED
      BY <2>1, <2>3, <3>2, <3>3, <3>4 DEF Over
  <2> QED
    BY <2>2, <2>3
<1>3. ASSUME NEW c \in Cycles, Proposed(c)
      PROVE  /\ FineNext(Package(c)) /\ \A d \in delivered : d.cycle # c
             /\ Package(c).cycle = c
  <2>1. /\ pc[c] = "proposing" /\ pc'[c] \in ProposalEntries \union {"aborted"}
        /\ verdict[c] = "survives" /\ chain[c] \in {E6, E7}
        /\ UNCHANGED <<plan, verdict, chain>>
    BY <1>3, ProposedIs
  <2>2. Package(c).cycle = c /\ Package(c).type = plan[c]
    BY DEF Package
  <2>3. \A d \in delivered : d.cycle # c
    BY <1>1, <2>1 DEF ProposalEntries, Over
  <2> QED
    BY <2>1, <2>2, <2>3, JudgedStages DEF Over
<1>4. ASSUME NEW c \in Cycles, Start(c) \/ Proceed(c)  PROVE AdmittedOK'
  <2>1. CASE delivered' = delivered
    BY <1>0, <1>2, <1>4, <2>1 DEF AdmittedOK
  <2>2. CASE Proposed(c)
    <3>1. delivered' \in {delivered, delivered \union {Package(c)}}
      BY <2>2, ProposedIs
    <3>2. CASE delivered' = delivered
      BY <1>0, <1>2, <1>4, <3>2 DEF AdmittedOK
    <3>3. CASE delivered' = delivered \union {Package(c)}
      <4>1. \A d \in delivered' : FineNext(d)
        BY <1>2, <1>3, <1>4, <2>2, <3>3
      <4>2. \A d, e \in delivered' : d.cycle = e.cycle => d = e
        BY <1>0, <1>3, <2>2, <3>3 DEF AdmittedOK
      <4> QED
        BY <4>1, <4>2 DEF AdmittedOK
    <3> QED
      BY <3>1, <3>2, <3>3
  <2> QED
    BY <1>4, <2>1, <2>2, OtherVars
<1>5. CASE ClockStep \/ UNCHANGED vars
  BY <1>0, <1>5 DEF ClockStep, vars, driverVars, AdmittedOK
<1>6. CASE Restart
  <2>1. UNCHANGED <<plan, verdict, chain, delivered>>
    BY <1>6 DEF Restart
  <2>2. \A c \in Cycles : pc[c] \in ProposalEntries \union Over
          => pc'[c] \in ProposalEntries \union Over
    BY <1>6 DEF Restart, Over
  <2>3. \A d \in delivered : FineNext(d)
    BY <1>1, <2>1, <2>2
  <2> QED
    BY <1>0, <2>1, <2>3 DEF AdmittedOK
<1> QED
  BY <1>4, <1>5, <1>6 DEF Next

(* A chain that has grown has one entry more.                              *)
LEMMA HasOneMore ==
  ASSUME NEW s \in Seq(Awaiting), NEW e \in Awaiting, NEW x
  PROVE  Has(Append(s, e), x) <=> Has(s, x) \/ x = e
<1>1. ASSUME Has(s, x)  PROVE Has(Append(s, e), x)
  <2>1. PICK i \in DOMAIN s : s[i] = x
    BY <1>1 DEF Has
  <2>2. i \in DOMAIN Append(s, e) /\ Append(s, e)[i] = s[i]
    BY OneMore
  <2> QED
    BY <2>1, <2>2 DEF Has
<1>2. ASSUME x = e  PROVE Has(Append(s, e), x)
  <2>1. Len(s) + 1 \in DOMAIN Append(s, e) /\ Append(s, e)[Len(s) + 1] = e
    BY OneMore
  <2> QED
    BY <1>2, <2>1 DEF Has
<1>3. ASSUME NEW i \in DOMAIN Append(s, e), Append(s, e)[i] = x  PROVE Has(s, x) \/ x = e
  <2>1. i \in 1 .. Len(s) \/ i = Len(s) + 1
    BY OneMore
  <2>2. CASE i \in 1 .. Len(s)
    BY <1>3, <2>2, OneMore DEF Has
  <2>3. CASE i = Len(s) + 1
    BY <1>3, <2>3, OneMore
  <2> QED
    BY <2>1, <2>2, <2>3
<1> QED
  BY <1>1, <1>2, <1>3 DEF Has

(* Before its proposal a cycle has written nothing of the fleet's answer.  *)
LEMMA NothingTold ==
  ASSUME NEW x \in Denials \union {"proposed"}
  PROVE  ~Has(E6, x) /\ ~Has(E7, x)
<1>1. /\ "cycle_start" \in Awaiting /\ "classify" \in Awaiting /\ "predict" \in Awaiting
      /\ "interpret" \in Awaiting /\ "plan" \in Awaiting /\ "falsify" \in Awaiting
      /\ "promotion" \in Awaiting
  BY DEF Awaiting
<1>2. /\ x # "cycle_start" /\ x # "classify" /\ x # "predict" /\ x # "interpret"
      /\ x # "plan" /\ x # "falsify" /\ x # "promotion"
  BY DEF Denials, EndEntries
<1>3. ~Has(E0, x)
  BY DEF Has, E0
<1>a. \A s \in Seq(Awaiting), e \in Awaiting : x # e /\ ~Has(s, x) => ~Has(Append(s, e), x)
  BY HasOneMore
<1>b. /\ E1 = Append(E0, "cycle_start") /\ E2 = Append(E1, "classify")
      /\ E3 = Append(E2, "predict") /\ E4 = Append(E3, "interpret")
      /\ E5 = Append(E4, "plan") /\ E6 = Append(E5, "falsify") /\ E7 = Append(E6, "promotion")
  BY DEF E1, E2, E3, E4, E5, E6, E7
<1>4. ~Has(E1, x) /\ ~Has(E2, x)
  BY <1>1, <1>2, <1>3, <1>a, <1>b, EntriesAre
<1>5. ~Has(E3, x) /\ ~Has(E4, x)
  BY <1>1, <1>2, <1>4, <1>a, <1>b, EntriesAre
<1>6. ~Has(E5, x)
  BY <1>1, <1>2, <1>5, <1>a, <1>b, EntriesAre
<1> QED
  BY <1>1, <1>2, <1>6, <1>a, <1>b, EntriesAre

(* The steps of a cycle, by what they write.                               *)
Silent == (Awaiting \union Over) \ (Denials \union {"proposed"})

LEMMA WriteKinds ==
  ASSUME NEW c \in Cycles, Start(c) \/ Proceed(c)
  PROVE  \/ Proposed(c)
         \/ \E next \in Silent : GoesTo(c, next) /\ UNCHANGED <<chain, delivered>>
         \/ \E next \in Silent \union EndEntries :
              /\ Wrote(c, next) /\ UNCHANGED delivered /\ pc[c] \in Awaiting
              /\ next \in EndEntries => pc[c] \notin ProposalEntries
<1> USE DEF Silent, Denials, Awaiting, Over, EndEntries, ProposalEntries, ModelCalls
<1>1. CASE WriteCycleStart(c) \/ WriteClassify(c) \/ WritePredict(c) \/ WriteInterpret(c)
           \/ ControllerError(c)
  BY <1>1 DEF WriteCycleStart, WriteClassify, WritePredict, WriteInterpret, ControllerError
<1>2. CASE Start(c) \/ Classified(c) \/ Interpreted(c) \/ Falsified(c) \/ Attested(c)
           \/ LlmError(c)
  BY <1>2 DEF Start, Classified, Interpreted, Falsified, Attested, LlmError
<1>3. CASE Infeasible(c) \/ NotCanonical(c) \/ NoAction(c)
  BY <1>3 DEF Infeasible, NotCanonical, NoAction
<1>4. CASE CheckCooldown(c)
  BY <1>4 DEF CheckCooldown
<1>5. CASE WriteFalsify(c) \/ WritePromotion(c)
  BY <1>5 DEF WriteFalsify, WritePromotion, Packaged
<1>6. CASE WriteEnd(c) \/ WriteProposal(c)
  <2>1. pc[c] \in Awaiting /\ Wrote(c, "done") /\ UNCHANGED delivered
    BY <1>6 DEF WriteEnd, WriteProposal
  <2>2. "done" \in Silent /\ "done" \notin EndEntries
    OBVIOUS
  <2> HIDE DEF Silent, Denials, Awaiting, Over, EndEntries, ProposalEntries, ModelCalls
  <2> QED
    BY <2>1, <2>2
<1> QED
  BY <1>1, <1>2, <1>3, <1>4, <1>5, <1>6 DEF Proceed

(* What a cycle tells of the fleet is so, and stays so.                    *)
LEMMA ToldStep ==
  ASSUME DriverInv, [Next]_vars
  PROVE  ToldOK'
<1>0. ToldOK /\ AdmittedOK /\ CycleVarsOK /\ delivered \subseteq DeliveredRecord
  BY CycleVarsTyped DEF DriverInv, DriverTypeOK
<1> DEFINE Told(c) ==
             /\ pc[c] = "proposed" \/ Has(chain[c], "proposed") => Delivered(c)
             /\ \A e \in Denials : pc[c] = e \/ Has(chain[c], e) => ~Delivered(c)
<1>1. ASSUME NEW c \in Cycles, Start(c) \/ Proceed(c), NEW d \in Cycles, d # c
      PROVE  Told(d)'
  <2>1. pc'[d] = pc[d] /\ chain'[d] = chain[d]
    BY <1>0, <1>1, CycleStep DEF KeepsOthers, DriverInv
  <2>2. Delivered(d)' <=> Delivered(d)
    <3>1. CASE delivered' = delivered
      BY <3>1 DEF Delivered
    <3>2. CASE Proposed(c)
      <4>1. delivered' \in {delivered, delivered \union {Package(c)}} /\ Package(c).cycle = c
        BY <3>2, ProposedIs DEF Package
      <4> QED
        BY <1>1, <4>1 DEF Delivered
    <3> QED
      BY <1>1, <3>1, <3>2, OtherVars
  <2>3. Told(d)
    BY <1>0 DEF ToldOK
  <2> QED
    BY <2>1, <2>2, <2>3
<1>2. ASSUME NEW c \in Cycles, NEW next \in Silent, GoesTo(c, next), UNCHANGED <<chain, delivered>>
      PROVE  Told(c)'
  <2>1. pc'[c] = next /\ chain'[c] = chain[c]
    BY <1>0, <1>2, GoesToIs DEF Silent
  <2>2. Delivered(c)' <=> Delivered(c)
    BY <1>2 DEF Delivered
  <2>3. Told(c)
    BY <1>0 DEF ToldOK
  <2> QED
    BY <2>1, <2>2, <2>3 DEF Silent
<1>3. ASSUME NEW c \in Cycles, NEW next \in Silent \union EndEntries, Wrote(c, next),
             UNCHANGED delivered, pc[c] \in Awaiting,
             next \in EndEntries => pc[c] \notin ProposalEntries
      PROVE  Told(c)'
  <2>1. pc'[c] = next /\ chain'[c] = Append(chain[c], pc[c])
    <3>1. next \in Awaiting \union Over
      BY <1>3 DEF Silent, Awaiting
    <3> QED
      BY <1>0, <1>3, <3>1, WroteIs
  <2>2. \A x : Has(chain'[c], x) <=> Has(chain[c], x) \/ x = pc[c]
    BY <1>0, <1>3, <2>1, HasOneMore DEF CycleVarsOK
  <2>3. Delivered(c)' <=> Delivered(c)
    BY <1>3 DEF Delivered
  <2>4. Told(c)
    BY <1>0 DEF ToldOK
  <2>5. next \in Denials => ~Delivered(c)
    <3>1. Awaiting \intersect Over = {}
      BY DEF Awaiting, Over, ModelCalls, EndEntries, ProposalEntries
    <3>2. ASSUME NEW d \in delivered, d.cycle = c, pc[c] \notin ProposalEntries
          PROVE  FALSE
      BY <1>0, <1>3, <3>1, <3>2 DEF AdmittedOK
    <3> QED
      BY <1>3, <3>2 DEF Delivered, Silent, Denials
  <2>6. next # "proposed"
    BY <1>3 DEF Silent, EndEntries
  <2>7. pc'[c] = "proposed" \/ Has(chain'[c], "proposed") => Delivered(c)'
    BY <2>1, <2>2, <2>3, <2>4, <2>6
  <2>8. ASSUME NEW e \in Denials, pc'[c] = e \/ Has(chain'[c], e)  PROVE ~Delivered(c)'
    BY <2>1, <2>2, <2>3, <2>4, <2>5, <2>8
  <2> QED
    BY <2>7, <2>8
<1>4. ASSUME NEW c \in Cycles, Proposed(c)
      PROVE  Told(c)'
  <2>1. /\ pc[c] = "proposing" /\ chain[c] \in {E6, E7} /\ chain' = chain
    BY <1>4, ProposedIs
  <2>2. PICK outcome \in FleetOutcomes :
          /\ delivered' = IF outcome \in Admitting THEN delivered \union {Package(c)} ELSE delivered
          /\ GoesTo(c, EntryFor(outcome))
    BY <1>4 DEF Proposed, Package
  <2>3. pc'[c] = EntryFor(outcome)
    BY <1>0, <2>2 DEF GoesTo, CycleVarsOK
  <2>4. ~Delivered(c)
    BY <1>0, <2>1 DEF AdmittedOK, Delivered, ProposalEntries, Over
  <2>5. ~Has(chain'[c], "proposed") /\ \A e \in Denials : ~Has(chain'[c], e)
    BY <2>1, NothingTold
  <2>6. pc'[c] = "proposed" => Delivered(c)'
    <3>1. pc'[c] = "proposed" => outcome \in Admitting
      BY <2>3 DEF EntryFor, Admitting
    <3>2. Package(c).cycle = c
      BY DEF Package
    <3> QED
      BY <2>2, <3>1, <3>2 DEF Delivered
  <2>7. ASSUME pc'[c] \in Denials  PROVE ~Delivered(c)'
    <3>1. outcome \notin Admitting
      BY <2>3, <2>7 DEF EntryFor, Admitting, Denials, EndEntries
    <3> QED
      BY <2>2, <2>4, <3>1 DEF Delivered
  <2> QED
    BY <2>5, <2>6, <2>7
<1>5. ASSUME NEW c \in Cycles, Start(c) \/ Proceed(c)  PROVE ToldOK'
  <2>1. Told(c)'
    BY <1>2, <1>3, <1>4, <1>5, WriteKinds
  <2> QED
    BY <1>1, <1>5, <2>1 DEF ToldOK
<1>6. CASE ClockStep \/ UNCHANGED vars
  BY <1>0, <1>6 DEF ClockStep, vars, driverVars, ToldOK, Delivered
<1>7. CASE Restart
  <2>1. UNCHANGED <<chain, delivered>>
        /\ \A c \in Cycles : pc'[c] = "aborted" \/ pc'[c] = pc[c]
    BY <1>7 DEF Restart
  <2>2. "aborted" # "proposed" /\ "aborted" \notin Denials
    BY DEF Denials, EndEntries
  <2>3. ASSUME NEW c \in Cycles  PROVE Told(c)'
    <3>1. Told(c) /\ (Delivered(c)' <=> Delivered(c))
      BY <1>0, <2>1 DEF ToldOK, Delivered
    <3> QED
      BY <2>1, <2>2, <3>1
  <2> QED
    BY <2>3 DEF ToldOK
<1> QED
  BY <1>5, <1>6, <1>7 DEF Next

(* The invariant holds when the process starts, ...                        *)
LEMMA DriverInvInit == Init => DriverInv
<1> SUFFICES ASSUME Init  PROVE DriverInv
  OBVIOUS
<1>1. TypeInv /\ pendingOutcomes = {} /\ Len(history) \in Nat
  BY TypeInvInit, HistoryTypes DEF Init, TrackerInit
<1>2. E0 \in Seq(Awaiting) /\ ~EndsProposed(E0) /\ E0 = <<>>
  BY EntriesAre, BegunNotProposed, NextStages DEF E0
<1>3. InFlight = {} /\ Cardinality({}) = 0
  BY FS_EmptySet DEF Init, InFlight, Awaiting, ModelCalls, EndEntries, ProposalEntries
<1>4. DriverTypeOK
  BY <1>1, <1>2, <1>3, DriverAssumption DEF Init, DriverTypeOK, TypeInv
<1>5. CyclesOK
  BY <1>2 DEF Init, CyclesOK, CycleOK, Gated, Approved, Packaged, ProposalEntries
<1>6. AdmittedOK
  BY DEF Init, AdmittedOK
<1>7. ToldOK
  BY DEF Init, ToldOK, Has, Delivered
<1> QED
  BY <1>1, <1>4, <1>5, <1>6, <1>7 DEF DriverInv, NoOutcomeDue

(* ... every step keeps it, ...                                            *)
LEMMA DriverInvStep == DriverInv /\ [Next]_vars => DriverInv'
BY TrackerStep, DriverTypeStep, CyclesStep, AdmittedStep, ToldStep DEF DriverInv

(* ... and so it always holds.                                             *)
LEMMA DriverInvHolds == Spec => []DriverInv
BY DriverInvInit, DriverInvStep, PTL DEF Spec

-----------------------------------------------------------------------------
(* The invariants of the chain run.                                        *)

(* Types, the limits of the tracker, and no more than MaxInFlight cycles   *)
(* at a time.                                                              *)
THEOREM DriverTypeCorrect == Spec => []DriverTypeOK
BY DriverInvHolds, PTL DEF DriverInv

(* What the ledger gets to know of a cycle is what the cycle did, whatever *)
(* fails, the writes included, and whoever comes between its steps.        *)
THEOREM AuditTrailHolds == Spec => []AuditTrail
<1>1. DriverInv => AuditTrail
  <2> SUFFICES ASSUME DriverInv  PROVE AuditTrail
    OBVIOUS
  <2>a. \A c \in Cycles :
          /\ \A e \in EndEntries \union {"proposal_rejected"} :
               InLedger(c, e) => ~Delivered(c)
          /\ InLedger(c, "proposed") => Delivered(c)
    BY DEF DriverInv, ToldOK, Has, InLedger, Written, Denials
  <2> SUFFICES ASSUME NEW c \in Cycles
               PROVE  /\ \E t \in CompleteChains : IsBeginning(chain[c], t)
                      /\ pc[c] = "done" => chain[c] \in CompleteChains
                      /\ committed[c] <=> EndsProposed(chain[c])
    BY <2>a DEF AuditTrail, EndsProposed, LastEntry
  <2>1. /\ CycleOK(pc[c], plan[c], verdict[c], committed[c], chain[c])
        /\ pc[c] \in Awaiting \union Over \union {"idle"}
        /\ chain[c] \in Seq(Awaiting) /\ committed[c] \in BOOLEAN
    BY DEF DriverInv, DriverTypeOK, CyclesOK
  <2>2. CASE pc[c] = "done"
    <3>1. IsBeginning(chain[c], chain[c])
      BY <2>1, LenProperties DEF IsBeginning
    <3> QED
      BY <2>1, <2>2, <3>1 DEF CycleOK
  <2>3. CASE pc[c] # "done"
    <3>1. chain[c] \in Begun /\ ~committed[c]
      BY <2>1, <2>3, NextStages DEF CycleOK, Awaiting, Over, ModelCalls, EndEntries,
        ProposalEntries, Packaged
    <3> QED
      BY <2>3, <3>1, BegunCanComplete, BegunNotProposed
  <2> QED
    BY <2>2, <2>3
<1> QED
  BY <1>1, DriverInvHolds, PTL

(* Nothing reaches the fleet ungoverned, and nothing reaches it twice; the *)
(* verdict is in the ledger or its own write has failed.                   *)
THEOREM ProposalsGovernedHolds == Spec => []ProposalsGoverned
<1>1. DriverInv => ProposalsGoverned
  <2> SUFFICES ASSUME DriverInv  PROVE ProposalsGoverned
    OBVIOUS
  <2>1. AdmittedOK /\ delivered \subseteq DeliveredRecord
    BY DEF DriverInv, DriverTypeOK
  <2> QED
    BY <2>1 DEF AdmittedOK, ProposalsGoverned, Judged, DeliveredRecord, InLedger, Written
<1> QED
  BY <1>1, DriverInvHolds, PTL

-----------------------------------------------------------------------------
(* The refinement of GovernedCycle.                                        *)

(* The phase of a cycle, told from what it awaits alone.                   *)
PhaseAt(p) ==
  CASE p = "idle"                           -> "idle"
    [] p \in Over                           -> "over"
    [] p \in ProposalEntries                -> "answered"
    [] p \in Approved                       -> "approved"
    [] p \in Awaiting \ (ProposalEntries \union Approved) -> "deciding"

(* An entry other than the verdict's makes no verdict.                     *)
LEMMA StillUnjudged ==
  ASSUME NEW s \in Seq(Awaiting), NEW e \in Awaiting, e # "falsify", ~Judged(s)
  PROVE  ~Judged(Append(s, e))
<1>1. ASSUME NEW i \in DOMAIN Append(s, e), Append(s, e)[i] = "falsify"  PROVE FALSE
  <2>1. i \in 1 .. Len(s) \/ i = Len(s) + 1
    BY OneMore
  <2>2. CASE i \in 1 .. Len(s)
    BY <1>1, <2>2, OneMore DEF Judged
  <2>3. CASE i = Len(s) + 1
    BY <1>1, <2>3, OneMore
  <2> QED
    BY <2>1, <2>2, <2>3
<1> QED
  BY <1>1 DEF Judged

LEMMA UnjudgedStages ==
  ~Judged(E0) /\ ~Judged(E1) /\ ~Judged(E2) /\ ~Judged(E3) /\ ~Judged(E4) /\ ~Judged(E5)
<1>1. ~Judged(E0)
  BY DEF Judged, E0
<1>2. ~Judged(E1) /\ ~Judged(E2) /\ ~Judged(E3) /\ ~Judged(E4) /\ ~Judged(E5)
  BY <1>1, EntriesAre, StillUnjudged DEF Awaiting, E1, E2, E3, E4, E5
<1> QED
  BY <1>1, <1>2

(* The phases of LoopDriver look at the entries and the verdict; the       *)
(* invariant says that this is where the cycle is.                         *)
LEMMA PhaseIs ==
  DriverInv => \A c \in Cycles : Phase(c) = PhaseAt(pc[c])
<1> SUFFICES ASSUME DriverInv, NEW c \in Cycles  PROVE Phase(c) = PhaseAt(pc[c])
  OBVIOUS
<1>1. /\ CycleOK(pc[c], plan[c], verdict[c], committed[c], chain[c])
      /\ pc[c] \in Awaiting \union Over \union {"idle"}
  BY DEF DriverInv, DriverTypeOK, CyclesOK
<1>2. pc[c] \in Approved => verdict[c] = "survives" /\ Judged(chain[c])
  BY <1>1, JudgedStages DEF CycleOK, Approved, Packaged
<1>3. pc[c] \in Awaiting \ (ProposalEntries \union Approved)
        => ~(verdict[c] = "survives" /\ Judged(chain[c]))
  BY <1>1, UnjudgedStages
  DEF CycleOK, Approved, Packaged, Awaiting, ModelCalls, EndEntries
<1>4. /\ "idle" \notin Awaiting \union Over
      /\ Awaiting \intersect Over = {}
      /\ ProposalEntries \subseteq Awaiting
      /\ Approved \subseteq Awaiting \ ProposalEntries
  BY DEF Awaiting, Over, ProposalEntries, Approved, Packaged, ModelCalls, EndEntries
<1>5. CASE pc[c] = "idle"
  BY <1>4, <1>5 DEF Phase, PhaseAt
<1>6. CASE pc[c] \in Over
  BY <1>4, <1>6 DEF Phase, PhaseAt
<1>7. CASE pc[c] \in ProposalEntries
  BY <1>4, <1>7 DEF Phase, PhaseAt
<1>8. CASE pc[c] \in Approved
  BY <1>2, <1>4, <1>8 DEF Phase, PhaseAt, Judged, Written
<1>9. CASE pc[c] \in Awaiting \ (ProposalEntries \union Approved)
  BY <1>3, <1>4, <1>9 DEF Phase, PhaseAt, Judged, Written
<1> QED
  BY <1>1, <1>5, <1>6, <1>7, <1>8, <1>9

LEMMA PhaseIsNext ==
  DriverInv' => \A c \in Cycles : Phase(c)' = PhaseAt(pc[c])'
<1>1. (DriverInv => \A c \in Cycles : Phase(c) = PhaseAt(pc[c]))'
  BY PhaseIs, PTL
<1> QED
  BY <1>1

DrivenPhase == [c \in Cycles |-> Phase(c)]

(* What the steps of a cycle are to GovernedCycle: nothing, an approval,   *)
(* the end without a proposal, the proposal, or its record.                *)
Deliberates(c) == PhaseAt(pc'[c]) = PhaseAt(pc[c])
IsApproved(c)  == PhaseAt(pc[c]) = "deciding" /\ PhaseAt(pc'[c]) = "approved"
Ends(c) == PhaseAt(pc[c]) \in {"deciding", "approved"} /\ PhaseAt(pc'[c]) = "over"

LEMMA StepKinds ==
  ASSUME DriverInv, NEW c \in Cycles, Proceed(c)
  PROVE  \/ Proposed(c)
         \/ WriteProposal(c)
         \/ UNCHANGED <<delivered, recordOf>> /\ (Deliberates(c) \/ IsApproved(c) \/ Ends(c))
<1> USE DEF Deliberates, IsApproved, Ends, PhaseAt, Approved, Packaged, ProposalEntries,
            EndEntries, ModelCalls, Over, Awaiting
<1>0. pc \in [Cycles -> Awaiting \union Over \union {"idle"}]
  BY DEF DriverInv, DriverTypeOK
<1>1. ASSUME NEW p, GoesTo(c, p)  PROVE pc'[c] = p
  BY <1>0, <1>1 DEF GoesTo
<1>2. ASSUME NEW p, Wrote(c, p)  PROVE pc'[c] = p
  BY <1>0, <1>2 DEF Wrote, GoesTo
<1>3. CASE WriteCycleStart(c) \/ WriteClassify(c) \/ WritePredict(c) \/ WriteInterpret(c)
  BY <1>2, <1>3 DEF WriteCycleStart, WriteClassify, WritePredict, WriteInterpret
<1>4. CASE Classified(c) \/ Interpreted(c) \/ Falsified(c) \/ Attested(c)
  BY <1>1, <1>4 DEF Classified, Interpreted, Falsified, Attested
<1>5. CASE LlmError(c)
  BY <1>1, <1>5 DEF LlmError
<1>6. CASE ControllerError(c)
  BY <1>2, <1>6 DEF ControllerError
<1>7. CASE Infeasible(c) \/ NotCanonical(c) \/ NoAction(c)
  BY <1>2, <1>7 DEF Infeasible, NotCanonical, NoAction
<1>8. CASE CheckCooldown(c)
  <2>1. /\ pc[c] = "plan" /\ pc'[c] \in {"falsifying", "cooldown"}
        /\ UNCHANGED <<delivered, recordOf>>
    BY <1>2, <1>8 DEF CheckCooldown
  <2> QED
    BY <2>1
<1>9. CASE WriteFalsify(c)
  <2>1. /\ pc[c] = "falsify" /\ pc'[c] \in {"reject", "attesting"} \union Packaged
        /\ UNCHANGED <<delivered, recordOf>>
    BY <1>2, <1>9 DEF WriteFalsify
  <2> QED
    BY <2>1
<1>10. CASE WritePromotion(c)
  <2>1. /\ pc[c] = "promotion" /\ pc'[c] \in Packaged
        /\ UNCHANGED <<delivered, recordOf>>
    BY <1>2, <1>10 DEF WritePromotion
  <2> QED
    BY <2>1
<1>11. CASE WriteEnd(c)
  <2>1. /\ pc[c] \in EndEntries /\ pc'[c] = "done"
        /\ UNCHANGED <<delivered, recordOf>>
    BY <1>2, <1>11 DEF WriteEnd
  <2> QED
    BY <2>1
<1> QED
  BY <1>3, <1>4, <1>5, <1>6, <1>7, <1>8, <1>9, <1>10, <1>11 DEF Proceed

(* The phase of the cycle that moves is the only one that changes.         *)
LEMMA PhaseMoves ==
  ASSUME DriverInv, DriverInv', NEW c \in Cycles, Start(c) \/ Proceed(c)
  PROVE  /\ DrivenPhase' = [DrivenPhase EXCEPT ![c] = PhaseAt(pc'[c])]
         /\ DrivenPhase[c] = PhaseAt(pc[c])
         /\ Deliberates(c) => DrivenPhase' = DrivenPhase
<1>1. KeepsOthers(c)
  BY CycleVarsTyped, CycleStep DEF DriverInv
<1>2. \A d \in Cycles : DrivenPhase[d] = PhaseAt(pc[d])
  BY PhaseIs DEF DrivenPhase
<1>3. DrivenPhase' = [d \in Cycles |-> PhaseAt(pc'[d])]
  BY PhaseIsNext DEF DrivenPhase
<1>4. DrivenPhase = [d \in Cycles |-> PhaseAt(pc[d])]
  BY PhaseIs DEF DrivenPhase
<1>5. \A d \in Cycles : d # c => PhaseAt(pc'[d]) = PhaseAt(pc[d])
  BY <1>1 DEF KeepsOthers
<1> QED
  BY <1>2, <1>3, <1>4, <1>5 DEF Deliberates

LEMMA PhaseValues ==
  /\ PhaseAt("idle") = "idle" /\ PhaseAt("cycle_start") = "deciding"
  /\ \A p \in Over : PhaseAt(p) = "over"
  /\ \A p \in ProposalEntries : PhaseAt(p) = "answered"
  /\ \A p \in Approved : PhaseAt(p) = "approved"
<1>1. /\ "idle" \notin Awaiting \union Over
      /\ Awaiting \intersect Over = {}
      /\ ProposalEntries \subseteq Awaiting
      /\ Approved \subseteq Awaiting \ ProposalEntries
      /\ "cycle_start" \in Awaiting \ (ProposalEntries \union Approved)
  BY DEF Awaiting, Over, ProposalEntries, Approved, Packaged, ModelCalls, EndEntries
<1> QED
  BY <1>1 DEF PhaseAt

(* run_cycle takes no step that GovernedCycle does not allow.              *)
LEMMA GovernedStep ==
  ASSUME DriverInv, DriverInv', [Next]_vars
  PROVE  [Governed!CycleNext]_(Governed!cycleVars)
<1> DEFINE admitted == {d.cycle : d \in delivered}
           recorded == {c \in Cycles : recordOf[c] # 0}
<1>0. /\ recordOf \in [Cycles -> Nat] /\ CycleVarsOK
      /\ pc \in [Cycles -> Awaiting \union Over \union {"idle"}]
  <2>1. /\ recordOf \in [Cycles -> 0 .. Len(history)]
        /\ pc \in [Cycles -> Awaiting \union Over \union {"idle"}]
    BY DEF DriverInv, DriverTypeOK
  <2>2. 0 .. Len(history) \subseteq Nat
    OBVIOUS
  <2> QED
    BY <2>1, <2>2, CycleVarsTyped
<1>1. ASSUME NEW c \in Cycles, Start(c)  PROVE Governed!Begin(c)
  <2>1. /\ pc[c] = "idle" /\ pc'[c] = "cycle_start"
        /\ UNCHANGED <<delivered, recordOf, restarts>>
    BY <1>0, <1>1 DEF Start, GoesTo
  <2>2. PhaseAt(pc[c]) = "idle" /\ PhaseAt(pc'[c]) = "deciding"
    BY <2>1, PhaseValues
  <2> QED
    BY <1>1, <2>1, <2>2, PhaseMoves DEF Governed!Begin, Governed!To, DrivenPhase
<1>2. ASSUME NEW c \in Cycles, Proceed(c), UNCHANGED <<delivered, recordOf>>, Deliberates(c)
      PROVE  UNCHANGED Governed!cycleVars
  BY <1>2, PhaseMoves, OtherVars DEF Governed!cycleVars, DrivenPhase
<1>3. ASSUME NEW c \in Cycles, Proceed(c), UNCHANGED <<delivered, recordOf>>, IsApproved(c)
      PROVE  Governed!Approve(c)
  BY <1>3, PhaseMoves, OtherVars DEF Governed!Approve, Governed!To, DrivenPhase, IsApproved
<1>4. ASSUME NEW c \in Cycles, Proceed(c), UNCHANGED <<delivered, recordOf>>, Ends(c)
      PROVE  Governed!Refrain(c)
  BY <1>4, PhaseMoves, OtherVars DEF Governed!Refrain, Governed!To, DrivenPhase, Ends
<1>5. ASSUME NEW c \in Cycles, Proceed(c), Proposed(c)
      PROVE  Governed!Submit(c) \/ Governed!SubmitUnreadable(c)
  <2>1. /\ pc[c] = "proposing" /\ pc'[c] \in ProposalEntries \union {"aborted"}
        /\ delivered' \in {delivered, delivered \union {Package(c)}}
        /\ UNCHANGED <<restarts, recordOf>>
    BY <1>5, ProposedIs DEF Proposed
  <2>2. /\ PhaseAt(pc[c]) = "approved"
        /\ PhaseAt(pc'[c]) = IF pc'[c] \in ProposalEntries THEN "answered" ELSE "over"
    BY <2>1, PhaseValues DEF Approved, Packaged, Over
  <2>3. admitted' \in {admitted, admitted \union {c}}
    <3>1. Package(c).cycle = c
      BY DEF Package
    <3> QED
      BY <2>1, <3>1
  <2>4. CASE pc'[c] \in ProposalEntries
    <3>1. Governed!Submit(c)
      BY <1>5, <2>1, <2>2, <2>3, <2>4, PhaseMoves DEF Governed!Submit, Governed!To, DrivenPhase
    <3> QED
      BY <3>1
  <2>5. CASE pc'[c] \notin ProposalEntries
    <3>1. Governed!SubmitUnreadable(c)
      BY <1>5, <2>1, <2>2, <2>3, <2>5, PhaseMoves
      DEF Governed!SubmitUnreadable, Governed!To, DrivenPhase
    <3> QED
      BY <3>1
  <2> QED
    BY <2>4, <2>5
<1>6. ASSUME NEW c \in Cycles, Proceed(c), WriteProposal(c)
      PROVE  Governed!Record(c)
  <2>1. /\ pc[c] \in ProposalEntries /\ pc'[c] = "done"
        /\ UNCHANGED <<delivered, restarts>>
    BY <1>0, <1>6 DEF WriteProposal, Wrote, GoesTo
  <2>2. PhaseAt(pc[c]) = "answered" /\ PhaseAt(pc'[c]) = "over"
    BY <2>1, PhaseValues DEF Over
  <2>3. recordOf' = [recordOf EXCEPT ![c] = Len(history) + 1] /\ Len(history) \in Nat
    BY <1>6, ProposalRecorded
  <2>4. recorded' = recorded \union {c}
    BY <1>0, <2>3
  <2> QED
    BY <1>6, <2>1, <2>2, <2>4, PhaseMoves DEF Governed!Record, Governed!To, DrivenPhase
<1>7. CASE Restart
  <2>1. DrivenPhase = [d \in Cycles |-> PhaseAt(pc[d])]
    BY PhaseIs DEF DrivenPhase
  <2>2. DrivenPhase' = [d \in Cycles |-> PhaseAt(pc'[d])]
    BY PhaseIsNext DEF DrivenPhase
  <2>3. ASSUME NEW d \in Cycles
        PROVE  PhaseAt(pc'[d])
                 = IF PhaseAt(pc[d]) \in Governed!Running THEN "over" ELSE PhaseAt(pc[d])
    <3>1. pc'[d] = IF pc[d] \in Awaiting THEN "aborted" ELSE pc[d]
      BY <1>7 DEF Restart, InFlight
    <3>2. pc[d] \in Awaiting \union Over \union {"idle"}
      BY <1>0
    <3>3. /\ "idle" \notin Awaiting \union Over
          /\ Awaiting \intersect Over = {}
          /\ ProposalEntries \subseteq Awaiting /\ Approved \subseteq Awaiting
          /\ "aborted" \in Over
      BY DEF Awaiting, Over, ProposalEntries, Approved, Packaged, ModelCalls, EndEntries
    <3>4. CASE pc[d] \in Awaiting
      BY <3>1, <3>3, <3>4 DEF PhaseAt, Governed!Running
    <3>5. CASE pc[d] \in Over \union {"idle"}
      BY <3>1, <3>3, <3>5 DEF PhaseAt, Governed!Running
    <3> QED
      BY <3>2, <3>4, <3>5
  <2>4. /\ restarts < MaxRestarts /\ restarts' = restarts + 1
        /\ UNCHANGED <<delivered, recordOf>>
    BY <1>7 DEF Restart
  <2>5. \A d \in Cycles : DrivenPhase[d] = PhaseAt(pc[d])
    BY <2>1
  <2>6. DrivenPhase' =
          [d \in Cycles |-> IF DrivenPhase[d] \in Governed!Running THEN "over" ELSE DrivenPhase[d]]
    BY <2>2, <2>3, <2>5
  <2> QED
    BY <2>4, <2>6 DEF Governed!Crash, Governed!CycleNext, DrivenPhase
<1>8. CASE ClockStep \/ UNCHANGED vars
  <2>1. UNCHANGED driverVars
    BY <1>8 DEF ClockStep, vars
  <2>2. DrivenPhase' = DrivenPhase
    BY <2>1 DEF DrivenPhase, Phase, Written, driverVars
  <2> QED
    BY <2>1, <2>2 DEF Governed!cycleVars, DrivenPhase, driverVars
<1>9. ASSUME NEW c \in Cycles, Proceed(c)
      PROVE  \/ UNCHANGED Governed!cycleVars
             \/ Governed!Advance(c)
  BY <1>2, <1>3, <1>4, <1>5, <1>6, <1>9, StepKinds DEF Governed!Advance
<1> QED
  BY <1>1, <1>7, <1>8, <1>9 DEF Next, Governed!CycleNext

LEMMA GovernedInit == Init => Governed!CycleInit
<1> SUFFICES ASSUME Init  PROVE Governed!CycleInit
  OBVIOUS
<1>1. DriverInv
  BY DriverInvInit
<1>2. [c \in Cycles |-> Phase(c)] = [c \in Cycles |-> "idle"]
  <2>1. \A c \in Cycles : Phase(c) = PhaseAt("idle")
    BY <1>1, PhaseIs DEF Init
  <2> QED
    BY <2>1, PhaseValues
<1> QED
  BY <1>2 DEF Init, Governed!CycleInit

(* run_cycle implements GovernedCycle, except for the fairness, which is   *)
(* left to the model checker: no stage, error path, failed write or crash  *)
(* lets a package out before the write of its verdict has ended, proposes  *)
(* twice or drops an answer.                                               *)
THEOREM DriverIsGoverned ==
  Spec => Governed!CycleInit /\ [][Governed!CycleNext]_(Governed!cycleVars)
<1>1. DriverInv /\ DriverInv' /\ [Next]_vars => [Governed!CycleNext]_(Governed!cycleVars)
  BY GovernedStep
<1> QED
  BY <1>1, GovernedInit, DriverInvHolds, PTL DEF Spec

=============================================================================
