------------------------------ MODULE Sampling ------------------------------
(* How many decisions the sampler audits, and of which kind                *)
(* (poll_and_audit and stratified_sample of gcl/loop/decision_sampler.py). *)
EXTENDS Integers

Lesser(a, b)  == IF a < b THEN a ELSE b
Greater(a, b) == IF a < b THEN b ELSE a

(* max(1, int(n * rate)), and no more than may be written by one poll.     *)
SampleSize(n, rateInverse, maxVerdicts) ==
  Lesser(Greater(1, n \div rateInverse), maxVerdicts)

(* The slip that gives away what one of the kinds leaves over.             *)
QuotasWithoutRest(judgment, mechanical, size) ==
  LET j == Lesser(judgment, Greater(1, (size + 1) \div 2))
  IN  [judgment |-> j, mechanical |-> Lesser(mechanical, size - j)]

(* Half of the sample, rounded up, is for judgement calls and the rest for *)
(* mechanical decisions; what one kind cannot fill goes to the other.      *)
(* When there is only one kind this is the plain sample of the code.       *)
Quotas(judgment, mechanical, size) ==
  LET j    == Lesser(judgment, Greater(1, (size + 1) \div 2))
      m    == Lesser(mechanical, size - j)
      rest == size - j - m
      more == Lesser(rest, judgment - j)
  IN  [judgment   |-> j + more,
       mechanical |-> m + Lesser(rest - more, mechanical - m)]

=============================================================================
