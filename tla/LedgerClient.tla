---------------------------- MODULE LedgerClient ----------------------------
(***************************************************************************)
(* LedgerClient of gcl/loop/ledger.py with the immutable ledger behind it. *)
(*                                                                         *)
(* The ledger is external.  What the code relies on: it stores an entry    *)
(* under the idempotency key that came with it, and a second write with    *)
(* the same key changes nothing.  A write ends in one of three ways, and   *)
(* the client cannot tell the last two apart:                              *)
(*   ok          stored, and the reply arrived                             *)
(*   lost        not stored (no connection, an error status)               *)
(*   lost_reply  stored, but the reply timed out or could not be read      *)
(* An entry is a record with the fields type, correlation and content.     *)
(***************************************************************************)
EXTENDS Integers, Sequences, FiniteSets

CONSTANT LedgerConfigured   \* GCL_LEDGER_URL is set

ASSUME LedgerAssumption == LedgerConfigured \in BOOLEAN

VARIABLES
  remote,  \* what the ledger holds: a set of [key, entry]
  memory,  \* _memory: a set of [entry, external]
  missed   \* history: entries of which a write failed

ledgerVars == <<remote, memory, missed>>

WriteOutcomes == IF LedgerConfigured THEN {"ok", "lost", "lost_reply"} ELSE {"local"}

(* sha256 of type, correlation id and the hash of the content.  Plausible  *)
(* bugs: a key that is new for every call, one without the content.        *)
KeyFresh(entry)          == <<entry, Cardinality(remote)>>
KeyWithoutContent(entry) == <<entry.type, entry.correlation>>

IdempotencyKey(entry) == <<entry.type, entry.correlation, entry.content>>

Stored(key, entry) ==
  IF \E r \in remote : r.key = key
    THEN remote
    ELSE remote \union {[key |-> key, entry |-> entry]}

(* Plausible bug: an entry is taken for proved as soon as it was sent.     *)
RememberedSent(entry, outcome) ==
  memory \union {[entry |-> entry, external |-> LedgerConfigured]}

Remembered(entry, outcome) ==
  memory \union {[entry |-> entry, external |-> outcome = "ok"]}

(* write_entry never raises, and nothing posts again what was lost.        *)
WriteEntry(entry, outcome) ==
  /\ remote' = IF outcome \in {"ok", "lost_reply"}
                 THEN Stored(IdempotencyKey(entry), entry) ELSE remote
  /\ memory' = Remembered(entry, outcome)
  /\ missed' = IF outcome = "lost" THEN missed \union {entry} ELSE missed

LocalChain(corr)  == {m.entry : m \in {n \in memory : n.entry.correlation = corr}}
RemoteChain(corr) == {r.entry : r \in {q \in remote : q.entry.correlation = corr}}

(* query_chain: the ledger's answer, or local evidence when there is none. *)
QueryChain(corr, answered) ==
  IF LedgerConfigured /\ answered THEN RemoteChain(corr) ELSE LocalChain(corr)

LedgerInit == remote = {} /\ memory = {} /\ missed = {}

(* In the ledger, which keeps what it has, unless the write of it failed.  *)
Held(entry) == entry \in missed \/ \E r \in remote : r.entry = entry

-----------------------------------------------------------------------------
(* A proof is never invented: what the client calls externally proved is   *)
(* in the ledger, whatever replies were lost and processes restarted       *)
(* (write_entry).                                                          *)
ProofsAreReal ==
  \A m \in memory : m.external => \E r \in remote : r.entry = m.entry

=============================================================================
