---------------------------- MODULE ReplayLedger ----------------------------
(***************************************************************************)
(* What ingestion and probing promise, whatever files, processes and       *)
(* crashes do underneath: a replay that was offered with a valid header    *)
(* may be archived, once and for good; an archived replay gets at most one *)
(* probe verdict, which is final, and "ok" only when its payload decodes.  *)
(***************************************************************************)
CONSTANTS Bytes,        \* byte strings, each standing for its own SHA-256
          HeaderOK,     \* those that pass validate_replay_basic
          PayloadOK     \* those whose deflate payload decompresses

VARIABLES offered,      \* byte strings an uploader has put at some path
          archived,     \* the rows of raw_replays
          verdict       \* the status column of replay_processing

ledgerVars == <<offered, archived, verdict>>

LedgerInit ==
    /\ offered = {}
    /\ archived = {}
    /\ verdict = [c \in Bytes |-> "none"]

Offer(c) ==
    /\ offered' = offered \union {c}
    /\ UNCHANGED <<archived, verdict>>

Archive(c) ==
    /\ c \in offered
    /\ c \in HeaderOK
    /\ archived' = archived \union {c}
    /\ UNCHANGED <<offered, verdict>>

Probe(c, v) ==
    /\ c \in archived
    /\ verdict[c] = "none"
    /\ v = "ok" => c \in PayloadOK
    /\ verdict' = [verdict EXCEPT ![c] = v]
    /\ UNCHANGED <<offered, archived>>

LedgerNext ==
    \E c \in Bytes :
        \/ Offer(c)
        \/ Archive(c)
        \/ \E v \in {"ok", "failed"} : Probe(c, v)

LedgerSpec == LedgerInit /\ [][LedgerNext]_ledgerVars
=============================================================================
