---------------------- MODULE EvidenceChainProperties ---------------------
(***************************************************************************)
(* What makes the evidence chain trustworthy across stops, failed writes   *)
(* and restored files.                                                     *)
(***************************************************************************)
EXTENDS EvidenceChain

Readable(r) == \E i \in DOMAIN log : log[i].hash = r.hash /\ log[i].form # "garbage"

\* The one way to lose a record: the last line had no newline, was read as a
\* whole record, and the next append made one unreadable line of the two.
LostToTornLine(r) ==
    /\ log # << >>
    /\ log[Len(log)].form = "garbage"
    /\ log[Len(log)].hash \in {r.hash, r.prev}

\* A record append has returned, or append_idempotent has recognised, can be
\* read back for ever, but for a line that lost its newline.
AcknowledgedKept ==
    "log" \notin restored =>
        \A r \in sealed : Readable(r) \/ LostToTornLine(r)

\* However often a journaled append is repeated after stops and failed writes,
\* its record is in the log once, so the audit never meets a duplicate id.
RecordedOnce ==
    \A i, j \in DOMAIN log : log[i].id = log[j].id => i = j

\* Two records extend the same predecessor only when the log and its head were
\* put back together, and never one that an external witness covers while the
\* profile requires the witness, unless the restored log was witnessed anew.
ChainDoesNotFork ==
    \A old, new \in sealed :
        old.prev = new.prev /\ old.hash < new.hash =>
            /\ {"log", "head"} \subseteq restored
            /\ required /\ (\E w \in witnessed : old.hash <= w) =>
                  "witness" \in restored

\* A head that lags and a witness that lags: the start that would bring the
\* head up is refused for the witness, and the witness is not signed because
\* the head is not up.
LagWindow ==
    /\ required
    /\ head.count < Len(log)
    /\ Len(log) - witness.count > MaxLag

\* With its sentinels removed and its witness refreshed, a process that stopped
\* with a readable chain can start again, but for that window.
StuckOnlyKnown ==
    restored = {} /\ proc.pc = "down" /\ Verified(log) =>
        \/ HeadUsable /\ (required => WitnessOk(witness) \/ Witnessable)
        \/ LagWindow

===========================================================================
