----------------------------- MODULE DbHistory ------------------------------
(***************************************************************************)
(* Db with a history variable, for what can be asked of a database that    *)
(* does not fsync its log: not which writes a crash keeps, but whether the *)
(* writes it loses are the last ones.                                      *)
(***************************************************************************)
EXTENDS Db

VARIABLE past   \* not in the code: every state the database has held

historyVars == <<vars, past>>

HistoryInit == Init /\ past = {Contents}

HistoryNext == Next /\ past' = past \cup {Contents'}

HistorySpec == HistoryInit /\ [][HistoryNext]_historyVars

\* "sync = false -- fast, last few writes lost on crash" (DESIGN.md, README.md):
\* whatever a crash leaves, open finds the database as it was at some moment,
\* before the writes that were lost, or with the write in progress applied.
CrashLosesLastWrites ==
    \A d \in crash_dirs, l \in crash_logs :
        Recovered(d, l) \in past \cup {Apply(Contents, w) : w \in InFlight}
=============================================================================
