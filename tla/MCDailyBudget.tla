--------------------------- MODULE MCDailyBudget ---------------------------
(***************************************************************************)
(* DailyBudget for TLC: small caps and limits.                             *)
(***************************************************************************)
EXTENDS DailyBudget, TLC

CONSTANTS r1, r2, r3, u1, u2

\* Every call is a run.
AllRuns == [r \in Runs |-> "run_code"]

\* r2 is a discovery call.
OneDiscovery == [r \in Runs |-> IF r = r2 THEN "discovery" ELSE "run_code"]

\* r1 and r3 are calls of one user.
TwoUsers == [r \in Runs |-> IF r = r2 THEN u2 ELSE u1]

Limits(workers, rpc, requests, bytes, rows) ==
  [d \in Dims |-> CASE d = "uniqueWorkers" -> workers
                    [] d = "sandboxRpcCalls" -> rpc
                    [] d = "serviceNowRequests" -> requests
                    [] d = "outboundBytesSent" -> bytes
                    [] d = "rowsReturned" -> rows]

\* One call that may make two requests, and a day with room for one run and a half.
CallRun == Limits(1, 1, 2, 1, 1)
CallDay == Limits(2, 2, 3, 2, 1)

\* Room for two runs of one call, or for two that return a row at the same time.
TinyRun == Limits(1, 1, 1, 1, 1)
TinyDay == Limits(3, 2, 2, 2, 1)

\* Room for three runs, and one row.
RowDay == Limits(3, 5, 5, 5, 1)
=============================================================================
