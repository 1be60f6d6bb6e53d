--------------------------- MODULE MCTcpSessions ---------------------------
(* TcpSessions for TLC: two connections of one account, on one handle or two. *)
EXTENDS TcpSessions, TLC

CONSTANTS acct, h1, h2

MCHandles == {h1, h2}
HandleSymmetry == Permutations(MCHandles)
MCAccounts == {acct}

\* An order report, which is cached, and a quote, which is not.
MCNotifications == {
    [acct |-> acct, cmd |-> CMD_NOTIFY_Order, shouldCache |-> TRUE],
    [acct |-> acct, cmd |-> CMD_NOTIFY_MarketDepth, shouldCache |-> FALSE]}

Request(resend, from) ==
    [acct |-> acct, resend |-> resend, algo |-> from, order |-> from, trade |-> from]

\* The first client wants no old messages, the second names a number.
MCRequests == <<{Request(FALSE, 0)}, {Request(TRUE, 5)}>>

\* Two milliseconds of two numbers: two answers and two notifications use them up,
\* in ascending order or not.
MCClock == {1, 2}
============================================================================
