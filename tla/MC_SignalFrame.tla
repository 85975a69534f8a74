--------------------------- MODULE MC_SignalFrame ---------------------------
EXTENDS SignalFrame

\* SA_NOMASK; a mask with another signal; a handler that is called once.
MCRequests ==
    {[sa_handler |-> "function", sa_mask |-> {}, nomask |-> TRUE, oneshot |-> FALSE],
     [sa_handler |-> "function", sa_mask |-> {2}, nomask |-> FALSE, oneshot |-> FALSE],
     [sa_handler |-> "function", sa_mask |-> {}, nomask |-> TRUE, oneshot |-> TRUE],
     [sa_handler |-> "SIG_IGN", sa_mask |-> {}, nomask |-> FALSE, oneshot |-> FALSE]}
=============================================================================
