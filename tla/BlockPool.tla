------------------------------ MODULE BlockPool ------------------------------
(***************************************************************************)
(* What a physical memory manager promises, without its bitmap: a pool of   *)
(* blocks opened once at boot, from which runs of consecutive blocks are    *)
(* granted and to which they are given back.  A grant takes any run that is *)
(* available; a refusal is allowed only when no such run exists.            *)
(***************************************************************************)
EXTENDS BlockRuns

CONSTANTS Blocks,      \* every block the pool may ever hold
          Counts       \* the run lengths a client may ask for

VARIABLES open,        \* the pool was filled (once)
          avail,       \* blocks that can be granted
          held,        \* blocks granted and not given back
          answer       \* the last request and the first block granted, or NoBlock

vars == <<open, avail, held, answer>>

NoBlock == -1

Init ==
    /\ open = FALSE
    /\ avail = {}
    /\ held = {}
    /\ answer = [count |-> 0, block |-> NoBlock]

Open ==
    /\ ~open
    /\ open' = TRUE
    /\ avail' \in SUBSET Blocks
    /\ UNCHANGED <<held, answer>>

Grant(n) ==
    \E s \in RunStarts(avail, n) :
        /\ n > 0
        /\ avail' = avail \ Run(s, n)
        /\ held' = held \cup Run(s, n)
        /\ answer' = [count |-> n, block |-> s]
        /\ UNCHANGED open

Refuse(n) ==
    /\ n = 0 \/ RunStarts(avail, n) = {}
    /\ answer' = [count |-> n, block |-> NoBlock]
    /\ UNCHANGED <<open, avail, held>>

GiveBack ==
    \E S \in SUBSET held :
        /\ avail' = avail \cup S
        /\ held' = held \ S
        /\ UNCHANGED <<open, answer>>

Next ==
    \/ Open
    \/ \E n \in Counts : Grant(n) \/ Refuse(n)
    \/ GiveBack

Spec == Init /\ [][Next]_vars
=============================================================================
