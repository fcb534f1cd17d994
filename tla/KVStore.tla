------------------------------ MODULE KVStore ------------------------------
(***************************************************************************)
(* What the engine promises its caller: a map that survives the process.   *)
(* One call runs at a time.  A put or delete takes effect at one instant   *)
(* between its invocation and its answer; a get answers what the map holds *)
(* at that instant.  A call may fail; a failed put or delete may or may    *)
(* not have taken effect.  When the process stops, the running call is     *)
(* forgotten and the map is kept.  Nothing is promised for steps in which  *)
(* the store is not intact: what that means is up to the implementation,   *)
(* which has to say it.                                                    *)
(***************************************************************************)
CONSTANTS
    Keys, Values,
    Absent,        \* what a get answers for a key that holds nothing
    NoCall         \* no call is running

VARIABLES
    store,         \* the map
    call,          \* the running call, or NoCall
    effective,     \* the running put or delete has taken effect
    result,        \* the last answer given
    intact         \* no failure has left the store with what nobody was promised

kvVars == <<store, call, effective, result, intact>>

Calls ==
    [op : {"put"}, key : Keys, value : Values]
        \cup [op : {"get", "delete"}, key : Keys, value : {Absent}]

Results == {"ok", "error", "limited", Absent} \cup Values

Init ==
    /\ store = [k \in Keys |-> Absent]
    /\ call = NoCall
    /\ effective = FALSE
    /\ result = "ok"
    /\ intact = TRUE

Invoke ==
    /\ call = NoCall
    /\ call' \in Calls
    /\ effective' = FALSE
    /\ UNCHANGED <<store, result>>

\* The rate limiter turns a call away before it starts
Refuse ==
    /\ call = NoCall
    /\ result' = "limited"
    /\ UNCHANGED <<store, call, effective>>

Effect ==
    /\ call # NoCall
    /\ call.op # "get"
    /\ ~effective
    /\ store' = [store EXCEPT ![call.key] = call.value]
    /\ effective' = TRUE
    /\ UNCHANGED <<call, result>>

AnswerWrite ==
    /\ call # NoCall
    /\ call.op # "get"
    /\ effective
    /\ result' = "ok"
    /\ call' = NoCall
    /\ effective' = FALSE
    /\ UNCHANGED store

AnswerGet ==
    /\ call # NoCall
    /\ call.op = "get"
    /\ result' = store[call.key]
    /\ call' = NoCall
    /\ UNCHANGED <<store, effective>>

Fail ==
    /\ call # NoCall
    /\ result' = "error"
    /\ call' = NoCall
    /\ effective' = FALSE
    /\ UNCHANGED store

Stop ==
    /\ call' = NoCall
    /\ effective' = FALSE
    /\ UNCHANGED <<store, result>>

Promised == Invoke \/ Refuse \/ Effect \/ AnswerWrite \/ AnswerGet \/ Fail \/ Stop

Next == intact /\ intact' => Promised

Spec == Init /\ [][Next]_kvVars
=============================================================================
