------------------------------ MODULE ThreadApi ------------------------------
(***************************************************************************)
(* The Azure SDK's thread adapter (threadapi_openiot.c).  The application  *)
(* creates and joins threads; a thread ends by returning from its function *)
(* or by ThreadAPI_Exit, which looks its context up, by thread id, in a    *)
(* list that nothing protects.  Context c is the c-th one allocated and is *)
(* never reused; the RTOS gives the id of a thread that has ended to a     *)
(* later one.  0 is NULL.                                                  *)
(***************************************************************************)
EXTENDS Integers, Sequences, SequencesExt

CONSTANTS MaxContexts,    \* ThreadAPI_Create calls in a behaviour
          ThreadId        \* thread ids, numbers above 0

ASSUME ThreadApiAssumption ==
    MaxContexts \in Nat /\ ThreadId \subseteq Nat \ {0}

Context == 1..MaxContexts
NULL == 0

VARIABLES
    threads_head, threads_last,
    next, prev, thread_id,    \* of each context
    exit_queue,               \* of each context: its exit code queue, or NoQueue
    memory,                   \* of each context: "unused", "live", "freed"
    op,                       \* what the application is doing
    os_thread,                \* of each context: its thread, as the RTOS sees it
    \* history: was a context destroyed at an end of the list or behind one that
    \* had been destroyed (damaged), or while a thread was looking at it (overtaken);
    \* was freed memory used; did ThreadAPI_Exit not find its context, or look before
    \* the id was stored (early), or find another one; was a thread id used again
    \* while a context still had it; has a join returned another thread's result
    history

list == <<threads_head, threads_last, next, prev>>
api_vars == <<list, thread_id, exit_queue, memory, op, os_thread, history>>

NoQueue == <<NULL>>
NoOp == [name |-> "none", c |-> NULL, at |-> "none"]
NoThread == [state |-> "none", id |-> NULL, walk |-> NULL]
NoHistory == [damaged |-> FALSE, overtaken |-> FALSE, misused |-> FALSE, unfound |-> FALSE,
              early |-> FALSE, misposted |-> FALSE, reused |-> FALSE, wrong |-> FALSE]

Calls == [name : {"none", "create", "join"}, c : Context \cup {NULL},
          at : {"none", "queue", "thread", "assign", "get", "destroy"}]
OsThreads == [state : {"none", "run", "walk", "put", "ended"},
              id : ThreadId \cup {NULL}, walk : Context \cup {NULL}]
Histories == [damaged : BOOLEAN, overtaken : BOOLEAN, misused : BOOLEAN, unfound : BOOLEAN,
              early : BOOLEAN, misposted : BOOLEAN, reused : BOOLEAN, wrong : BOOLEAN]
ThreadApiTypeOK ==
    /\ {threads_head, threads_last} \subseteq Context \cup {NULL}
    /\ next \in [Context -> Context \cup {NULL}] /\ prev \in [Context -> Context \cup {NULL}]
    /\ thread_id \in [Context -> ThreadId \cup {NULL}]
    /\ memory \in [Context -> {"unused", "live", "freed"}]
    /\ op \in Calls
    /\ os_thread \in [Context -> OsThreads]
    /\ exit_queue \in [Context -> {NoQueue, <<>>} \cup {<<c>> : c \in Context}]
    /\ history \in Histories

ThreadApiInit ==
    /\ threads_head = NULL /\ threads_last = NULL
    /\ next = [c \in Context |-> NULL] /\ prev = [c \in Context |-> NULL]
    /\ thread_id = [c \in Context |-> NULL]
    /\ exit_queue = [c \in Context |-> NoQueue]
    /\ memory = [c \in Context |-> "unused"]
    /\ op = NoOp
    /\ os_thread = [c \in Context |-> NoThread]
    /\ history = NoHistory

-----------------------------------------------------------------------------
(* A definition Name_Slip, just above Name, is a plausible slip in the code *)
(* of Name: with it in Name's place the run must report a violation.        *)

Freed(c) == c # NULL /\ memory[c] = "freed"
Mark(flag, holds) == history' = [history EXCEPT ![flag] = @ \/ holds]
At(name, at) == op.name = name /\ op.at = at
GoTo(at) == op' = [op EXCEPT !.at = at]
Finish == op' = NoOp

\* destroy_thread_context(c): the queue, the link from the predecessor, the memory.
\* The ends of the list and the successor's link stay as they are.
Unlink_Not(c) == UNCHANGED next
Unlink(c) == next' = IF prev[c] = NULL THEN next ELSE [next EXCEPT ![prev[c]] = next[c]]
destroy_thread_context(c) ==
    /\ exit_queue' = [exit_queue EXCEPT ![c] = NoQueue]
    /\ Unlink(c)
    /\ memory' = [memory EXCEPT ![c] = "freed"]
    /\ history' = [history EXCEPT
          !.misused = @ \/ Freed(prev[c]),
          !.overtaken = @ \/ \E d \in Context : os_thread[d].state = "walk" /\ os_thread[d].walk = c,
          !.damaged = @ \/ Freed(prev[c]) \/ c \in {threads_head, threads_last}]
    /\ UNCHANGED <<threads_head, threads_last, prev>>

\* ThreadAPI_Create: the context is put at the end of the list first.
ThreadAPI_Create ==
    /\ op = NoOp
    /\ \E c \in Context :
          /\ memory[c] = "unused" /\ \A d \in 1..(c - 1) : memory[d] # "unused"
          /\ memory' = [memory EXCEPT ![c] = "live"]
          /\ op' = [name |-> "create", c |-> c, at |-> "queue"]
          /\ threads_last' = c
          /\ \/ /\ threads_last # NULL
                /\ prev' = [prev EXCEPT ![c] = threads_last]
                /\ next' = [next EXCEPT ![threads_last] = c]
                /\ Mark("misused", Freed(threads_last))
                /\ UNCHANGED threads_head
             \/ /\ threads_last = NULL
                /\ threads_head' = c
                /\ UNCHANGED <<prev, next, history>>
    /\ UNCHANGED <<thread_id, exit_queue, os_thread>>
CreateQueue ==
    /\ At("create", "queue")
    /\ \/ /\ exit_queue' = [exit_queue EXCEPT ![op.c] = <<>>]
          /\ GoTo("thread")
          /\ UNCHANGED <<list, memory, history>>
       \/ /\ destroy_thread_context(op.c)
          /\ Finish
    /\ UNCHANGED <<thread_id, os_thread>>

\* osThreadNew: the thread may run before its id is stored in the context.
InUse(id) == \E c \in Context : os_thread[c].id = id /\ os_thread[c].state # "ended"
CreateThread ==
    /\ At("create", "thread")
    /\ \/ \E id \in ThreadId :
             /\ ~InUse(id)
             /\ os_thread' = [os_thread EXCEPT ![op.c] = [state |-> "run", id |-> id, walk |-> NULL]]
             /\ Mark("reused", \E c \in Context : memory[c] = "live" /\ thread_id[c] = id)
             /\ GoTo("assign")
             /\ UNCHANGED <<list, exit_queue, memory>>
       \/ /\ destroy_thread_context(op.c)
          /\ Finish
          /\ UNCHANGED os_thread
    /\ UNCHANGED thread_id
AssignId ==
    /\ At("create", "assign")
    /\ thread_id' = [thread_id EXCEPT ![op.c] = os_thread[op.c].id]
    /\ Finish
    /\ UNCHANGED <<list, exit_queue, memory, os_thread, history>>

\* ThreadAPI_Join, once for each handle: wait for the exit code, then destroy.
ThreadAPI_Join(c) ==
    /\ op = NoOp
    /\ memory[c] = "live" /\ thread_id[c] # NULL
    /\ op' = [name |-> "join", c |-> c, at |-> "get"]
    /\ UNCHANGED <<list, thread_id, exit_queue, memory, os_thread, history>>
JoinGet ==
    /\ At("join", "get")
    /\ exit_queue[op.c] # <<>>
    /\ Mark("wrong", Head(exit_queue[op.c]) # op.c)
    /\ exit_queue' = [exit_queue EXCEPT ![op.c] = Tail(@)]
    /\ GoTo("destroy")
    /\ UNCHANGED <<list, thread_id, memory, os_thread>>
JoinDestroy ==
    /\ At("join", "destroy")
    /\ destroy_thread_context(op.c)
    /\ Finish
    /\ UNCHANGED <<thread_id, os_thread>>

-----------------------------------------------------------------------------
(* The thread of context c.  Its exit code is c.                            *)
Moves(c, state, walk) == os_thread' = [os_thread EXCEPT ![c].state = state, ![c].walk = walk]

\* The function returns; or it calls ThreadAPI_Exit.
thread_wrapper_callback(c) ==
    /\ os_thread[c].state = "run"
    /\ Moves(c, "put", c)
    /\ UNCHANGED <<list, thread_id, exit_queue, memory, op, history>>
ThreadAPI_Exit(c) ==
    /\ os_thread[c].state = "run"
    /\ Moves(c, "walk", threads_head)
    /\ UNCHANGED <<list, thread_id, exit_queue, memory, op, history>>

\* get_current_thread_context: one context of the list at a time.  A thread whose
\* context is not found goes on, and returns from its function.
NextContext_Twice(here) == IF next[here] = NULL THEN NULL ELSE next[next[here]]
NextContext(here) == next[here]
get_current_thread_context(c) ==
    /\ os_thread[c].state = "walk"
    /\ LET here == os_thread[c].walk
           found == here # NULL /\ thread_id[here] = os_thread[c].id
       IN  \/ /\ here = NULL
              /\ Moves(c, "put", c)
              /\ Mark("unfound", TRUE)
           \/ /\ here # NULL
              /\ IF found THEN Moves(c, "put", here) ELSE Moves(c, "walk", NextContext(here))
              /\ history' = [history EXCEPT !.misused = @ \/ Freed(here),
                                            !.early = @ \/ (here = c /\ ~found)]
    /\ UNCHANGED <<list, thread_id, exit_queue, memory, op>>

\* exit_thread(context): the code is put in the queue of the context found, when
\* there is room, and the thread ends.  If that queue has been deleted the put fails
\* and ThreadAPI_Exit returns to the function; the wrapper gives up.
Posts_Not(c, here) == exit_queue' = [exit_queue EXCEPT ![here] = IF here = c THEN @ ELSE <<c>>]
Posts(c, here) == exit_queue' = [exit_queue EXCEPT ![here] = <<c>>]
exit_thread(c) ==
    /\ os_thread[c].state = "put"
    /\ LET here == os_thread[c].walk
       IN  \/ /\ exit_queue[here] = <<>>
              /\ Posts(c, here)
              /\ Mark("misposted", here # c)
              /\ Moves(c, "ended", NULL)
           \/ /\ exit_queue[here] = NoQueue
              /\ IF here = c THEN Moves(c, "ended", NULL) ELSE Moves(c, "put", c)
              /\ Mark("misused", Freed(here))
              /\ UNCHANGED exit_queue
    /\ UNCHANGED <<list, thread_id, memory, op>>

ThreadApiNext ==
    \/ ThreadAPI_Create \/ CreateQueue \/ CreateThread \/ AssignId
    \/ JoinGet \/ JoinDestroy
    \/ \E c \in Context :
          \/ ThreadAPI_Join(c) \/ thread_wrapper_callback(c) \/ ThreadAPI_Exit(c)
          \/ get_current_thread_context(c) \/ exit_thread(c)

\* A thread goes on, and so does a call of the application.
ThreadSteps(c) ==
    thread_wrapper_callback(c) \/ get_current_thread_context(c) \/ exit_thread(c)
CallSteps == CreateQueue \/ CreateThread \/ AssignId \/ JoinGet \/ JoinDestroy
Fairness == WF_api_vars(CallSteps) /\ \A c \in Context : WF_api_vars(ThreadSteps(c))
ThreadApiSpec == ThreadApiInit /\ [][ThreadApiNext]_api_vars /\ Fairness

-----------------------------------------------------------------------------
(* Properties.                                                              *)

\* Freed memory is used, or the forward chain from threads_head is anything but
\* the live contexts, only after a context was destroyed that was an end of the
\* list or whose predecessor had been destroyed (threadapi_openiot.c:86-90 mends
\* only the predecessor's link), or that a thread was looking at (:62).
Live == {c \in Context : memory[c] = "live"}
ChainSoundUntilEndDestroyed ==
    \/ history.damaged
    \/ /\ history.misused => history.overtaken \/ history.reused
       /\ {threads_head} \cup {next[c] : c \in Live} = Live \cup {NULL}
       /\ \A c \in Live : next[c] # NULL => next[c] > c

\* ThreadAPI_Exit finds the caller's context unless it is called before
\* ThreadAPI_Create has stored the thread's id (:163), or the list is broken; it
\* finds another one, and a join returns another thread's code, only if the RTOS
\* used the id of an ended thread again while its context was not joined.
ExitHeard ==
    /\ history.unfound => history.early \/ history.damaged \/ history.overtaken
    /\ history.misposted \/ history.wrong => history.reused

\* ThreadAPI_Join returns when the thread's function returns, unless a thread id
\* was used again: the code of such a thread goes to the queue of another (:105).
JoinEnds == (op.name = "join" /\ ~history.reused) ~> (op = NoOp \/ history.reused)
=============================================================================
