------------------------------- MODULE Watcher -------------------------------
(***************************************************************************)
(* The NATS watcher (client/v1/nats): a goroutine that subscribes, waits   *)
(* for its context and closes two unbuffered channels, and a callback that *)
(* the subscription runs for one message at a time, which offers the       *)
(* message on the events channel.                                          *)
(*                                                                         *)
(* The subscription is plain NATS: it hears what is published while it is  *)
(* open, or not, and nothing that was published before.                    *)
(***************************************************************************)
EXTENDS DirectoryTree, Sequences

CONSTANTS
    MaxPending,        \* bound on the messages a subscription holds back
    SubscribeMayFail   \* may the subscription be refused?

ASSUME WatcherAssumption ==
    /\ MaxPending \in Nat \ {0}
    /\ SubscribeMayFail \in BOOLEAN

VARIABLES
    sub,       \* how far the goroutine has come
    pending,   \* messages heard; the first is in the hands of the callback
    canceled   \* is the context done?

watcherVars == <<sub, pending>>

SubStates ==
    {"none", "subscribing", "waiting", "failing", "disconnected", "errsClosed", "closed"}

WatcherTypeOK ==
    /\ sub \in SubStates
    /\ pending \in Seq(Fact)
    /\ Len(pending) <= MaxPending
    /\ canceled \in BOOLEAN

WatcherInit == sub = "none" /\ pending = <<>> /\ canceled = FALSE

Goes(from, to) == sub = from /\ sub' = to

(* Watch returns its channels at once; the goroutine subscribes later.     *)
Watch == Goes("none", "subscribing") /\ UNCHANGED pending

Subscribe == Goes("subscribing", "waiting") /\ UNCHANGED pending

(* The goroutine then offers the error on errs, whatever the context does. *)
SubscribeFails ==
    /\ SubscribeMayFail
    /\ Goes("subscribing", "failing")
    /\ UNCHANGED pending

(* The subscription hears of something that has happened; again, perhaps,  *)
(* and late, or never: a fact it misses leaves no trace.                   *)
Hear(fact) ==
    /\ sub = "waiting"
    /\ True(fact)
    /\ Len(pending) < MaxPending
    /\ pending' = Append(pending, fact)
    /\ UNCHANGED sub

(* The context is done: the connection closes, and of the messages it has  *)
(* heard only the one that the callback already holds goes any further.    *)
Disconnect ==
    /\ canceled
    /\ Goes("waiting", "disconnected")
    /\ \E held \in 0 .. 1 : held <= Len(pending) /\ pending' = SubSeq(pending, 1, held)

(* The deferred calls: errs is closed first, events last.                  *)
CloseErrs == Goes("disconnected", "errsClosed") /\ UNCHANGED pending
CloseEvents == Goes("errsClosed", "closed") /\ UNCHANGED pending

(* The callback sees that the context is done and drops its message.       *)
CallbackReturns ==
    /\ canceled
    /\ pending # <<>>
    /\ pending' = Tail(pending)
    /\ UNCHANGED sub

(* When the callback comes to its select after events was closed, both its *)
(* cases are ready, and Go picks any: a send on the closed channel panics. *)
CallbackMayPanic == sub = "closed" /\ pending # <<>>

(* What a receiver finds on the channels.                                  *)
EventReady == sub \in {"waiting", "disconnected", "errsClosed"} /\ pending # <<>>
ErrorReady == sub = "failing"
ErrsClosed == sub \in {"errsClosed", "closed"}
EventsClosed == sub = "closed"

ReceiveEvent == EventReady /\ pending' = Tail(pending) /\ UNCHANGED sub

(* The goroutine hands its error over, and returns.                        *)
ReceiveError == ErrorReady /\ sub' = "errsClosed" /\ UNCHANGED pending

(* The goroutine and the callback by themselves.                           *)
WatcherStep ==
    \/ Subscribe \/ SubscribeFails
    \/ Disconnect \/ CloseErrs \/ CloseEvents
    \/ CallbackReturns

=============================================================================
