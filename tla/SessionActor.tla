----------------------------- MODULE SessionActor -----------------------------
(***************************************************************************)
(* The actor of an assistant session                                       *)
(* (server/agent_runtime/session_actor.py): one asyncio task that owns the *)
(* SDK client, takes commands from a queue, and reads a query's stream of  *)
(* messages while it goes on taking commands.                              *)
(*                                                                         *)
(* A step runs from one await to the next.  msg_task and cmd_task are      *)
(* tasks of their own: each gets its result in a step of its own, whether  *)
(* the actor is at asyncio.wait or at another await.                       *)
(***************************************************************************)
EXTENDS Sequences

CONSTANTS Commands,   \* the commands callers may send, each once
          KindOf,     \* [Commands -> {"query", "interrupt", "disconnect"}]
          MayCancel,  \* whether an eviction may run out of patience
          Nothing     \* no command

ASSUME ActorAssumption ==
    /\ KindOf \in [Commands -> {"query", "interrupt", "disconnect"}]
    /\ MayCancel \in BOOLEAN
    /\ Nothing \notin Commands
    /\ "waiting" \notin Commands \union {Nothing}

VARIABLES pc,         \* the await the actor is at, "ended" after _run
          queue,      \* _cmd_queue
          current,    \* the query being sent or driven
          pending,    \* pending_query
          msgTask,    \* msg_task: "waiting" or its result
          cmdTask,    \* cmd_task: "waiting", Nothing if cancelled, or its result
          asked,      \* commands enqueued
          accepted,   \* cmd.accepted
          sent,       \* cmd.sent is set
          done,       \* cmd.done is set
          failed      \* cmd.error is not None

answers == <<accepted, sent, done, failed>>
drive == <<current, pending, msgTask, cmdTask>>
actorVars == <<pc, queue, drive, asked, answers>>

Awaits == {"connect", "get", "query", "wait", "interrupt", "hangup", "close"}

ActorTypeOK ==
    /\ pc \in Awaits \union {"ended"}
    /\ queue \in Seq(asked)
    /\ current \in Commands \union {Nothing}
    /\ pending \in Commands \union {Nothing}
    /\ msgTask \in {"waiting", "message", "end", "error"}
    /\ cmdTask \in Commands \union {"waiting", Nothing}
    /\ {asked, accepted, sent, done, failed} \subseteq SUBSET Commands

ActorInit ==
    /\ pc = "connect"
    /\ queue = <<>>
    /\ current = Nothing /\ pending = Nothing
    /\ msgTask = "end" /\ cmdTask = Nothing
    /\ asked = {} /\ accepted = {} /\ sent = {} /\ done = {} /\ failed = {}

-----------------------------------------------------------------------------
(* Answers. *)

\* SessionCommand.complete: both events are set, with or without an error.
Complete(ok, refused) ==
    /\ sent' = sent \union ok \union refused
    /\ done' = done \union ok \union refused
    /\ failed' = failed \union refused
    /\ UNCHANGED accepted

Some(c) == {c} \ {Nothing}
InQueue == {queue[i] : i \in DOMAIN queue}

Enqueue(c) ==
    /\ c \notin asked
    /\ asked' = asked \union {c}
    /\ IF pc = "ended"
         THEN Complete({}, {c}) /\ UNCHANGED queue
         ELSE queue' = Append(queue, c) /\ UNCHANGED answers
    /\ UNCHANGED <<pc, drive>>

-----------------------------------------------------------------------------
(* The command loop. *)

\* The body of the loop for one command, given the commands that the same step
\* has already answered: the actor goes on to its next await.
Handle(c, ok, refused) ==
    /\ pc' = CASE KindOf[c] = "disconnect" -> "close"
               [] KindOf[c] = "interrupt"  -> "get"
               [] KindOf[c] = "query"      -> "query"
    /\ current' = IF KindOf[c] = "query" THEN c ELSE Nothing
    /\ Complete(IF KindOf[c] = "query" THEN ok ELSE ok \union {c}, refused)

\* Mistake: no look at whether there is a pending query.
AbandonBlindly(ok) ==
    /\ pc' = "close"
    /\ Complete(ok, {current, pending} \ ok)
    /\ current' = Nothing /\ pending' = Nothing
    /\ cmdTask' = IF cmdTask = "waiting" THEN Nothing ELSE cmdTask
    /\ UNCHANGED <<queue, msgTask, asked>>

\* An exception leaves the loop for the client's __aexit__.  The finally of
\* _drive_query refuses the pending query, the loop refuses the current one;
\* cmd_task is cancelled, but keeps a command that it has already taken.
Abandon(ok) ==
    /\ pc' = "close"
    /\ Complete(ok, (Some(current) \union Some(pending)) \ ok)
    /\ current' = Nothing /\ pending' = Nothing
    /\ cmdTask' = IF cmdTask = "waiting" THEN Nothing ELSE cmdTask
    /\ UNCHANGED <<queue, msgTask, asked>>

\* The end of _run: what is left in the queue is refused.
Drain ==
    /\ pc' = "ended"
    /\ queue' = <<>>
    /\ Complete({}, InQueue \ done)
    /\ UNCHANGED <<drive, asked>>

Connected ==
    /\ pc = "connect"
    /\ pc' = "get"
    /\ UNCHANGED <<queue, drive, asked, answers>>

ConnectFails == pc = "connect" /\ Drain

GetCommand ==
    /\ pc = "get" /\ queue # <<>>
    /\ Handle(Head(queue), {}, {})
    /\ queue' = Tail(queue)
    /\ UNCHANGED <<pending, msgTask, cmdTask, asked>>

\* client.query returns: the waiter of sent is released, the drive begins.
QuerySent ==
    /\ pc = "query"
    /\ pc' = "wait"
    /\ accepted' = accepted \union {current}
    /\ sent' = sent \union {current}
    /\ msgTask' = "waiting" /\ cmdTask' = "waiting"
    /\ UNCHANGED <<queue, current, pending, asked, done, failed>>

QueryFails == pc = "query" /\ Abandon({})

ClientClosed == pc = "close" /\ Drain

-----------------------------------------------------------------------------
(* The drive of a query: the two tasks, and what the actor does with them. *)

Driving == pc \in {"wait", "interrupt", "hangup"}

MessageArrives ==
    /\ Driving /\ msgTask = "waiting"
    /\ msgTask' \in {"message", "end", "error"}
    /\ UNCHANGED <<pc, queue, current, pending, cmdTask, asked, answers>>

CommandArrives ==
    /\ Driving /\ cmdTask = "waiting" /\ queue # <<>>
    /\ cmdTask' = Head(queue)
    /\ queue' = Tail(queue)
    /\ UNCHANGED <<pc, current, pending, msgTask, asked, answers>>

Taken == Some(cmdTask) \ {"waiting"}

\* Mistake: the command that cmd_task has taken is dropped.
PutBackNothing == queue

PutBack == IF Taken = {} THEN queue ELSE Append(queue, cmdTask)

\* StopAsyncIteration: the query is done.  The pending query is next; a command
\* that cmd_task has taken as well goes back, to the end of the queue.
StreamEnds ==
    /\ pc = "wait" /\ msgTask = "end"
    /\ cmdTask' = Nothing
    /\ IF pending # Nothing
         THEN /\ queue' = PutBack
              /\ Handle(pending, {current}, {})
         ELSE /\ UNCHANGED queue
              /\ IF Taken = {}
                   THEN /\ pc' = "get" /\ current' = Nothing
                        /\ done' = done \union {current}
                        /\ UNCHANGED <<accepted, sent, failed>>
                   ELSE Handle(cmdTask, {current}, {})
    /\ pending' = Nothing
    /\ UNCHANGED <<msgTask, asked>>

StreamFails ==
    /\ pc = "wait" /\ msgTask = "error"
    /\ Abandon({})

\* A command, while the stream may have brought a message as well.
Interrupt ==
    /\ pc' = "interrupt"
    /\ UNCHANGED <<pending, cmdTask, current, answers>>

\* Mistake: the query is called done before the interrupt that ends it.
HangupEarly ==
    /\ pc' = "hangup"
    /\ done' = done \union {current}
    /\ UNCHANGED <<pending, cmdTask, current, accepted, sent, failed>>

Hangup ==
    /\ pc' = "hangup"
    /\ UNCHANGED <<pending, cmdTask, current, answers>>

\* Mistake: the drive is left for the next query before its stream has ended.
StashAndLeave ==
    /\ Handle(cmdTask, {}, {})
    /\ cmdTask' = Nothing
    /\ UNCHANGED pending

\* The first query to arrive is kept for later, a second one is refused.
Stash ==
    /\ IF pending = Nothing
         THEN pending' = cmdTask /\ UNCHANGED answers
         ELSE UNCHANGED pending /\ Complete({}, {cmdTask})
    /\ cmdTask' = "waiting"
    /\ UNCHANGED <<pc, current>>

\* Mistake: commands wait until the stream brings something.
WakesForMessages == msgTask = "message"

Wakes == msgTask = "message" \/ (msgTask = "waiting" /\ Taken # {})

DriveStep ==
    /\ pc = "wait" /\ Wakes
    /\ msgTask' = "waiting"
    /\ \/ Taken = {} /\ UNCHANGED <<pc, pending, cmdTask, current, answers>>
       \/ Taken # {} /\ KindOf[cmdTask] = "interrupt" /\ Interrupt
       \/ Taken # {} /\ KindOf[cmdTask] = "disconnect" /\ Hangup
       \/ Taken # {} /\ KindOf[cmdTask] = "query" /\ Stash
    /\ UNCHANGED <<queue, asked>>

Interrupted ==
    /\ pc = "interrupt"
    /\ pc' = "wait"
    /\ Complete({cmdTask}, {})
    /\ cmdTask' = "waiting"
    /\ UNCHANGED <<queue, current, pending, msgTask, asked>>

\* The interrupt command is refused and the exception goes on.
InterruptFails ==
    /\ pc = "interrupt"
    /\ pc' = "close"
    /\ Complete({}, {cmdTask, current} \union Some(pending))
    /\ current' = Nothing /\ pending' = Nothing
    /\ UNCHANGED <<queue, msgTask, cmdTask, asked>>

\* The disconnect command goes back to the command loop, which answers it.
HungUp ==
    /\ pc = "hangup"
    /\ Handle(cmdTask, {current}, Some(pending))
    /\ cmdTask' = Nothing /\ pending' = Nothing
    /\ UNCHANGED <<queue, msgTask, asked>>

HangupFails == pc = "hangup" /\ Abandon({})

-----------------------------------------------------------------------------
\* An eviction that waited too long for its disconnect cancels the task, at
\* whatever await it is.  An interrupt under way is answered without an error.
Cancelled ==
    /\ MayCancel
    /\ \E d \in asked : KindOf[d] = "disconnect"
    /\ \/ pc \in {"connect", "close"} /\ Drain
       \/ pc \in {"get", "query", "wait", "hangup"} /\ Abandon({})
       \/ pc = "interrupt" /\ Abandon({cmdTask})

\* What the actor and its tasks do by themselves...
ActorStep ==
    \/ GetCommand \/ CommandArrives \/ StreamEnds \/ StreamFails \/ DriveStep

\* ... and what the SDK's calls come back with.
CallReturns ==
    \/ Connected \/ ConnectFails \/ QuerySent \/ QueryFails \/ ClientClosed
    \/ Interrupted \/ InterruptFails \/ HungUp \/ HangupFails

ActorNext ==
    \/ \E c \in Commands : Enqueue(c)
    \/ ActorStep \/ CallReturns \/ MessageArrives \/ Cancelled

ActorSpec == ActorInit /\ [][ActorNext]_actorVars

\* The event loop runs every task that can run, and the SDK's calls return.
\* Nothing is assumed of the stream: a model may think for ever.
FairActorSpec ==
    /\ ActorSpec
    /\ WF_actorVars(GetCommand) /\ WF_actorVars(CommandArrives)
    /\ WF_actorVars(StreamEnds \/ StreamFails \/ DriveStep)
    /\ WF_actorVars(CallReturns)
-----------------------------------------------------------------------------
(* Properties of the actor. *)

\* When the actor has ended, every command has its answer, save one: the command
\* cmd_task had taken from the queue when the drive was abandoned, which neither
\* _drive_query nor _drain_pending_commands looks at.
AnsweredUnlessTaken ==
    pc = "ended" => asked \subseteq done \union Taken

\* Who waits for sent is never left behind by an answer: complete() is there
\* because "only set done, forgot sent" was a recurring mistake.
DoneReleasesSent == done \subseteq sent

\* The SDK never has two queries to work on: a query that arrives during a drive
\* waits for its end ("drain before new query").
OneQueryAtATime == \A p, q \in accepted \ done : p = q

\* What a caller was told stays true: a query that ended well is not reported as
\* failed afterwards by an exception of its own drive, nor by the final drain.
AnswerIsFinal ==
    [][\A c \in done : c \in failed' <=> c \in failed]_actorVars

\* Interrupts and disconnects are answered however long the stream is silent, and
\* however long it goes on: ADR 0028, "an interrupt need not wait for the stream".
ControlIsAnswered ==
    \A c \in Commands : KindOf[c] # "query" =>
        (c \in asked ~> c \in done \/ (pc = "ended" /\ cmdTask = c))

\* "Both a normal and an exceptional exit drain the remaining commands, so that
\* no caller hangs" (comment of _run).
NoCallerHangs == pc = "ended" => asked \subseteq done
=============================================================================
