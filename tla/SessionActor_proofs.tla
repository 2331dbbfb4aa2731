-------------------------- MODULE SessionActor_proofs --------------------------
(***************************************************************************)
(* What is proved of the session actor for any set of commands, in any     *)
(* order, with any call of the SDK failing and a cancellation at any await. *)
(***************************************************************************)
EXTENDS SessionActor, Integers, TLAPS

\* A command is in the queue at most once.
Unique == \A i, j \in DOMAIN queue : queue[i] = queue[j] => i = j

\* Types that are enough for the rest.
Typed ==
    /\ pc \in Awaits \union {"ended"}
    /\ queue \in Seq(Commands)
    /\ current \in Commands \union {Nothing}
    /\ pending \in Commands \union {Nothing}
    /\ msgTask \in {"waiting", "message", "end", "error"}
    /\ cmdTask \in Commands \union {"waiting", Nothing}
    /\ {asked, accepted, sent, done, failed} \subseteq SUBSET Commands

\* At which await the actor holds which command.
Holding ==
    /\ current # Nothing <=> (pc = "query" \/ Driving)
    /\ pending # Nothing => Driving
    /\ pc \in {"connect", "get", "query"} => cmdTask = Nothing
    /\ pc \in {"interrupt", "hangup"} => cmdTask \in Commands
    /\ pc = "ended" => queue = <<>>

Held == Some(current) \union Some(pending) \union Taken

\* A command that was asked has its answer, is in the queue or is held...
Accounted ==
    /\ asked = done \union InQueue \union Held
    /\ accepted \subseteq sent
    /\ done \subseteq sent
    /\ accepted \subseteq done \union (IF Driving THEN {current} ELSE {})
    /\ Driving => current \in accepted

\* ... and only one of these, while it can still be answered.
OnePlace ==
    /\ Unique
    /\ InQueue \cap (done \union Held) = {}
    /\ current \notin done /\ pending \notin done
    /\ current = pending => current = Nothing
    /\ Taken \cap {current, pending} = {}
    /\ pc \notin {"close", "ended"} => Taken \cap done = {}

\* The inductive invariant of the actor.
ActorInv == Typed /\ Holding /\ Accounted /\ OnePlace

-----------------------------------------------------------------------------
(* The queue as a set. *)

LEMMA QueueGets ==
    ASSUME Typed, NEW c \in Commands, queue' = Append(queue, c)
    PROVE  /\ queue' \in Seq(Commands)
           /\ InQueue' = InQueue \union {c}
           /\ Unique /\ c \notin InQueue => Unique'
<1>1. queue \in Seq(Commands) /\ Len(queue) \in Nat
  BY DEF Typed
<1>2. /\ DOMAIN queue = 1 .. Len(queue)
      /\ DOMAIN queue' = 1 .. Len(queue) + 1
      /\ \A i \in DOMAIN queue : queue'[i] = queue[i]
      /\ queue'[Len(queue) + 1] = c
  BY <1>1
<1>3. InQueue' = InQueue \union {c}
  BY <1>1, <1>2 DEF InQueue
<1>4. Unique /\ c \notin InQueue => Unique'
  BY <1>1, <1>2 DEF Unique, InQueue
<1> QED
  BY <1>1, <1>3, <1>4

LEMMA QueueGives ==
    ASSUME Typed, queue # <<>>, queue' = Tail(queue)
    PROVE  /\ queue' \in Seq(Commands)
           /\ Head(queue) \in Commands
           /\ InQueue = InQueue' \union {Head(queue)}
           /\ Unique => Unique' /\ Head(queue) \notin InQueue'
<1>1. queue \in Seq(Commands) /\ Len(queue) \in Nat /\ Len(queue) > 0
  BY DEF Typed
<1>2. /\ DOMAIN queue = 1 .. Len(queue)
      /\ DOMAIN queue' = 1 .. Len(queue) - 1
      /\ \A i \in DOMAIN queue' : i + 1 \in DOMAIN queue /\ queue'[i] = queue[i + 1]
      /\ Head(queue) = queue[1]
  BY <1>1
<1>3. InQueue = InQueue' \union {Head(queue)}
  <2>1. \A i \in DOMAIN queue : i = 1 \/ (i - 1 \in DOMAIN queue' /\ queue[i] = queue'[i - 1])
    BY <1>1, <1>2
  <2>2. ASSUME NEW i \in DOMAIN queue
        PROVE  queue[i] \in InQueue' \union {Head(queue)}
    <3>1. CASE i = 1
      BY <1>2, <3>1
    <3>2. CASE i - 1 \in DOMAIN queue' /\ queue[i] = queue'[i - 1]
      BY <3>2 DEF InQueue
    <3> QED
      BY <2>1, <3>1, <3>2
  <2>3. InQueue' \union {Head(queue)} \subseteq InQueue
    BY <1>1, <1>2 DEF InQueue
  <2> QED
    BY <2>2, <2>3 DEF InQueue
<1>4. Unique => Unique' /\ Head(queue) \notin InQueue'
  BY <1>1, <1>2 DEF Unique, InQueue
<1> QED
  BY <1>1, <1>2, <1>3, <1>4

LEMMA QueueEmpty ==
    ASSUME queue' = <<>>
    PROVE  queue' \in Seq(Commands) /\ InQueue' = {} /\ Unique'
  BY DEF InQueue, Unique

LEMMA QueueSame ==
    ASSUME queue' = queue
    PROVE  InQueue' = InQueue /\ (Unique => Unique')
  BY DEF InQueue, Unique

-----------------------------------------------------------------------------
(* The steps that several actions share. *)

\* The final drain refuses what is still in the queue.
LEMMA DrainInv ==
    ASSUME ActorInv, Drain, pc \in {"connect", "close"}
    PROVE  ActorInv'
<1> USE DEF ActorInv
<1>1. queue' \in Seq(Commands) /\ InQueue' = {} /\ Unique'
  BY QueueEmpty DEF Drain
<1>2. InQueue \subseteq asked
  BY DEF Accounted
<1>3. Held' = Held /\ Taken' = Taken
  BY DEF Drain, drive, Held, Taken, Some
<1>4. Typed'
  BY <1>1, <1>2 DEF Typed, Drain, drive, Complete, Awaits
<1>5. Holding'
  BY DEF Holding, Drain, drive, Driving
<1>6. Accounted'
  BY <1>1, <1>3 DEF Accounted, Drain, Complete, Driving, drive
<1>7. OnePlace'
  <2>1. current = Nothing /\ pending = Nothing
    BY DEF Holding, Driving
  <2> QED
    BY <1>1, <1>4, <2>1, ActorAssumption DEF OnePlace, Drain, drive, Taken, Some, Typed
<1> QED
  BY <1>4, <1>5, <1>6, <1>7

\* An exception, or a cancellation, at any await of the loop or of a drive.
LEMMA AbandonInv ==
    ASSUME ActorInv, NEW ok \in SUBSET Taken, Abandon(ok),
           pc \in {"get", "query", "wait", "interrupt", "hangup"}
    PROVE  ActorInv'
<1> USE DEF ActorInv
<1>1. InQueue' = InQueue /\ Unique'
  BY QueueSame DEF Abandon, OnePlace
<1>2. ok \subseteq Commands
  BY DEF Taken, Some, Typed
<1>3. Taken' = Taken
  BY ActorAssumption DEF Taken, Some, Abandon
<1>4. done' = done \union ok \union Some(current) \union Some(pending)
  BY DEF Abandon, Complete
<1>5. Held' = Taken
  BY <1>3 DEF Abandon, Held, Some
<1>6. done' \union Held' = done \union Held
  BY <1>4, <1>5 DEF Held
<1>7. Typed'
  BY <1>2 DEF Typed, Abandon, Complete, Awaits, Some
<1>8. Holding'
  BY DEF Holding, Abandon, Driving
<1>9. Accounted'
  <2>1. asked' = asked /\ accepted' = accepted /\ sent' = sent \union ok
                 \union ((Some(current) \union Some(pending)) \ ok)
    BY DEF Abandon, Complete
  <2>2. asked' = done' \union InQueue' \union Held'
    BY <1>1, <1>6, <2>1 DEF Accounted
  <2>3. accepted' \subseteq sent' /\ done' \subseteq sent'
    BY <1>4, <2>1 DEF Accounted
  <2>4. Driving => current \in Some(current)
    BY DEF Holding, Some
  <2>5. accepted' \subseteq done' /\ ~ Driving'
    BY <1>4, <2>1, <2>4 DEF Accounted, Abandon, Driving
  <2> QED
    BY <2>2, <2>3, <2>5 DEF Accounted
<1>10. OnePlace'
  <2>1. Nothing \notin done' /\ Nothing \notin Taken'
    BY <1>3, <1>7, ActorAssumption DEF Typed, Taken, Some
  <2>2. current' = Nothing /\ pending' = Nothing /\ pc' = "close"
    BY DEF Abandon
  <2>3. InQueue' \cap (done' \union Held') = {}
    BY <1>1, <1>6 DEF OnePlace
  <2> QED
    BY <1>1, <2>1, <2>2, <2>3 DEF OnePlace
<1> QED
  BY <1>7, <1>8, <1>9, <1>10

-----------------------------------------------------------------------------
(* The callers and the command loop. *)

LEMMA EnqueueInv ==
    ASSUME ActorInv, NEW c \in Commands, Enqueue(c)
    PROVE  ActorInv'
<1> USE DEF ActorInv
<1>1. Taken' = Taken /\ Held' = Held /\ UNCHANGED drive
  BY DEF Enqueue, drive, Held, Taken, Some
<1>2. c \notin done /\ c \notin InQueue /\ c \notin Held
  BY DEF Enqueue, Accounted
<1>3. CASE pc = "ended"
  <2>1. InQueue' = InQueue /\ Unique'
    BY <1>3, QueueSame DEF Enqueue, OnePlace
  <2>2. Complete({}, {c}) /\ UNCHANGED <<queue, pc>> /\ asked' = asked \union {c}
    BY <1>3 DEF Enqueue
  <2>3. Typed'
    BY <1>1, <2>2 DEF Typed, Complete, drive
  <2>4. Holding'
    BY <1>1, <2>2 DEF Holding, Driving, drive
  <2>5. Accounted'
    BY <1>1, <2>1, <2>2 DEF Accounted, Complete, Driving, drive
  <2>6. OnePlace'
    <3>1. InQueue = {}
      BY <1>3 DEF Holding, InQueue
    <3>2. current = Nothing /\ pending = Nothing
      BY <1>3 DEF Holding, Driving
    <3> QED
      BY <1>1, <1>3, <2>1, <2>2, <2>3, <3>1, <3>2, ActorAssumption
         DEF OnePlace, drive, Taken, Some, Typed
  <2> QED
    BY <2>3, <2>4, <2>5, <2>6
<1>4. CASE pc # "ended"
  <2>1. queue' = Append(queue, c) /\ UNCHANGED <<answers, pc>> /\ asked' = asked \union {c}
    BY <1>4 DEF Enqueue
  <2>2. queue' \in Seq(Commands) /\ InQueue' = InQueue \union {c} /\ Unique'
    BY <1>2, <2>1, QueueGets DEF OnePlace
  <2>3. Typed'
    BY <1>1, <2>1, <2>2 DEF Typed, answers, drive
  <2>4. Holding'
    BY <1>1, <1>4, <2>1 DEF Holding, Driving, drive
  <2>5. Accounted'
    BY <1>1, <2>1, <2>2 DEF Accounted, answers, Driving, drive
  <2>6. OnePlace'
    BY <1>1, <1>2, <2>1, <2>2 DEF OnePlace, answers, drive
  <2> QED
    BY <2>3, <2>4, <2>5, <2>6
<1> QED
  BY <1>3, <1>4

\* What the body of the command loop does with one command: a query is sent next,
\* anything else is answered at once.
LEMMA HandleEffect ==
    ASSUME NEW c \in Commands, NEW ok, NEW refused, Handle(c, ok, refused)
    PROVE  /\ \/ /\ pc' = "query" /\ current' = c
                 /\ done' = done \union ok \union refused
                 /\ sent' = sent \union ok \union refused
              \/ /\ pc' \in {"get", "close"} /\ current' = Nothing
                 /\ done' = done \union ok \union refused \union {c}
                 /\ sent' = sent \union ok \union refused \union {c}
           /\ failed' = failed \union refused
           /\ accepted' = accepted
<1>1. CASE KindOf[c] = "query"
  BY <1>1 DEF Handle, Complete
<1>2. CASE KindOf[c] \in {"interrupt", "disconnect"}
  <2>1. pc' \in {"get", "close"} /\ current' = Nothing
    BY <1>2 DEF Handle
  <2> QED
    BY <1>2, <2>1 DEF Handle, Complete
<1> QED
  BY <1>1, <1>2, ActorAssumption

\* A step that answers the query of the drive, if there is one, and returns to the
\* command loop or to the query after it, keeps the invariant if each command is
\* still in one place.
LEMMA LoopInv ==
    ASSUME ActorInv, Typed',
           pc' \in {"get", "query", "close"}, pending' = Nothing,
           current' # Nothing <=> pc' = "query",
           pc' # "close" => cmdTask' = Nothing,
           UNCHANGED <<asked, accepted>>,
           Some(current) \subseteq done' \/ ~ Driving,
           done \subseteq done', done' \subseteq sent', sent \subseteq sent',
           Unique',
           done' \union InQueue' \union Some(current)' \union Taken'
              = done \union InQueue \union Held,
           InQueue' \cap (done' \union Some(current)' \union Taken') = {},
           current' \notin done',
           current' \notin Taken'
    PROVE  ActorInv'
<1> USE DEF ActorInv
<1>1. Held' = Some(current)' \union Taken'
  BY DEF Held, Some
<1>2. Holding'
  BY DEF Holding, Driving
<1>3. Accounted'
  <2>1. accepted' \subseteq done'
    BY DEF Accounted, Holding, Some
  <2>2. asked' = done' \union InQueue' \union Held'
    BY <1>1 DEF Accounted
  <2>3. accepted' \subseteq sent'
    BY DEF Accounted
  <2> QED
    BY <2>1, <2>2, <2>3 DEF Accounted, Driving
<1>4. Nothing \notin done' /\ Nothing \notin Taken'
  BY ActorAssumption DEF Typed, Taken, Some
<1>5. pc' # "close" => Taken' = {}
  BY DEF Taken, Some
<1>6. OnePlace'
  BY <1>1, <1>4, <1>5 DEF OnePlace
<1> QED
  BY <1>2, <1>3, <1>6

LEMMA GetCommandInv ==
    ASSUME ActorInv, GetCommand
    PROVE  ActorInv'
<1> USE DEF ActorInv
<1> DEFINE c == Head(queue)
<1>1. /\ pc = "get" /\ queue # <<>> /\ queue' = Tail(queue)
      /\ Handle(c, {}, {}) /\ UNCHANGED <<pending, msgTask, cmdTask, asked>>
  BY DEF GetCommand
<1>2. /\ queue' \in Seq(Commands) /\ c \in Commands
      /\ InQueue = InQueue' \union {c} /\ Unique' /\ c \notin InQueue'
  BY <1>1, QueueGives DEF OnePlace
<1>3. current = Nothing /\ pending = Nothing /\ cmdTask = Nothing
  BY <1>1 DEF Holding, Driving
<1> HIDE DEF c
<1>4. /\ \/ pc' = "query" /\ current' = c /\ done' = done /\ sent' = sent
         \/ /\ pc' \in {"get", "close"} /\ current' = Nothing
            /\ done' = done \union {c} /\ sent' = sent \union {c}
      /\ failed' = failed /\ accepted' = accepted
  <2>1. /\ \/ /\ pc' = "query" /\ current' = c
              /\ done' = done \union {} \union {}
              /\ sent' = sent \union {} \union {}
           \/ /\ pc' \in {"get", "close"} /\ current' = Nothing
              /\ done' = done \union {} \union {} \union {c}
              /\ sent' = sent \union {} \union {} \union {c}
        /\ failed' = failed \union {}
        /\ accepted' = accepted
    BY <1>1, <1>2, HandleEffect
  <2> QED
    BY <2>1
<1>5. Taken = {} /\ Taken' = {} /\ Held = {}
  BY <1>1, <1>3 DEF Taken, Some, Held
<1>6. Typed'
  BY <1>1, <1>2, <1>4 DEF Typed, Awaits
<1>7. c \notin done /\ c # Nothing
  BY <1>2, ActorAssumption DEF OnePlace
<1>8. Nothing \notin done
  BY ActorAssumption DEF Typed
<1>9. /\ done \subseteq done' /\ done' \subseteq sent' /\ sent \subseteq sent'
      /\ done' \union InQueue' \union Some(current)' = done \union InQueue
      /\ InQueue' \cap (done' \union Some(current)') = {}
      /\ current' \notin done'
      /\ current' # Nothing <=> pc' = "query"
  BY <1>2, <1>4, <1>7, <1>8 DEF Some, Accounted, OnePlace
<1> QED
  BY <1>1, <1>2, <1>3, <1>4, <1>5, <1>6, <1>9, LoopInv DEF Driving

\* client.query has returned.
LEMMA QuerySentInv ==
    ASSUME ActorInv, QuerySent
    PROVE  ActorInv'
<1> USE DEF ActorInv
<1>1. InQueue' = InQueue /\ Unique'
  BY QueueSame DEF QuerySent, OnePlace
<1>2. current # Nothing /\ pending = Nothing /\ cmdTask = Nothing /\ current \in Commands
  BY DEF QuerySent, Holding, Driving, Typed
<1>3. Taken = {} /\ Taken' = {} /\ Held = {current} /\ Held' = {current}
  BY <1>2, ActorAssumption DEF QuerySent, Taken, Held, Some
<1>4. Typed'
  BY <1>2 DEF Typed, QuerySent, Awaits
<1>5. Holding'
  BY <1>2 DEF Holding, QuerySent, Driving
<1>6. Accounted'
  BY <1>1, <1>3 DEF Accounted, QuerySent, Driving
<1>7. OnePlace'
  BY <1>1, <1>2, <1>3 DEF OnePlace, QuerySent
<1> QED
  BY <1>4, <1>5, <1>6, <1>7

LEMMA ConnectedInv ==
    ASSUME ActorInv, Connected
    PROVE  ActorInv'
<1> USE DEF ActorInv
<1>1. InQueue' = InQueue /\ Unique'
  BY QueueSame DEF Connected, OnePlace
<1>2. Taken' = Taken /\ Held' = Held
  BY DEF Connected, drive, Taken, Held, Some
<1> USE DEF Connected, drive, answers
<1>3. Typed' /\ Holding'
  BY DEF Typed, Holding, Awaits, Driving
<1>4. Accounted'
  BY <1>1, <1>2 DEF Accounted, Driving
<1>5. OnePlace'
  BY <1>1, <1>2 DEF OnePlace
<1> QED
  BY <1>3, <1>4, <1>5

-----------------------------------------------------------------------------
(* The drive. *)

\* The places of the commands during a drive.
LEMMA DrivePlaces ==
    ASSUME ActorInv, Driving
    PROVE  /\ current \in Commands /\ current # Nothing /\ current \in sent
           /\ InQueue \cap (done \union Some(pending) \union Taken) = {}
           /\ current \notin done \union Some(pending) \union Taken \union InQueue
           /\ pending \notin done \union Taken
           /\ Taken \cap done = {}
           /\ done \subseteq sent
           /\ Held = {current} \union Some(pending) \union Taken
           /\ Nothing \notin done \union InQueue \union Taken
<1> USE DEF ActorInv
<1>1. current # Nothing
  BY DEF Holding
<1>2. Nothing \notin asked
  BY ActorAssumption DEF Typed
<1> QED
  BY <1>1, <1>2 DEF Accounted, OnePlace, Held, Some, Driving, Typed

\* A step within a drive that leaves its query alone.
LEMMA DriveInv ==
    ASSUME ActorInv, Typed', Driving, Driving',
           UNCHANGED <<current, asked, accepted>>,
           pc' \in {"interrupt", "hangup"} => cmdTask' \in Commands,
           done \subseteq done', done' \subseteq sent', sent \subseteq sent',
           Unique',
           done' \union InQueue' \union Some(pending)' \union Taken'
              = done \union InQueue \union Some(pending) \union Taken,
           InQueue' \cap (done' \union Some(pending)' \union Taken') = {},
           current \notin done' \union Some(pending)' \union Taken' \union InQueue',
           pending' \notin done' \union Taken',
           Taken' \cap done' = {}
    PROVE  ActorInv'
<1> USE DEF ActorInv
<1>1. current # Nothing
  BY DEF Holding, Driving
<1>2. Holding'
  BY <1>1 DEF Holding, Driving
<1>3. /\ Held = {current} \union Some(pending) \union Taken
      /\ Held' = {current} \union Some(pending)' \union Taken'
  BY <1>1 DEF Held, Some
<1>4. Accounted'
  <2>1. asked' = done' \union InQueue' \union Held'
    BY <1>3 DEF Accounted
  <2> QED
    BY <2>1 DEF Accounted
<1>5. current = pending' => current = Nothing
  BY <1>1 DEF Some
<1>6. OnePlace'
  BY <1>3, <1>5 DEF OnePlace
<1> QED
  BY <1>2, <1>4, <1>6

LEMMA ArrivalInv ==
    ASSUME ActorInv, MessageArrives \/ CommandArrives
    PROVE  ActorInv'
<1> USE DEF ActorInv
<1>1. Driving /\ current # Nothing
  BY DEF MessageArrives, CommandArrives, Holding
<1>2. done \subseteq sent
  BY DEF Accounted
<1>3. CASE MessageArrives
  <2>1. InQueue' = InQueue /\ Unique' /\ Taken' = Taken /\ Some(pending)' = Some(pending)
    BY <1>3, QueueSame DEF MessageArrives, OnePlace, Taken, Some
  <2>2. Typed' /\ Driving' /\ UNCHANGED <<pc, current, pending, cmdTask, asked, answers>>
    BY <1>3 DEF MessageArrives, Typed, answers, Driving
  <2>3. /\ InQueue \cap (done \union Some(pending) \union Taken) = {}
        /\ current \notin done \union Some(pending) \union Taken \union InQueue
        /\ pending \notin done \union Taken
        /\ Taken \cap done = {}
    BY <1>1 DEF OnePlace, Held, Some, Driving
  <2> QED
    BY <1>1, <1>2, <2>1, <2>2, <2>3, DriveInv DEF answers, Holding
<1>4. CASE CommandArrives
  <2> DEFINE c == Head(queue)
  <2>1. /\ queue' \in Seq(Commands) /\ c \in Commands
        /\ InQueue = InQueue' \union {c} /\ Unique' /\ c \notin InQueue'
    BY <1>4, QueueGives DEF CommandArrives, OnePlace
  <2>2. /\ cmdTask = "waiting" /\ cmdTask' = c
        /\ UNCHANGED <<pc, current, pending, msgTask, asked, answers>>
    BY <1>4 DEF CommandArrives
  <2> HIDE DEF c
  <2>3. Taken = {} /\ Taken' = {c} /\ Some(pending)' = Some(pending) /\ c # Nothing
    BY <2>1, <2>2, ActorAssumption DEF Taken, Some
  <2>4. Typed' /\ Driving'
    BY <1>1, <2>1, <2>2 DEF Typed, answers, Driving
  <2>5. /\ InQueue \cap (done \union Some(pending)) = {}
        /\ current \notin done \union Some(pending) \union InQueue
        /\ pending \notin done
    BY <1>1 DEF OnePlace, Held, Some
  <2>6. c \in InQueue /\ c \notin done /\ c \notin Some(pending) /\ c # current
    BY <2>1, <2>5
  <2>7. pending # c
    BY <2>3, <2>6 DEF Some
  <2>8. /\ InQueue' \cap (done \union Some(pending) \union Taken') = {}
        /\ current \notin done \union Some(pending) \union Taken' \union InQueue'
        /\ pending \notin done \union Taken'
        /\ Taken' \cap done = {}
        /\ done \union InQueue' \union Some(pending) \union Taken'
             = done \union InQueue \union Some(pending) \union Taken
    BY <2>1, <2>3, <2>5, <2>6, <2>7
  <2> QED
    BY <1>1, <1>2, <2>1, <2>2, <2>3, <2>4, <2>8, DriveInv DEF answers, Holding
<1> QED
  BY <1>3, <1>4

\* A message is read; a command is taken up, kept for later, or refused.
LEMMA DriveStepInv ==
    ASSUME ActorInv, DriveStep
    PROVE  ActorInv'
<1> USE DEF ActorInv
<1>1. /\ pc = "wait" /\ Driving /\ msgTask' = "waiting"
      /\ InQueue' = InQueue /\ Unique' /\ UNCHANGED <<queue, asked>>
  BY QueueSame DEF DriveStep, OnePlace, Driving
<1>2. /\ current # Nothing
      /\ InQueue \cap (done \union Some(pending) \union Taken) = {}
      /\ current \notin done \union Some(pending) \union Taken \union InQueue
      /\ pending \notin done \union Taken
      /\ Taken \cap done = {}
      /\ done \subseteq sent
      /\ Nothing \notin done \union InQueue \union Taken
  BY <1>1, DrivePlaces
<1>3. CASE UNCHANGED <<pending, cmdTask, current, answers>> /\ Driving'
           /\ (pc' = pc \/ Taken # {})
  <2>1. Taken' = Taken /\ Some(pending)' = Some(pending)
    BY <1>3 DEF Taken, Some
  <2>2. Typed'
    BY <1>1, <1>3 DEF Typed, answers, Driving, Awaits
  <2>3. pc' \in {"interrupt", "hangup"} => cmdTask' \in Commands
    BY <1>1, <1>3 DEF Taken, Some, Typed
  <2> QED
    BY <1>1, <1>2, <1>3, <2>1, <2>2, <2>3, DriveInv DEF answers
<1>4. CASE Stash /\ Taken # {}
  <2>1. cmdTask \in Commands /\ Taken = {cmdTask} /\ cmdTask # Nothing
    BY <1>4, ActorAssumption DEF Taken, Some, Typed
  <2>2. Taken' = {} /\ UNCHANGED <<pc, current>> /\ cmdTask' = "waiting"
    BY <1>4 DEF Stash, Taken, Some
  <2>3. CASE pending = Nothing
    <3>1. pending' = cmdTask /\ UNCHANGED answers
      BY <1>4, <2>3 DEF Stash
    <3>2. Some(pending)' = {cmdTask} /\ Some(pending) = {}
      BY <2>1, <2>3, <3>1 DEF Some
    <3>3. Typed'
      BY <1>1, <2>1, <2>2, <3>1 DEF Typed, answers
    <3> QED
      BY <1>1, <1>2, <2>1, <2>2, <3>1, <3>2, <3>3, DriveInv DEF answers, Driving
  <2>4. CASE pending # Nothing
    <3>1. pending' = pending /\ Complete({}, {cmdTask})
      BY <1>4, <2>4 DEF Stash
    <3>2. /\ Some(pending)' = Some(pending) /\ Some(pending) = {pending}
          /\ done' = done \union {cmdTask} /\ sent' = sent \union {cmdTask}
          /\ failed' = failed \union {cmdTask} /\ accepted' = accepted
      BY <2>4, <3>1 DEF Some, Complete
    <3>3. Typed'
      BY <1>1, <2>1, <2>2, <3>1, <3>2 DEF Typed
    <3> QED
      BY <1>1, <1>2, <2>1, <2>2, <3>1, <3>2, <3>3, DriveInv DEF Driving
  <2> QED
    BY <2>3, <2>4
<1> QED
  BY <1>1, <1>3, <1>4 DEF DriveStep, Interrupt, Hangup, Driving

LEMMA InterruptedInv ==
    ASSUME ActorInv, Interrupted
    PROVE  ActorInv'
<1> USE DEF ActorInv
<1>1. /\ Driving /\ Driving' /\ pc' = "wait" /\ cmdTask' = "waiting"
      /\ cmdTask \in Commands
      /\ InQueue' = InQueue /\ Unique' /\ UNCHANGED <<queue, current, pending, msgTask, asked>>
  BY QueueSame DEF Interrupted, OnePlace, Driving, Holding
<1>2. /\ done' = done \union {cmdTask} /\ sent' = sent \union {cmdTask}
      /\ failed' = failed /\ accepted' = accepted
  BY DEF Interrupted, Complete
<1>3. Taken = {cmdTask} /\ Taken' = {} /\ Some(pending)' = Some(pending)
  BY <1>1, ActorAssumption DEF Taken, Some
<1>4. Typed'
  BY <1>1, <1>2 DEF Typed, Awaits
<1> QED
  BY <1>1, <1>2, <1>3, <1>4, DrivePlaces, DriveInv

\* The actor leaves the drive for the client's exit: every command it knows of is
\* answered.
LEMMA InterruptFailsInv ==
    ASSUME ActorInv, InterruptFails
    PROVE  ActorInv'
<1> USE DEF ActorInv
<1>1. /\ Driving /\ pc' = "close" /\ cmdTask \in Commands
      /\ current' = Nothing /\ pending' = Nothing
      /\ InQueue' = InQueue /\ Unique' /\ UNCHANGED <<queue, cmdTask, msgTask, asked>>
  BY QueueSame DEF InterruptFails, OnePlace, Driving, Holding
<1>2. /\ done' = done \union {cmdTask, current} \union Some(pending)
      /\ sent' = sent \union {cmdTask, current} \union Some(pending)
      /\ failed' = failed \union {cmdTask, current} \union Some(pending)
      /\ accepted' = accepted
  BY DEF InterruptFails, Complete
<1>3. Taken = {cmdTask} /\ Taken' = {cmdTask} /\ Some(current)' = {}
  BY <1>1, ActorAssumption DEF Taken, Some
<1>4. /\ current \in Commands /\ current # Nothing /\ Some(current) = {current}
      /\ Some(pending) \subseteq Commands
  BY <1>1, DrivePlaces DEF Some, Typed
<1>5. Typed'
  BY <1>1, <1>2, <1>4 DEF Typed, Awaits
<1>6. InQueue' \cap (done' \union Taken') = {} /\ Nothing \notin done' \union Taken'
  BY <1>1, <1>2, <1>3, DrivePlaces DEF Some
<1>7. done' \union InQueue' \union Taken' = done \union InQueue \union Held
  BY <1>1, <1>2, <1>3, DrivePlaces
<1>8. done \subseteq done' /\ done' \subseteq sent' /\ sent \subseteq sent'
  BY <1>1, <1>2, DrivePlaces
<1> QED
  BY <1>1, <1>2, <1>3, <1>4, <1>5, <1>6, <1>7, <1>8, LoopInv

\* The drive ends and the body of the command loop has the next command: a taken
\* disconnect, the pending query, or whatever cmd_task had taken.
LEMMA NextCommandInv ==
    ASSUME ActorInv, Driving,
           NEW c \in Some(pending) \union Taken,
           NEW refused \in SUBSET Some(pending), c \notin refused,
           Handle(c, {current}, refused),
           Some(pending) \subseteq {c} \union refused,
           cmdTask' = Nothing, pending' = Nothing, UNCHANGED <<msgTask, asked>>,
           queue' \in Seq(Commands), Unique', InQueue' = InQueue \union (Taken \ {c})
    PROVE  ActorInv'
<1> USE DEF ActorInv
<1>1. c \in Commands /\ Some(pending) \subseteq Commands /\ Taken \subseteq Commands
  BY DEF Some, Taken, Typed
<1>2. /\ \/ /\ pc' = "query" /\ current' = c
            /\ done' = done \union {current} \union refused
            /\ sent' = sent \union {current} \union refused
         \/ /\ pc' \in {"get", "close"} /\ current' = Nothing
            /\ done' = done \union {current} \union refused \union {c}
            /\ sent' = sent \union {current} \union refused \union {c}
      /\ failed' = failed \union refused
      /\ accepted' = accepted
  BY <1>1, HandleEffect
<1>3. /\ current \in Commands /\ current # Nothing /\ Some(current) = {current}
      /\ InQueue \cap (done \union Some(pending) \union Taken) = {}
      /\ current \notin done \union Some(pending) \union Taken \union InQueue
      /\ Some(pending) \cap (done \union Taken) = {}
      /\ Taken \cap done = {}
      /\ done \subseteq sent
      /\ Held = {current} \union Some(pending) \union Taken
      /\ Nothing \notin done \union InQueue \union Taken \union Some(pending)
  BY DrivePlaces DEF Some
<1>4. Taken' = {}
  BY DEF Taken, Some
<1>5. Typed'
  BY <1>1, <1>2, <1>3 DEF Typed, Awaits
<1>6. c # Nothing /\ c \notin done /\ c # current /\ c \notin InQueue
  BY <1>3
<1>7. Some(current)' = {current'} \ {Nothing}
  BY DEF Some
<1>8. InQueue' \cap (done' \union Some(current)') = {}
  <2>1. refused \cap (Taken \ {c}) = {}
    BY <1>3
  <2>2. InQueue' \cap (done \union {current, c} \union refused) = {}
    BY <1>3, <1>6, <2>1
  <2> QED
    BY <1>2, <1>7, <2>2
<1>9. done' \union Some(current)' = done \union {current, c} \union refused
  BY <1>2, <1>6, <1>7
<1>10. done' \union InQueue' \union Some(current)' = done \union InQueue \union Held
  <2>1. Some(pending) \union Taken = {c} \union refused \union (Taken \ {c})
    OBVIOUS
  <2> QED
    BY <1>3, <1>9, <2>1
<1>11. current' \notin done'
  BY <1>2, <1>3, <1>6
<1>12. done \subseteq done' /\ done' \subseteq sent' /\ sent \subseteq sent'
       /\ Some(current) \subseteq done' /\ (current' # Nothing <=> pc' = "query")
  BY <1>2, <1>3, <1>6
<1> QED
  BY <1>2, <1>4, <1>5, <1>8, <1>10, <1>11, <1>12, LoopInv

LEMMA HungUpInv ==
    ASSUME ActorInv, HungUp
    PROVE  ActorInv'
<1> USE DEF ActorInv
<1>1. /\ Driving /\ cmdTask \in Commands /\ UNCHANGED <<queue, msgTask, asked>>
      /\ Handle(cmdTask, {current}, Some(pending)) /\ cmdTask' = Nothing /\ pending' = Nothing
  BY DEF HungUp, Driving, Holding
<1>2. Taken = {cmdTask}
  BY <1>1, ActorAssumption DEF Taken, Some
<1>3. InQueue' = InQueue \union (Taken \ {cmdTask}) /\ Unique' /\ queue' \in Seq(Commands)
  BY <1>1, <1>2, QueueSame DEF OnePlace, Typed
<1>4. cmdTask \notin Some(pending)
  BY <1>1, <1>2, DrivePlaces DEF Some
<1> QED
  BY <1>1, <1>2, <1>3, <1>4, NextCommandInv

LEMMA StreamEndsInv ==
    ASSUME ActorInv, StreamEnds
    PROVE  ActorInv'
<1> USE DEF ActorInv
<1>1. /\ Driving /\ cmdTask' = Nothing /\ pending' = Nothing /\ UNCHANGED <<msgTask, asked>>
      /\ pc = "wait"
  BY DEF StreamEnds, Driving
<1>2. CASE pending # Nothing
  <2>1. queue' = PutBack /\ Handle(pending, {current}, {})
    BY <1>2 DEF StreamEnds
  <2>2. Some(pending) = {pending} /\ pending \notin Taken
    BY <1>1, <1>2, DrivePlaces DEF Some
  <2>3. InQueue' = InQueue \union Taken /\ Unique' /\ queue' \in Seq(Commands)
    <3>1. CASE Taken = {}
      BY <2>1, <3>1, QueueSame DEF PutBack, OnePlace, Typed
    <3>2. CASE Taken # {}
      <4>1. cmdTask \in Commands /\ Taken = {cmdTask} /\ cmdTask \notin InQueue
        BY <1>1, <3>2, DrivePlaces DEF Taken, Some, Typed
      <4>2. queue' = Append(queue, cmdTask)
        BY <2>1, <3>2 DEF PutBack
      <4> QED
        BY <4>1, <4>2, QueueGets DEF OnePlace
    <3> QED
      BY <3>1, <3>2
  <2>4. InQueue' = InQueue \union (Taken \ {pending})
    BY <2>2, <2>3
  <2> QED
    BY <1>1, <2>1, <2>2, <2>3, <2>4, NextCommandInv
<1>3. CASE pending = Nothing /\ Taken # {}
  <2>1. queue' = queue /\ Handle(cmdTask, {current}, {})
    BY <1>3 DEF StreamEnds
  <2>2. Some(pending) = {} /\ Taken = {cmdTask}
    BY <1>3 DEF Some, Taken
  <2>3. InQueue' = InQueue \union (Taken \ {cmdTask}) /\ Unique' /\ queue' \in Seq(Commands)
    BY <2>1, <2>2, QueueSame DEF OnePlace, Typed
  <2> QED
    BY <1>1, <2>1, <2>2, <2>3, NextCommandInv
<1>4. CASE pending = Nothing /\ Taken = {}
  <2>1. /\ queue' = queue /\ pc' = "get" /\ current' = Nothing
        /\ done' = done \union {current} /\ UNCHANGED <<accepted, sent, failed>>
    BY <1>4 DEF StreamEnds
  <2>2. /\ current \in Commands /\ current # Nothing /\ current \in sent
        /\ current \notin InQueue /\ done \subseteq sent /\ InQueue \cap done = {}
        /\ Held = {current} /\ Nothing \notin done
    BY <1>1, <1>4, DrivePlaces DEF Some
  <2>3. InQueue' = InQueue /\ Unique'
    BY <2>1, QueueSame DEF OnePlace
  <2>4. Taken' = {} /\ Some(current)' = {} /\ Some(current) = {current}
    BY <1>1, <2>1, <2>2 DEF Taken, Some
  <2>5. Typed'
    BY <1>1, <2>1, <2>2 DEF Typed, Awaits
  <2> QED
    BY <1>1, <2>1, <2>2, <2>3, <2>4, <2>5, LoopInv
<1> QED
  BY <1>2, <1>3, <1>4

-----------------------------------------------------------------------------
(* The invariant is inductive. *)

LEMMA ActorInitInv == ActorInit => ActorInv
<1> SUFFICES ASSUME ActorInit PROVE ActorInv
  OBVIOUS
<1> USE DEF ActorInit
<1>1. InQueue = {} /\ Unique
  BY DEF InQueue, Unique
<1>2. Taken = {} /\ Held = {}
  BY DEF Taken, Held, Some
<1>3. Typed /\ Holding
  BY DEF Typed, Holding, Awaits, Driving
<1>4. Accounted /\ OnePlace
  BY <1>1, <1>2, ActorAssumption DEF Accounted, OnePlace, Driving
<1> QED
  BY <1>3, <1>4 DEF ActorInv

LEMMA CancelledInv ==
    ASSUME ActorInv, Cancelled
    PROVE  ActorInv'
<1>1. CASE pc \in {"connect", "close"} /\ Drain
  BY <1>1, DrainInv
<1>2. CASE pc \in {"get", "query", "wait", "hangup"} /\ Abandon({})
  BY <1>2, AbandonInv
<1>3. CASE pc = "interrupt" /\ Abandon({cmdTask})
  <2>1. {cmdTask} \in SUBSET Taken
    BY <1>3, ActorAssumption DEF ActorInv, Holding, Taken, Some
  <2> QED
    BY <1>3, <2>1, AbandonInv
<1> QED
  BY <1>1, <1>2, <1>3 DEF Cancelled

LEMMA ActorStutter == ActorInv /\ UNCHANGED actorVars => ActorInv'
<1> SUFFICES ASSUME ActorInv, UNCHANGED actorVars PROVE ActorInv'
  OBVIOUS
<1> USE DEF ActorInv, actorVars, drive, answers
<1>1. InQueue' = InQueue /\ (Unique => Unique')
  BY QueueSame
<1>2. Taken' = Taken /\ Held' = Held
  BY DEF Taken, Held, Some
<1>3. Typed' /\ Holding'
  BY DEF Typed, Holding, Driving
<1>4. Accounted' /\ OnePlace'
  BY <1>1, <1>2 DEF Accounted, OnePlace, Driving
<1> QED
  BY <1>3, <1>4

LEMMA ActorNextInv == ActorInv /\ [ActorNext]_actorVars => ActorInv'
<1> SUFFICES ASSUME ActorInv, [ActorNext]_actorVars PROVE ActorInv'
  OBVIOUS
<1>1. CASE \E c \in Commands : Enqueue(c)
  BY <1>1, EnqueueInv
<1>2. CASE ActorStep
  <2>1. CASE StreamFails
    BY <2>1, AbandonInv DEF StreamFails
  <2> QED
    BY <1>2, <2>1, GetCommandInv, ArrivalInv, StreamEndsInv, DriveStepInv DEF ActorStep
<1>3. CASE CallReturns
  <2>1. CASE ConnectFails \/ ClientClosed
    BY <2>1, DrainInv DEF ConnectFails, ClientClosed
  <2>2. CASE QueryFails \/ HangupFails
    BY <2>2, AbandonInv DEF QueryFails, HangupFails
  <2> QED
    BY <1>3, <2>1, <2>2, ConnectedInv, QuerySentInv, InterruptedInv, InterruptFailsInv,
       HungUpInv DEF CallReturns
<1>4. CASE MessageArrives
  BY <1>4, ArrivalInv
<1>5. CASE Cancelled
  BY <1>5, CancelledInv
<1>6. CASE UNCHANGED actorVars
  BY <1>6, ActorStutter
<1> QED
  BY <1>1, <1>2, <1>3, <1>4, <1>5, <1>6 DEF ActorNext

\* Every command has one place, whatever arrives in whatever order.
THEOREM ActorCorrect == ActorSpec => []ActorInv
  BY ActorInitInv, ActorNextInv, PTL DEF ActorSpec

-----------------------------------------------------------------------------
(* The theorems: safety. *)

\* The actor's variables keep their types; only asked commands are queued.
THEOREM ActorTypeCorrect == ActorSpec => []ActorTypeOK
<1>1. ActorInv => ActorTypeOK
  <2> SUFFICES ASSUME ActorInv PROVE ActorTypeOK
    OBVIOUS
  <2>1. queue \in Seq(asked)
    <3>1. \A i \in 1 .. Len(queue) : queue[i] \in asked
      BY DEF ActorInv, Typed, Accounted, InQueue
    <3> QED
      BY <3>1 DEF ActorInv, Typed
  <2> QED
    BY <2>1 DEF ActorInv, Typed, ActorTypeOK
<1> QED
  BY <1>1, ActorCorrect, PTL

\* _run and _drive_query (session_actor.py): once the actor has ended nobody waits,
\* but for the caller whose command cmd_task had taken.
THEOREM EveryoneElseAnswered == ActorSpec => []AnsweredUnlessTaken
<1>1. ActorInv => AnsweredUnlessTaken
  BY DEF ActorInv, AnsweredUnlessTaken, Accounted, Holding, Held, Some, Driving, InQueue
<1> QED
  BY <1>1, ActorCorrect, PTL

\* The drive is left by an exception or a cancellation while cmd_task holds a command.
LeavesTaken ==
    /\ pc \in {"wait", "hangup"} /\ Taken # {}
    /\ StreamFails \/ HangupFails \/ Cancelled

AttentiveNext == ActorNext /\ ~ LeavesTaken

\* What cmd_task has taken when the actor is on its way out was answered.
TakenAnswered == pc \in {"close", "ended"} => Taken \subseteq done

LEMMA TakenAnsweredKept ==
    ASSUME ActorInv, TakenAnswered, [AttentiveNext]_actorVars
    PROVE  TakenAnswered'
<1> USE DEF ActorInv
<1>1. CASE \E c \in Commands : Enqueue(c)
  BY <1>1 DEF Enqueue, Complete, answers, drive, TakenAnswered, Taken, Some
<1>2. CASE Drain /\ pc \in {"connect", "close"}
  <2>1. Taken' = Taken /\ done \subseteq done'
    BY <1>2 DEF Drain, Complete, drive, Taken, Some
  <2>2. pc = "connect" => Taken = {}
    BY DEF Holding, Taken, Some
  <2> QED
    BY <1>2, <2>1, <2>2 DEF TakenAnswered
<1>3. ASSUME NEW ok \in SUBSET Taken, Abandon(ok), Taken \subseteq ok
      PROVE  TakenAnswered'
  BY <1>3, ActorAssumption DEF Abandon, Complete, TakenAnswered, Taken, Some
<1>4. ASSUME Abandon({}), pc \in {"get", "query"} \/ Taken = {}
      PROVE  TakenAnswered'
  <2>1. Taken = {}
    BY <1>4 DEF Holding, Taken, Some
  <2> QED
    BY <1>3, <1>4, <2>1
<1>5. ASSUME pc' \notin {"close", "ended"} \/ cmdTask' = Nothing
      PROVE  TakenAnswered'
  BY <1>5 DEF TakenAnswered, Taken, Some
<1>6. CASE InterruptFails
  BY <1>6 DEF InterruptFails, Complete, TakenAnswered, Taken, Some
<1>7. CASE GetCommand
  BY <1>5, <1>7 DEF GetCommand, Holding
<1>8. CASE StreamEnds \/ HungUp
  BY <1>5, <1>8 DEF StreamEnds, HungUp
<1>9. CASE DriveStep
  BY <1>5, <1>9 DEF DriveStep, Interrupt, Hangup, Stash
<1>10. CASE Connected \/ QuerySent \/ CommandArrives \/ MessageArrives \/ Interrupted
  BY <1>5, <1>10
     DEF Connected, QuerySent, CommandArrives, MessageArrives, Interrupted, Driving
<1>11. CASE UNCHANGED actorVars
  BY <1>11 DEF actorVars, drive, answers, TakenAnswered, Taken, Some
<1>12. CASE StreamFails \/ HangupFails \/ QueryFails
  <2>1. Abandon({}) /\ (pc = "query" \/ Taken = {})
    BY <1>11, <1>12 DEF AttentiveNext, LeavesTaken, StreamFails, HangupFails, QueryFails,
                         Abandon, actorVars
  <2> QED
    BY <1>4, <2>1
<1>13. CASE Cancelled /\ ~ (pc \in {"connect", "close"} /\ Drain)
  <2>1. CASE pc = "interrupt" /\ Abandon({cmdTask})
    <3>1. Taken = {cmdTask}
      BY <2>1, ActorAssumption DEF Holding, Taken, Some
    <3> QED
      BY <1>3, <2>1, <3>1
  <2>2. CASE pc \in {"get", "query", "wait", "hangup"} /\ Abandon({})
    BY <1>4, <1>11, <1>13, <2>2 DEF AttentiveNext, LeavesTaken
  <2> QED
    BY <1>13, <2>1, <2>2 DEF Cancelled
<1> QED
  BY <1>1, <1>2, <1>6, <1>7, <1>8, <1>9, <1>10, <1>11, <1>12, <1>13
     DEF AttentiveNext, ActorNext, ActorStep, CallReturns, ConnectFails, ClientClosed

\* "... so that no caller hangs" (comment of _run) is lost in one way only, the one the
\* violation run finds: the drive is left, by a stream that fails, an interrupt for a
\* disconnect that raises or an eviction, while cmd_task holds a command.
THEOREM CallersHangInOneWay ==
    ActorInit /\ [][AttentiveNext]_actorVars => []NoCallerHangs
<1>1. ActorInit => ActorInv /\ TakenAnswered
  BY ActorInitInv DEF ActorInit, TakenAnswered
<1>2. ActorInv /\ [AttentiveNext]_actorVars => ActorInv'
  BY ActorNextInv DEF AttentiveNext
<1>3. ActorInv /\ TakenAnswered /\ [AttentiveNext]_actorVars => TakenAnswered'
  BY TakenAnsweredKept
<1>4. ActorInv /\ TakenAnswered => NoCallerHangs
  BY DEF ActorInv, Accounted, Holding, Held, Some, Driving, InQueue, TakenAnswered,
         NoCallerHangs
<1> QED
  BY <1>1, <1>2, <1>3, <1>4, PTL

\* SessionCommand.complete (session_actor.py): no answer forgets who waits for sent.
THEOREM AnswersReleaseSenders == ActorSpec => []DoneReleasesSent
  BY ActorCorrect, PTL DEF ActorInv, Accounted, DoneReleasesSent

\* _drive_query (session_actor.py): a query is sent to the SDK after the last one ended.
THEOREM QueriesTakeTurns == ActorSpec => []OneQueryAtATime
<1>1. ActorInv => OneQueryAtATime
  BY DEF ActorInv, Accounted, OneQueryAtATime
<1> QED
  BY <1>1, ActorCorrect, PTL

-----------------------------------------------------------------------------
(* The theorem: an answer is never revised. *)

\* What a step refuses was not answered before.
LEMMA RefusedOnce ==
    ASSUME ActorInv, [ActorNext]_actorVars
    PROVE  failed \subseteq failed' /\ failed' \cap done \subseteq failed
<1> USE DEF ActorInv
<1>1. CASE \E c \in Commands : Enqueue(c)
  BY <1>1 DEF Enqueue, Complete, answers, Accounted
<1>2. CASE Drain
  BY <1>2 DEF Drain, Complete
<1>3. ASSUME NEW ok, Abandon(ok)
      PROVE  failed \subseteq failed' /\ failed' \cap done \subseteq failed
  BY <1>3 DEF Abandon, Complete, Some, OnePlace
<1>4. CASE UNCHANGED failed
  BY <1>4
<1>5. CASE GetCommand
  BY <1>5 DEF GetCommand, Handle, Complete
<1>6. CASE StreamEnds
  BY <1>6 DEF StreamEnds, Handle, Complete
<1>7. CASE DriveStep
  <2>1. Driving
    BY <1>7 DEF DriveStep, Driving
  <2> QED
    BY <1>7, <2>1, DrivePlaces
       DEF DriveStep, Interrupt, Hangup, Stash, Complete, answers, Taken, Some
<1>8. CASE Interrupted
  BY <1>8 DEF Interrupted, Complete
<1>9. CASE InterruptFails
  <2>1. Driving /\ cmdTask \in Commands
    BY <1>9 DEF InterruptFails, Driving, Holding
  <2>2. cmdTask \in Taken
    BY <2>1, ActorAssumption DEF Taken, Some
  <2> QED
    BY <1>9, <2>1, <2>2, DrivePlaces DEF InterruptFails, Complete, Some
<1>10. CASE HungUp
  BY <1>10 DEF HungUp, Handle, Complete, Some, OnePlace
<1>11. CASE QuerySent \/ Connected \/ MessageArrives \/ CommandArrives
             \/ UNCHANGED actorVars
  BY <1>4, <1>11 DEF QuerySent, Connected, MessageArrives, CommandArrives, answers, actorVars
<1> QED
  BY <1>1, <1>2, <1>3, <1>5, <1>6, <1>7, <1>8, <1>9, <1>10, <1>11
     DEF ActorNext, ActorStep, CallReturns, ConnectFails, ClientClosed, QueryFails,
         HangupFails, StreamFails, Cancelled

\* complete (session_actor.py) is called again and again on the way out; a command
\* that was told it succeeded is never turned into a failure, nor the reverse.
THEOREM AnswersStay == ActorSpec => AnswerIsFinal
<1>1. ActorInv /\ [ActorNext]_actorVars =>
        [\A c \in done : c \in failed' <=> c \in failed]_actorVars
  BY RefusedOnce
<1> QED
  BY <1>1, ActorCorrect, PTL DEF ActorSpec, AnswerIsFinal
=============================================================================
