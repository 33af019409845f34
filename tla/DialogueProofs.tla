--------------------------- MODULE DialogueProofs ---------------------------
(***************************************************************************)
(* Proofs about Dialogue for every set of topics, every list of questions  *)
(* and every number of handlers.                                           *)
(***************************************************************************)
EXTENDS Dialogue, TLAPS

Kinds == {"load", "answer", "reload", "chat", "reset"}

\* What a handler remembers; an answer is never begun for a question of another
\* topic than its own, and what is left of it is an end of its requests.
AnswerLefts ==
    { <<"select", "answer", "evaluate", "graph">>, <<"answer", "evaluate", "graph">>,
      <<"evaluate", "graph">>, <<"graph">> }
OtherLefts ==
    { <<"create", "select", "next">>, <<"select", "next">>, <<"next">>, <<"select", "chat">>,
      <<"chat">>, <<"reset">> }

IsHandler(h) ==
    /\ h = [ kind |-> h.kind, topic |-> h.topic, question |-> h.question, left |-> h.left,
             at |-> h.at, reply |-> h.reply, conflict |-> h.conflict, aborted |-> h.aborted,
             alone |-> h.alone ]
    /\ h.kind \in Kinds
    /\ h.alone \in BOOLEAN
    /\ h.kind = "answer" => h.question.topic = h.topic /\ h.left \in AnswerLefts
    /\ h.kind # "answer" => h.left \in OtherLefts

HandlersOK ==
    /\ task = [k \in Tasks |-> task[k]]
    /\ \A k \in Tasks : task[k] # NoTask => IsHandler(task[k])

\* The load that may still show something is the one of the chosen topic.
LatestOK ==
    \A k \in Tasks :
        task[k] # NoTask /\ task[k].kind = "load" /\ latest = k => task[k].topic = topic

\* A handler that is alone runs beside no other.
AloneOK ==
    \A j, k \in Tasks : j # k /\ Pending(j) /\ Pending(k) => ~ task[k].alone

\* An answer that is alone and past its selection finds its own topic selected.
HasSelected(h) == h.at = "answered" \/ (h.at = "server" /\ Head(h.left) # "select")

SelectedOK ==
    \A k \in Tasks :
        Pending(k) /\ task[k].kind = "answer" /\ task[k].alone /\ HasSelected(task[k])
            => selected = task[k].topic

DialogueInv ==
    /\ HandlersOK
    /\ LatestOK
    /\ AloneOK
    /\ SelectedOK
    /\ StaleGraphsComeFromAnswers
    /\ LoneAnswersLandInTheirTopic

-----------------------------------------------------------------------------

LEMMA AnswerHeads ==
    \A l \in AnswerLefts : Head(l) \in {"select", "answer", "evaluate", "graph"}
  BY DEF AnswerLefts

LEMMA AnswerTails ==
    \A l \in AnswerLefts :
        Head(l) # "graph" => Tail(l) \in AnswerLefts /\ Head(Tail(l)) # "select"
  <1> SUFFICES ASSUME NEW l \in AnswerLefts, Head(l) # "graph"
               PROVE  Tail(l) \in AnswerLefts /\ Head(Tail(l)) # "select"
    OBVIOUS
  <1>1. CASE l = <<"select", "answer", "evaluate", "graph">>
    <2>1. Tail(l) = <<"answer", "evaluate", "graph">>
      BY <1>1
    <2> QED  BY <2>1 DEF AnswerLefts
  <1>2. CASE l = <<"answer", "evaluate", "graph">>
    <2>1. Tail(l) = <<"evaluate", "graph">>
      BY <1>2
    <2> QED  BY <2>1 DEF AnswerLefts
  <1>3. CASE l = <<"evaluate", "graph">>
    <2>1. Tail(l) = <<"graph">>
      BY <1>3
    <2> QED  BY <2>1 DEF AnswerLefts
  <1>4. l # <<"graph">>
    OBVIOUS
  <1> QED  BY <1>1, <1>2, <1>3, <1>4 DEF AnswerLefts

LEMMA OtherTails ==
    \A l \in OtherLefts : Head(l) # "answer" /\ (Len(l) # 1 => Tail(l) \in OtherLefts)
  <1> SUFFICES ASSUME NEW l \in OtherLefts
               PROVE  Head(l) # "answer" /\ (Len(l) # 1 => Tail(l) \in OtherLefts)
    OBVIOUS
  <1>1. CASE l = <<"create", "select", "next">>
    <2>1. Tail(l) = <<"select", "next">>
      BY <1>1
    <2> QED  BY <1>1, <2>1 DEF OtherLefts
  <1>2. CASE l = <<"select", "next">>
    <2>1. Tail(l) = <<"next">>
      BY <1>2
    <2> QED  BY <1>2, <2>1 DEF OtherLefts
  <1>3. CASE l = <<"select", "chat">>
    <2>1. Tail(l) = <<"chat">>
      BY <1>3
    <2> QED  BY <1>3, <2>1 DEF OtherLefts
  <1>4. CASE l \in {<<"next">>, <<"chat">>, <<"reset">>}
    BY <1>4
  <1> QED  BY <1>1, <1>2, <1>3, <1>4 DEF OtherLefts

-----------------------------------------------------------------------------
(* A handler starts.                                                       *)

\* tasks is task with a handler of its own kind and topic begun in place k: it is
\* alone only if none was pending, and the others are alone no more.
Starting(tasks, k, kind, t) ==
    /\ tasks = [j \in Tasks |-> tasks[j]]
    /\ IsHandler(tasks[k])
    /\ tasks[k].kind = kind
    /\ tasks[k].topic = t
    /\ ~ HasSelected(tasks[k]) \/ kind # "answer"
    /\ tasks[k].alone => \A i \in Tasks : ~ Pending(i)
    /\ \A j \in Tasks \ {k} :
         /\ tasks[j] # NoTask => task[j] # NoTask
         /\ task[j] # NoTask =>
             /\ IsHandler(tasks[j])
             /\ tasks[j].kind = task[j].kind
             /\ tasks[j].topic = task[j].topic
             /\ tasks[j].at # "over" => task[j].at # "over"
             /\ ~ tasks[j].alone

LEMMA FreshIsFree ==
    ASSUME NEW k, Fresh(k)
    PROVE  k \in Tasks /\ task[k] = NoTask
  <1>1. k \in Tasks /\ k \in Nat
    BY DialogueAssumption DEF Fresh, Tasks
  <1>2. (k < k) = (task[k] # NoTask)
    BY <1>1 DEF Fresh
  <1> QED  BY <1>1, <1>2

LEMMA NewHandler ==
    ASSUME NEW kind \in Kinds, NEW t, NEW q, NEW left, NEW nobody \in BOOLEAN,
           kind = "answer" => q.topic = t /\ left \in AnswerLefts,
           kind # "answer" => left \in OtherLefts
    PROVE  IsHandler([ kind |-> kind, topic |-> t, question |-> q, left |-> left, at |-> "server",
                       reply |-> NoQuestion, conflict |-> FALSE, aborted |-> FALSE,
                       alone |-> nobody ])
  BY DEF IsHandler

LEMMA BeginStarts ==
    ASSUME HandlersOK, NEW k \in Tasks, task[k] = NoTask,
           NEW kind \in Kinds, NEW t, NEW q,
           kind = "answer" => q.topic = t
    PROVE  Starting(Begin(k, kind, t, q), k, kind, t)
  <1> DEFINE begun == Begin(k, kind, t, q)
             nobody == \A i \in Started : ~ Pending(i)
  <1>1. /\ begun = [j \in Tasks |-> begun[j]]
        /\ begun[k] =
             [ kind |-> kind, topic |-> t, question |-> q, left |-> Requests(kind),
               at |-> "server", reply |-> NoQuestion, conflict |-> FALSE, aborted |-> FALSE,
               alone |-> nobody ]
        /\ \A j \in Tasks \ {k} :
             begun[j] = IF task[j] = NoTask THEN NoTask ELSE [task[j] EXCEPT !.alone = FALSE]
    BY DEF Begin
  <1>2. nobody \in BOOLEAN
    OBVIOUS
  <1>3. nobody => \A i \in Tasks : ~ Pending(i)
    BY DEF Started, Pending
  <1> HIDE DEF begun, nobody
  <1>4. kind = "answer" => Requests(kind) \in AnswerLefts /\ Head(Requests(kind)) = "select"
    BY DEF Requests, AnswerLefts
  <1>. kind # "answer" => Requests(kind) \in OtherLefts
    BY DEF Requests, OtherLefts, Loads, Reloads, Chats, Kinds
  <1>5. IsHandler(begun[k])
    BY <1>1, <1>2, <1>4, NewHandler
  <1>6. ~ HasSelected(begun[k]) \/ kind # "answer"
    BY <1>1, <1>4 DEF HasSelected
  <1>7. ASSUME NEW j \in Tasks \ {k}, task[j] # NoTask
        PROVE  /\ IsHandler(begun[j])
               /\ begun[j].kind = task[j].kind /\ begun[j].topic = task[j].topic
               /\ begun[j].at = task[j].at /\ ~ begun[j].alone
    <2>1. begun[j] = [task[j] EXCEPT !.alone = FALSE]
      BY <1>1, <1>7
    <2>2. IsHandler(task[j])
      BY <1>7 DEF HandlersOK
    <2> QED  BY <2>1, <2>2 DEF IsHandler
  <1>8. begun[k].kind = kind /\ begun[k].topic = t /\ begun[k].alone = nobody
    BY <1>1
  <1> QED  BY <1>1, <1>3, <1>5, <1>6, <1>7, <1>8 DEF Starting, begun

LEMMA LoadedStarts ==
    ASSUME NEW tasks, NEW k \in Tasks, NEW kind, NEW t, Starting(tasks, k, kind, t)
    PROVE  Starting(Loaded(tasks, k), k, kind, t)
  <1> DEFINE loaded == Loaded(tasks, k)
  <1>1. /\ loaded = [j \in Tasks |-> loaded[j]]
        /\ loaded[k] = tasks[k]
        /\ \A j \in Tasks \ {k} :
             loaded[j] \in {tasks[j], [tasks[j] EXCEPT !.aborted = TRUE]}
             /\ (tasks[j] = NoTask => loaded[j] = NoTask)
    BY DEF Loaded
  <1> HIDE DEF loaded
  <1>2. ASSUME NEW j \in Tasks \ {k}, task[j] # NoTask
        PROVE  /\ IsHandler(loaded[j])
               /\ loaded[j].kind = task[j].kind
               /\ loaded[j].topic = task[j].topic
               /\ loaded[j].at # "over" => task[j].at # "over"
               /\ ~ loaded[j].alone
    <2>2. /\ IsHandler(tasks[j])
          /\ tasks[j].kind = task[j].kind /\ tasks[j].topic = task[j].topic
          /\ tasks[j].at # "over" => task[j].at # "over"
          /\ ~ tasks[j].alone
      BY <1>2 DEF Starting
    <2>3. loaded[j] = tasks[j] \/ loaded[j] = [tasks[j] EXCEPT !.aborted = TRUE]
      BY <1>1
    <2> QED  BY <2>2, <2>3 DEF IsHandler
  <1> QED  BY <1>1, <1>2 DEF Starting, loaded

\* The handler that starts another one ends.
LEMMA EndedStarts ==
    ASSUME NEW tasks, NEW k \in Tasks, NEW j \in Tasks \ {k}, NEW kind, NEW t,
           Starting(tasks, k, kind, t), task[j] # NoTask
    PROVE  Starting([tasks EXCEPT ![j].at = "over"], k, kind, t)
  <1> DEFINE ended == [tasks EXCEPT ![j].at = "over"]
  <1>1. /\ ended = [i \in Tasks |-> ended[i]]
        /\ ended[j] = [tasks[j] EXCEPT !.at = "over"]
        /\ \A i \in Tasks \ {j} : ended[i] = tasks[i]
    BY DEF Starting
  <1> HIDE DEF ended
  <1>2. IsHandler(tasks[j])
        /\ tasks[j].kind = task[j].kind /\ tasks[j].topic = task[j].topic /\ ~ tasks[j].alone
    BY DEF Starting
  <1>3. /\ IsHandler(ended[j]) /\ ended[j].kind = task[j].kind /\ ended[j].topic = task[j].topic
        /\ ended[j].at = "over" /\ ~ ended[j].alone
    BY <1>1, <1>2 DEF IsHandler
  <1>4. ended[k] = tasks[k]
    BY <1>1
  <1> QED  BY <1>1, <1>2, <1>3, <1>4 DEF Starting, ended

LEMMA StartStep ==
    ASSUME DialogueInv, NEW k \in Tasks, task[k] = NoTask, NEW kind \in Kinds, NEW t,
           Starting(task', k, kind, t),
           kind = "load" => latest' = k /\ topic' = t,
           kind # "load" => latest' = latest /\ topic' = topic
    PROVE  HandlersOK' /\ LatestOK' /\ AloneOK' /\ SelectedOK'
  <1>1. HandlersOK'
    BY DEF Starting, HandlersOK
  <1>2. LatestOK'
    <2> SUFFICES ASSUME NEW j \in Tasks, task'[j] # NoTask, task'[j].kind = "load", latest' = j
                 PROVE  task'[j].topic = topic'
      BY DEF LatestOK
    <2>1. CASE j = k
      BY <2>1 DEF Starting
    <2>2. CASE j # k
      <3>1. task[j] # NoTask /\ task[j].kind = "load" /\ task'[j].topic = task[j].topic
        BY <2>2 DEF Starting
      <3>2. kind # "load"
        BY <2>2
      <3> QED  BY <3>1, <3>2 DEF DialogueInv, LatestOK
    <2> QED  BY <2>1, <2>2
  <1>3. \A j \in Tasks \ {k} : Pending(j)' => Pending(j) /\ ~ task'[j].alone
    BY DEF Starting, Pending
  <1>4. task'[k].alone => \A i \in Tasks : ~ Pending(i)
    BY DEF Starting
  <1>5. AloneOK'
    BY <1>3, <1>4 DEF AloneOK
  <1>6. SelectedOK'
    <2> SUFFICES ASSUME NEW j \in Tasks, Pending(j)', task'[j].kind = "answer", task'[j].alone,
                        HasSelected(task'[j])
                 PROVE  FALSE
      BY DEF SelectedOK
    <2>1. j = k
      BY <1>3
    <2> QED  BY <2>1 DEF Starting
  <1> QED  BY <1>1, <1>2, <1>5, <1>6

-----------------------------------------------------------------------------
(* A handler goes on.                                                      *)

\* One handler changes, or the category of the session while it is pending.
LEMMA HandlerStep ==
    ASSUME DialogueInv, NEW k \in Tasks, task[k] # NoTask,
           NEW h, IsHandler(h), task' = [task EXCEPT ![k] = h],
           h.kind = task[k].kind, h.topic = task[k].topic, h.alone = task[k].alone,
           Pending(k),
           topic' = topic, latest' = latest,
           h.kind = "answer" /\ h.alone /\ HasSelected(h) => selected' = h.topic
    PROVE  HandlersOK' /\ LatestOK' /\ AloneOK' /\ SelectedOK'
  <1>1. /\ task' = [j \in Tasks |-> task'[j]]
        /\ task'[k] = h
        /\ \A j \in Tasks \ {k} : task'[j] = task[j]
    BY DEF DialogueInv, HandlersOK
  <1>2. HandlersOK'
    BY <1>1 DEF DialogueInv, HandlersOK
  <1>3. LatestOK'
    BY <1>1 DEF DialogueInv, LatestOK
  <1>4. \A j \in Tasks : Pending(j)' => Pending(j) /\ task'[j].alone = task[j].alone
    BY <1>1 DEF Pending
  <1>5. AloneOK'
    BY <1>4 DEF DialogueInv, AloneOK
  <1>6. SelectedOK'
    <2> SUFFICES ASSUME NEW j \in Tasks, Pending(j)', task'[j].kind = "answer", task'[j].alone,
                        HasSelected(task'[j])
                 PROVE  selected' = task'[j].topic
      BY DEF SelectedOK
    <2>1. j = k
      BY <1>4 DEF DialogueInv, AloneOK
    <2> QED  BY <1>1, <2>1
  <1> QED  BY <1>2, <1>3, <1>5, <1>6

\* A handler that has come to another place, with another reply.
With(g, at, left, reply, conflict) ==
    [ kind |-> g.kind, topic |-> g.topic, question |-> g.question, left |-> left, at |-> at,
      reply |-> reply, conflict |-> conflict, aborted |-> g.aborted, alone |-> g.alone ]

LEMMA WithStays ==
    ASSUME NEW g, IsHandler(g), NEW at, NEW left, NEW reply, NEW conflict,
           left = g.left \/ (g.kind = "answer" /\ left \in AnswerLefts)
                         \/ (g.kind # "answer" /\ left \in OtherLefts)
    PROVE  LET h == With(g, at, left, reply, conflict)
           IN  /\ IsHandler(h)
               /\ h.kind = g.kind /\ h.topic = g.topic /\ h.alone = g.alone
               /\ h.at = at /\ h.left = left
  <1> DEFINE h == With(g, at, left, reply, conflict)
  <1>1. /\ h.kind = g.kind /\ h.topic = g.topic /\ h.alone = g.alone /\ h.question = g.question
        /\ h.at = at /\ h.left = left /\ h.reply = reply /\ h.conflict = conflict
        /\ h.aborted = g.aborted
    BY DEF With
  <1>2. h = [ kind |-> h.kind, topic |-> h.topic, question |-> h.question, left |-> h.left,
              at |-> h.at, reply |-> h.reply, conflict |-> h.conflict, aborted |-> h.aborted,
              alone |-> h.alone ]
    BY <1>1 DEF With
  <1>3. /\ g.kind \in Kinds /\ g.alone \in BOOLEAN
        /\ g.kind = "answer" => g.question.topic = g.topic /\ g.left \in AnswerLefts
        /\ g.kind # "answer" => g.left \in OtherLefts
    BY DEF IsHandler
  <1> HIDE DEF h
  <1>4. IsHandler(h)
    BY <1>1, <1>2, <1>3 DEF IsHandler
  <1> QED  BY <1>1, <1>4 DEF h

LEMMA WithIsExcept ==
    ASSUME NEW g, IsHandler(g)
    PROVE  /\ \A at : [g EXCEPT !.at = at] = With(g, at, g.left, g.reply, g.conflict)
           /\ \A at, left :
                [g EXCEPT !.at = at, !.left = left] = With(g, at, left, g.reply, g.conflict)
  <1>1. g = [ kind |-> g.kind, topic |-> g.topic, question |-> g.question, left |-> g.left,
              at |-> g.at, reply |-> g.reply, conflict |-> g.conflict, aborted |-> g.aborted,
              alone |-> g.alone ]
    BY DEF IsHandler
  <1>2. \A at : [g EXCEPT !.at = at] = With(g, at, g.left, g.reply, g.conflict)
    BY <1>1 DEF With
  <1>3. ASSUME NEW at, NEW left
        PROVE  [g EXCEPT !.at = at, !.left = left] = With(g, at, left, g.reply, g.conflict)
    <2>1. [g EXCEPT !.at = at, !.left = left] = [[g EXCEPT !.at = at] EXCEPT !.left = left]
      OBVIOUS
    <2>2. [With(g, at, g.left, g.reply, g.conflict) EXCEPT !.left = left]
            = With(g, at, left, g.reply, g.conflict)
      BY DEF With
    <2> QED  BY <1>2, <2>1, <2>2
  <1> QED  BY <1>2, <1>3

WithReply(g, reply, conflict) ==
    [g EXCEPT !.at = "answered", !.reply = reply, !.conflict = conflict]

LEMMA WithReplyIsExcept ==
    ASSUME NEW g, IsHandler(g), NEW reply, NEW conflict
    PROVE  WithReply(g, reply, conflict) = With(g, "answered", g.left, reply, conflict)
  <1>1. [g EXCEPT !.at = "answered", !.reply = reply, !.conflict = conflict]
          = [[[g EXCEPT !.at = "answered"] EXCEPT !.reply = reply] EXCEPT !.conflict = conflict]
    OBVIOUS
  <1>2. [g EXCEPT !.at = "answered"] = With(g, "answered", g.left, g.reply, g.conflict)
    BY WithIsExcept
  <1>3. [With(g, "answered", g.left, g.reply, g.conflict) EXCEPT !.reply = reply]
          = With(g, "answered", g.left, reply, g.conflict)
    BY DEF With
  <1>4. [With(g, "answered", g.left, reply, g.conflict) EXCEPT !.conflict = conflict]
          = With(g, "answered", g.left, reply, conflict)
    BY DEF With
  <1> QED  BY <1>1, <1>2, <1>3, <1>4 DEF WithReply

\* An answer that is alone and not at its selection has its topic selected.
LEMMA SelectedThen ==
    ASSUME DialogueInv, NEW k \in Tasks, Awaits(k), task[k].kind = "answer", task[k].alone,
           Request(k) # "select"
    PROVE  selected = task[k].topic
  BY DEF DialogueInv, SelectedOK, HasSelected, Awaits, Pending, Request

LEMMA AnswersRequests ==
    ASSUME DialogueInv, NEW k \in Tasks, task[k] # NoTask, task[k].kind = "answer"
    PROVE  Request(k) \in {"select", "answer", "evaluate", "graph"}
  <1>1. task[k].left \in AnswerLefts
    BY DEF DialogueInv, HandlersOK, IsHandler
  <1> QED  BY <1>1, AnswerHeads DEF Request

LEMMA AnsweredStep ==
    ASSUME DialogueInv, NEW k \in Tasks, Awaits(k), NEW reply, NEW conflict,
           Answered(k, reply, conflict), topic' = topic, latest' = latest,
           task[k].kind = "answer" /\ task[k].alone => selected' = task[k].topic
    PROVE  HandlersOK' /\ LatestOK' /\ AloneOK' /\ SelectedOK'
  <1> DEFINE h == With(task[k], "answered", task[k].left, reply, conflict)
  <1>1. task[k] # NoTask /\ Pending(k) /\ IsHandler(task[k])
    BY DEF Awaits, Pending, DialogueInv, HandlersOK
  <1>2. task' = [task EXCEPT ![k] = h]
    <2>1. h = [task[k] EXCEPT !.at = "answered", !.reply = reply, !.conflict = conflict]
      <3>1. h = WithReply(task[k], reply, conflict)
        BY <1>1, WithReplyIsExcept
      <3> QED  BY <3>1 DEF WithReply
    <2> HIDE DEF h
    <2> QED  BY <2>1 DEF Answered, DialogueInv, HandlersOK
  <1>3. /\ IsHandler(h)
        /\ h.kind = task[k].kind /\ h.topic = task[k].topic /\ h.alone = task[k].alone
    BY <1>1, WithStays
  <1> HIDE DEF h
  <1> QED  BY <1>1, <1>2, <1>3, HandlerStep

\* A request that fails and a handler that ends select nothing.
LEMMA EndStep ==
    ASSUME DialogueInv, NEW k \in Tasks, Pending(k), NEW at \in {"failed", "over"},
           task' = [task EXCEPT ![k].at = at], topic' = topic, latest' = latest
    PROVE  HandlersOK' /\ LatestOK' /\ AloneOK' /\ SelectedOK'
  <1> DEFINE h == With(task[k], at, task[k].left, task[k].reply, task[k].conflict)
  <1>1. task[k] # NoTask /\ IsHandler(task[k])
    BY DEF Pending, DialogueInv, HandlersOK
  <1>2. task' = [task EXCEPT ![k] = h]
    <2>1. h = [task[k] EXCEPT !.at = at]
      BY <1>1, WithIsExcept
    <2> HIDE DEF h
    <2> QED  BY <2>1 DEF DialogueInv, HandlersOK
  <1>3. /\ IsHandler(h) /\ h.at = at
        /\ h.kind = task[k].kind /\ h.topic = task[k].topic /\ h.alone = task[k].alone
    BY <1>1, WithStays
  <1> HIDE DEF h
  <1>4. ~ HasSelected(h)
    BY <1>3 DEF HasSelected
  <1> QED  BY <1>1, <1>2, <1>3, <1>4, HandlerStep

LEMMA GoesOnStep ==
    ASSUME DialogueInv, NEW k \in Tasks, Returned(k), GoesOn(k),
           topic' = topic, latest' = latest, selected' = selected,
           task[k].kind = "answer" => task[k].at = "answered" /\ Request(k) # "graph",
           task[k].kind # "answer" => ~ IsLast(k)
    PROVE  HandlersOK' /\ LatestOK' /\ AloneOK' /\ SelectedOK'
  <1> DEFINE rest == Tail(task[k].left)
             h == With(task[k], "server", rest, task[k].reply, task[k].conflict)
  <1>1. task[k] # NoTask /\ Pending(k) /\ IsHandler(task[k])
    BY DEF Returned, Pending, DialogueInv, HandlersOK
  <1>2. task' = [task EXCEPT ![k] = h]
    <2>1. h = [task[k] EXCEPT !.at = "server", !.left = rest]
      BY <1>1, WithIsExcept
    <2> HIDE DEF h
    <2> QED  BY <2>1 DEF GoesOn, DialogueInv, HandlersOK
  <1>3. /\ task[k].kind = "answer" => rest \in AnswerLefts
        /\ task[k].kind # "answer" => rest \in OtherLefts
    BY <1>1, AnswerTails, OtherTails DEF IsHandler, Request, IsLast
  <1> HIDE DEF rest
  <1>4. /\ IsHandler(h)
        /\ h.kind = task[k].kind /\ h.topic = task[k].topic /\ h.alone = task[k].alone
    BY <1>1, <1>3, WithStays
  <1> HIDE DEF h
  <1>5. task[k].kind = "answer" /\ task[k].alone => selected = task[k].topic
    BY <1>1 DEF DialogueInv, SelectedOK, HasSelected
  <1> QED  BY <1>1, <1>2, <1>4, <1>5, HandlerStep

-----------------------------------------------------------------------------
(* The invariant.                                                          *)

LEMMA InitInv ==
    Init => DialogueInv
  <1> SUFFICES ASSUME Init
               PROVE  DialogueInv
    OBVIOUS
  <1>1. task = [k \in Tasks |-> task[k]]
    BY DEF Init
  <1>2. ASSUME NEW k \in Tasks, task[k] # NoTask
        PROVE  /\ k = 1
               /\ task[k] = [ kind |-> "load", topic |-> FirstTopic, question |-> NoQuestion,
                         left |-> Requests("load"), at |-> "server", reply |-> NoQuestion,
                         conflict |-> FALSE, aborted |-> FALSE, alone |-> TRUE ]
    BY <1>2 DEF Init
  <1>3. Requests("load") \in OtherLefts
    BY DEF Requests, Loads, OtherLefts
  <1>. HandlersOK
    <2>1. IsHandler([ kind |-> "load", topic |-> FirstTopic, question |-> NoQuestion,
                      left |-> Requests("load"), at |-> "server", reply |-> NoQuestion,
                      conflict |-> FALSE, aborted |-> FALSE, alone |-> TRUE ])
      BY <1>3, NewHandler DEF Kinds
    <2> QED  BY <1>1, <1>2, <2>1 DEF HandlersOK
  <1>4. LatestOK /\ SelectedOK
    BY <1>2 DEF LatestOK, SelectedOK, Pending, Init
  <1>5. AloneOK
    BY <1>2 DEF AloneOK, Pending
  <1> QED  BY <1>4, <1>5 DEF DialogueInv, StaleGraphsComeFromAnswers, LoneAnswersLandInTheirTopic, Init

\* What the properties speak of, apart from the topic, stays as it is.
LEMMA ShownStays ==
    ASSUME DialogueInv, UNCHANGED <<topic, graph, landed>>
    PROVE  StaleGraphsComeFromAnswers' /\ LoneAnswersLandInTheirTopic'
  BY DEF DialogueInv, StaleGraphsComeFromAnswers, LoneAnswersLandInTheirTopic

LEMMA UserKeepsInv ==
    ASSUME DialogueInv, NEW k \in Tasks,
           (\E t \in Topics : ChooseTopic(k, t)) \/ Submit(k) \/ NewSession(k)
    PROVE  DialogueInv'
  <1>0. HandlersOK
    BY DEF DialogueInv
  <1>1. ASSUME NEW t \in Topics, ChooseTopic(k, t)
        PROVE  DialogueInv'
    <2>1. task[k] = NoTask
      BY <1>1, FreshIsFree DEF ChooseTopic, StartLoad
    <2>2. Starting(task', k, "load", t)
      BY <1>0, <1>1, <2>1, BeginStarts, LoadedStarts DEF ChooseTopic, StartLoad, Kinds
    <2>3. HandlersOK' /\ LatestOK' /\ AloneOK' /\ SelectedOK'
      BY <1>1, <2>1, <2>2, StartStep DEF ChooseTopic, StartLoad, Kinds
    <2>4. StaleGraphsComeFromAnswers' /\ LoneAnswersLandInTheirTopic'
      BY <1>1 DEF ChooseTopic, StartLoad, DialogueInv, StaleGraphsComeFromAnswers,
                  LoneAnswersLandInTheirTopic
    <2> QED  BY <2>3, <2>4 DEF DialogueInv
  <1>2. ASSUME Submit(k)
        PROVE  DialogueInv'
    <2> DEFINE q == question[topic]
    <2>1. task[k] = NoTask
      BY <1>2, FreshIsFree DEF Submit, Starts
    <2>2. Handler(q) \in Kinds /\ (Handler(q) = "answer" => q.topic = topic) /\ Handler(q) # "load"
      BY DEF Handler, Kinds
    <2>3. task' = Begin(k, Handler(q), topic, q) /\ latest' = latest /\ topic' = topic
      BY <1>2 DEF Submit
    <2> HIDE DEF q
    <2>4. Starting(task', k, Handler(q), topic)
      BY <1>0, <2>1, <2>2, <2>3, BeginStarts
    <2>5. HandlersOK' /\ LatestOK' /\ AloneOK' /\ SelectedOK'
      BY <2>1, <2>2, <2>3, <2>4, StartStep
    <2> QED  BY <1>2, <2>5, ShownStays DEF Submit, DialogueInv
  <1>3. ASSUME NewSession(k)
        PROVE  DialogueInv'
    <2>1. task[k] = NoTask
      BY <1>3, FreshIsFree DEF NewSession, Starts
    <2>2. Starting(task', k, "reset", topic)
      BY <1>0, <1>3, <2>1, BeginStarts DEF NewSession, Kinds
    <2>3. HandlersOK' /\ LatestOK' /\ AloneOK' /\ SelectedOK'
      BY <1>3, <2>1, <2>2, StartStep DEF NewSession, Kinds
    <2> QED  BY <1>3, <2>3, ShownStays DEF NewSession, DialogueInv
  <1> QED  BY <1>1, <1>2, <1>3

LEMMA ServerKeepsInv ==
    ASSUME DialogueInv, NEW k \in Tasks, ServerAnswers(k)
    PROVE  DialogueInv'
  <1>0. Awaits(k) /\ task[k] # NoTask /\ topic' = topic /\ latest' = latest /\ graph' = graph
    BY DEF ServerAnswers, Awaits
  <1>1. task[k].kind = "answer" => Request(k) \in {"select", "answer", "evaluate", "graph"}
    BY <1>0, AnswersRequests
  <1>2. task[k].kind = "answer" /\ task[k].alone /\ Request(k) # "select" => selected = task[k].topic
    BY <1>0, SelectedThen
  <1>3. ASSUME SubmitAnswer(k)
        PROVE  DialogueInv'
    <2>1. Request(k) = "answer" /\ selected' = selected
      BY <1>3 DEF SubmitAnswer
    <2>2. HandlersOK' /\ LatestOK' /\ AloneOK' /\ SelectedOK'
      BY <1>0, <1>2, <1>3, <2>1, AnsweredStep DEF SubmitAnswer
    <2>3. LoneAnswersLandInTheirTopic'
      <3>1. task[k].kind = "answer" => task[k].question.topic = task[k].topic
        BY <1>0 DEF DialogueInv, HandlersOK, IsHandler
      <3>2. landed' = [question |-> task[k].question, under |-> selected, alone |-> task[k].alone]
        BY <1>3 DEF SubmitAnswer
      <3>3. task[k].kind = "answer"
        BY <1>0, <2>1, OtherTails DEF DialogueInv, HandlersOK, IsHandler, Request
      <3> QED  BY <1>2, <2>1, <3>1, <3>2, <3>3 DEF LoneAnswersLandInTheirTopic
    <2>4. StaleGraphsComeFromAnswers'
      BY <1>0 DEF DialogueInv, StaleGraphsComeFromAnswers
    <2> QED  BY <2>2, <2>3, <2>4 DEF DialogueInv
  <1>4. ASSUME \/ OpenSession(k) \/ SelectCategory(k) \/ GetNextQuestions(k)
               \/ AnswerConflicts(k) \/ ResetCategory(k) \/ ReadForTab(k)
        PROVE  DialogueInv'
    <2>1. HandlersOK' /\ LatestOK' /\ AloneOK' /\ SelectedOK'
      <3>1. CASE OpenSession(k)
        BY <1>0, <1>1, <3>1, AnsweredStep DEF OpenSession
      <3>2. CASE SelectCategory(k)
        BY <1>0, <3>2, AnsweredStep DEF SelectCategory
      <3>3. CASE GetNextQuestions(k)
        BY <1>0, <1>1, <3>3, AnsweredStep DEF GetNextQuestions, server
      <3>4. CASE AnswerConflicts(k)
        BY <1>0, <1>2, <3>4, AnsweredStep DEF AnswerConflicts, server
      <3>5. CASE ResetCategory(k)
        BY <1>0, <1>1, <3>5, AnsweredStep DEF ResetCategory
      <3>6. CASE ReadForTab(k)
        BY <1>0, <1>2, <3>6, AnsweredStep DEF ReadForTab, server
      <3> QED  BY <1>4, <3>1, <3>2, <3>3, <3>4, <3>5, <3>6
    <2>2. landed' = landed
      BY <1>4 DEF OpenSession, SelectCategory, GetNextQuestions, AnswerConflicts, ResetCategory, ReadForTab
    <2> QED  BY <1>0, <2>1, <2>2, ShownStays DEF DialogueInv
  <1> QED  BY <1>3, <1>4 DEF ServerAnswers


LEMMA HandlerKeepsInv ==
    ASSUME DialogueInv, NEW k \in Tasks, GoOn(k)
    PROVE  DialogueInv'
  <1>0. Returned(k) /\ Pending(k) /\ task[k] # NoTask /\ selected' = selected /\ landed' = landed
    BY DEF GoOn, Returned, Pending, server
  <1>1. CASE LoadGoesOn(k)
    <2>1. task[k].kind = "load" /\ topic' = topic /\ latest' = latest
      BY <1>1 DEF LoadGoesOn
    <2>2. HandlersOK' /\ LatestOK' /\ AloneOK' /\ SelectedOK'
      <3>1. CASE Over(k)
        BY <1>0, <2>1, <3>1, EndStep DEF Over
      <3>2. CASE GoesOn(k) /\ ~ IsLast(k)
        BY <1>0, <2>1, <3>2, GoesOnStep
      <3> QED  BY <1>1, <3>1, <3>2 DEF LoadGoesOn
    <2>3. StaleGraphsComeFromAnswers'
      <3>1. CASE graph' = graph
        BY <2>1, <3>1 DEF DialogueInv, StaleGraphsComeFromAnswers
      <3>2. CASE IsCurrentRequest(k) /\ graph' = [topic |-> task[k].topic, by |-> "load"]
        <4>1. task[k].topic = topic
          BY <1>0, <2>1, <3>2 DEF IsCurrentRequest, DialogueInv, LatestOK
        <4> QED  BY <2>1, <3>2, <4>1 DEF StaleGraphsComeFromAnswers
      <3> QED  BY <1>1, <3>1, <3>2 DEF LoadGoesOn
    <2>4. LoneAnswersLandInTheirTopic'
      BY <1>0 DEF DialogueInv, LoneAnswersLandInTheirTopic
    <2> QED  BY <2>2, <2>3, <2>4 DEF DialogueInv
  <1>2. CASE SubmitFails(k)
    <2>1. HandlersOK' /\ LatestOK' /\ AloneOK' /\ SelectedOK'
      BY <1>0, <1>2, EndStep DEF SubmitFails, HandlerEnds, Over
    <2> QED  BY <1>0, <1>2, <2>1, ShownStays DEF SubmitFails, DialogueInv
  <1>3. CASE AnswerGoesOn(k)
    <2>1. /\ task[k].kind = "answer" /\ task[k].at = "answered"
          /\ topic' = topic /\ latest' = latest
      BY <1>3 DEF AnswerGoesOn
    <2>2. Request(k) \in {"select", "answer", "evaluate", "graph"}
      BY <1>0, <2>1, AnswersRequests
    <2>3. \/ Over(k) /\ graph' \in {graph, [topic |-> task[k].topic, by |-> "answer"]}
          \/ GoesOn(k) /\ Request(k) # "graph" /\ graph' = graph
      <3>1. CASE Request(k) \in {"select", "evaluate"}
        BY <1>3, <3>1 DEF AnswerGoesOn
      <3>2. CASE Request(k) = "answer" /\ task[k].conflict
        BY <1>3, <3>2 DEF AnswerGoesOn, ConflictEnds, HandlerEnds
      <3>3. CASE Request(k) = "answer" /\ ~ task[k].conflict
        BY <1>3, <3>3 DEF AnswerGoesOn, HandlerEnds
      <3>4. CASE Request(k) = "graph"
        BY <1>3, <3>4 DEF AnswerGoesOn, HandlerEnds
      <3> QED  BY <2>2, <3>1, <3>2, <3>3, <3>4
    <2>4. HandlersOK' /\ LatestOK' /\ AloneOK' /\ SelectedOK'
      <3>1. CASE Over(k)
        BY <1>0, <2>1, <3>1, EndStep DEF Over
      <3>2. CASE GoesOn(k) /\ Request(k) # "graph"
        BY <1>0, <2>1, <3>2, GoesOnStep
      <3> QED  BY <2>3, <3>1, <3>2
    <2>5. StaleGraphsComeFromAnswers'
      BY <2>1, <2>3 DEF DialogueInv, StaleGraphsComeFromAnswers
    <2>6. LoneAnswersLandInTheirTopic'
      BY <1>0 DEF DialogueInv, LoneAnswersLandInTheirTopic
    <2> QED  BY <2>4, <2>5, <2>6 DEF DialogueInv
  <1>4. CASE QuestionsGoOn(k)
    <2>1. /\ task[k].kind # "answer"
          /\ topic' = topic /\ latest' = latest /\ graph' = graph
      BY <1>4 DEF QuestionsGoOn
    <2>2. HandlersOK' /\ LatestOK' /\ AloneOK' /\ SelectedOK'
      <3>1. CASE Over(k)
        BY <1>0, <2>1, <3>1, EndStep DEF Over
      <3>2. CASE GoesOn(k) /\ ~ IsLast(k)
        BY <1>0, <2>1, <3>2, GoesOnStep
      <3> QED  BY <1>4, <3>1, <3>2 DEF QuestionsGoOn, HandlerEnds
    <2> QED  BY <1>0, <2>1, <2>2, ShownStays DEF DialogueInv
  <1>5. CASE ResetEnds(k)
    <2>1. PICK j \in Tasks :
            /\ Fresh(j)
            /\ task' = [Loaded(Begin(j, "load", topic, NoQuestion), j) EXCEPT ![k].at = "over"]
            /\ latest' = j
      BY <1>5 DEF ResetEnds
    <2> DEFINE begun == Loaded(Begin(j, "load", topic, NoQuestion), j)
    <2>2. task[j] = NoTask /\ topic' = topic /\ graph' = NoGraph
      BY <1>5, <2>1, FreshIsFree DEF ResetEnds
    <2>3. k # j
      BY <1>0, <2>2
    <2>4. Starting(begun, j, "load", topic)
      BY <2>2, BeginStarts, LoadedStarts DEF DialogueInv, Kinds
    <2>5. Starting(task', j, "load", topic)
      <3>1. task' = [begun EXCEPT ![k].at = "over"]
        BY <2>1
      <3> HIDE DEF begun
      <3> QED  BY <1>0, <2>3, <2>4, <3>1, EndedStarts
    <2>6. HandlersOK' /\ LatestOK' /\ AloneOK' /\ SelectedOK'
      BY <2>1, <2>2, <2>5, StartStep DEF Kinds
    <2> QED  BY <1>0, <2>2, <2>6 DEF DialogueInv, StaleGraphsComeFromAnswers, LoneAnswersLandInTheirTopic
  <1> QED  BY <1>1, <1>2, <1>3, <1>4, <1>5 DEF GoOn

LEMMA NextKeepsInv ==
    ASSUME DialogueInv, [Next]_vars
    PROVE  DialogueInv'
  <1>1. ASSUME NEW k \in Tasks, Fails(k)
        PROVE  DialogueInv'
    <2>1. Pending(k) /\ task' = [task EXCEPT ![k].at = "failed"] /\ topic' = topic /\ latest' = latest
      BY <1>1 DEF Fails, Pending
    <2>2. HandlersOK' /\ LatestOK' /\ AloneOK' /\ SelectedOK'
      BY <2>1, EndStep
    <2> QED  BY <1>1, <2>2, ShownStays DEF Fails, DialogueInv
  <1>2. CASE UNCHANGED vars
    BY <1>2 DEF vars, tab, server, DialogueInv, HandlersOK, LatestOK, AloneOK, SelectedOK, Pending,
                StaleGraphsComeFromAnswers, LoneAnswersLandInTheirTopic
  <1> QED  BY <1>1, <1>2, UserKeepsInv, ServerKeepsInv, HandlerKeepsInv DEF Next

THEOREM DialogueInvariant ==
    Spec => []DialogueInv
  BY InitInv, NextKeepsInv, PTL DEF Spec

\* ChatArea.tsx 398, 413-415: only the handler of an answer can bring the graph of a
\* topic that was left; the loads of topics are told apart by latest and their abortion.
THEOREM GraphsOfOtherTopicsComeFromAnswers ==
    Spec => []StaleGraphsComeFromAnswers
  <1>1. DialogueInv => StaleGraphsComeFromAnswers
    BY DEF DialogueInv
  <1> QED  BY <1>1, DialogueInvariant, PTL

\* ChatArea.tsx 522-523, 553-554: an answer whose handler ran beside no other is stored
\* under the topic of its question.
THEOREM LoneAnswersReachTheirTopic ==
    Spec => []LoneAnswersLandInTheirTopic
  <1>1. DialogueInv => LoneAnswersLandInTheirTopic
    BY DEF DialogueInv
  <1> QED  BY <1>1, DialogueInvariant, PTL

=============================================================================
