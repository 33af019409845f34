------------------------------ MODULE Dialogue ------------------------------
(***************************************************************************)
(* The chat panel (frontend/src/components/ChatArea.tsx, live mode): the   *)
(* handlers of a browser tab are coroutines that await one request after   *)
(* the other, over one session that remembers one selected category.       *)
(* Requests may be lost with or without their effect; an aborted one may   *)
(* still reach the server.  Messages, texts and storage are left out.      *)
(***************************************************************************)
EXTENDS Naturals, Sequences, FiniteSets

CONSTANTS
    Topics,       \* categories of the sidebar
    FirstTopic,
    Keys,         \* per topic: the fact keys of its questions, in order
    MaxTasks,     \* bound: handlers started
    NoTopic, NoQuestion, NoGraph, NoTask, NoLanding

ASSUME DialogueAssumption ==
    /\ FirstTopic \in Topics
    /\ MaxTasks \in Nat \ {0}

VARIABLES
    topic,      \* selectedCategoryId
    question,   \* activeQuestionsByCategory
    loading,
    graph,      \* sessionGraph, with the handler that brought it
    task,       \* per handler started: where it awaits what
    latest,     \* loadRequestId
    opened,     \* server: the session exists
    selected,   \* server: selected_category_code
    facts,      \* server: per category, the fact keys stored under it
    landed      \* history: the last answer stored

tab == <<topic, question, loading, graph, task, latest>>
server == <<opened, selected, facts>>
vars == <<tab, server, landed>>

Tasks == 1..MaxTasks
Started == {k \in Tasks : task[k] # NoTask}
Fresh(k) == k \in Tasks /\ \A j \in Tasks : (j < k) = (task[j] # NoTask)

Loads == <<"create", "select", "next">>
Reloads == <<"select", "next">>
Chats == <<"select", "chat">>

\* Mutant: an answer relies on the category selected when its topic was loaded.
AnswersUnselected(kind) ==
    CASE kind = "load"   -> Loads
      [] kind = "answer" -> <<"answer", "evaluate", "graph">>
      [] kind = "reload" -> Reloads
      [] kind = "chat"   -> Chats
      [] kind = "reset"  -> <<"reset">>

\* The requests of a handler, in order.
Requests(kind) ==
    CASE kind = "load"   -> Loads
      [] kind = "answer" -> <<"select", "answer", "evaluate", "graph">>
      [] kind = "reload" -> Reloads
      [] kind = "chat"   -> Chats
      [] kind = "reset"  -> <<"reset">>

Request(k) == Head(task[k].left)
Awaits(k) == task[k] # NoTask /\ task[k].at = "server"
Returned(k) == task[k] # NoTask /\ task[k].at \in {"answered", "failed"}
Pending(k) == task[k] # NoTask /\ task[k].at # "over"

\* Bound: what starts leaves a handler to every reset, whose topic loads again.
Resets == {k \in Started : Pending(k) /\ task[k].kind = "reset"}
Starts(k, n) == Fresh(k) /\ k + Cardinality(Resets) + n <= MaxTasks

\* A handler that starts is no longer alone, nor is any other.
Begin(k, kind, t, q) ==
    [ j \in Tasks |->
        IF j = k
        THEN [ kind |-> kind, topic |-> t, question |-> q, left |-> Requests(kind), at |-> "server",
               reply |-> NoQuestion, conflict |-> FALSE, aborted |-> FALSE,
               alone |-> \A i \in Started : ~ Pending(i) ]
        ELSE IF task[j] = NoTask THEN NoTask ELSE [task[j] EXCEPT !.alone = FALSE] ]

\* The effect of a topic or a reset: the load before it is aborted.
Loaded(tasks, k) ==
    [ j \in Tasks |->
        IF j # k /\ tasks[j] # NoTask /\ tasks[j].kind = "load"
        THEN [tasks[j] EXCEPT !.aborted = TRUE] ELSE tasks[j] ]

StartLoad(k, t) ==
    /\ Fresh(k)
    /\ task' = Loaded(Begin(k, "load", t, NoQuestion), k)
    /\ latest' = k
    /\ loading' = TRUE
    /\ graph' = NoGraph

Init ==
    /\ topic = FirstTopic
    /\ question = [t \in Topics |-> NoQuestion]
    /\ loading = TRUE
    /\ graph = NoGraph
    /\ task = [ k \in Tasks |->
                  IF k # 1 THEN NoTask
                  ELSE [ kind |-> "load", topic |-> FirstTopic, question |-> NoQuestion,
                         left |-> Requests("load"), at |-> "server", reply |-> NoQuestion,
                         conflict |-> FALSE, aborted |-> FALSE, alone |-> TRUE ] ]
    /\ latest = 1
    /\ opened = FALSE
    /\ selected = NoTopic
    /\ facts = [t \in Topics |-> {}]
    /\ landed = NoLanding

-----------------------------------------------------------------------------
(* The user.                                                               *)

ChooseTopic(k, t) ==
    /\ t # topic
    /\ Starts(k, 0)
    /\ topic' = t
    /\ StartLoad(k, t)
    /\ UNCHANGED <<question, server, landed>>

\* questionMatchesCategory looks at the category in the question's id.
Handler(q) ==
    IF q = NoQuestion THEN "chat" ELSE IF q.topic = topic THEN "answer" ELSE "reload"

Submit(k) ==
    /\ Starts(k, 0)
    /\ ~ loading
    /\ task' = Begin(k, Handler(question[topic]), topic, question[topic])
    /\ loading' = TRUE
    /\ UNCHANGED <<topic, question, graph, latest, server, landed>>

\* The button is never disabled.
NewSession(k) ==
    /\ Starts(k, 1)
    /\ task' = Begin(k, "reset", topic, NoQuestion)
    /\ loading' = TRUE
    /\ UNCHANGED <<topic, question, graph, latest, server, landed>>

-----------------------------------------------------------------------------
(* The server and the network.                                             *)

NextQuestion(t, known) ==
    LET open == SelectSeq(Keys[t], LAMBDA key : key \notin known)
    IN  IF open = <<>> THEN NoQuestion ELSE [topic |-> t, key |-> Head(open)]

Answered(k, reply, conflict) ==
    task' = [task EXCEPT ![k].at = "answered", ![k].reply = reply, ![k].conflict = conflict]

OpenSession(k) ==
    /\ Request(k) = "create"
    /\ opened' = TRUE
    /\ Answered(k, NoQuestion, FALSE)
    /\ UNCHANGED <<selected, facts, landed>>

SelectCategory(k) ==
    /\ Request(k) = "select"
    /\ selected' = task[k].topic
    /\ Answered(k, NoQuestion, FALSE)
    /\ UNCHANGED <<opened, facts, landed>>

GetNextQuestions(k) ==
    /\ Request(k) = "next"
    /\ Answered(k, NextQuestion(selected, facts[selected]), FALSE)
    /\ UNCHANGED <<server, landed>>

\* The fact goes under the selected category, whichever question it answers.
SubmitAnswer(k) ==
    /\ Request(k) = "answer"
    /\ facts' = [facts EXCEPT ![selected] = @ \cup {task[k].question.key}]
    /\ Answered(k, NextQuestion(selected, facts'[selected]), FALSE)
    /\ landed' = [question |-> task[k].question, under |-> selected, alone |-> task[k].alone]
    /\ UNCHANGED <<opened, selected>>

\* A conflict stores nothing and asks the question again, or none.
AnswerConflicts(k) ==
    /\ Request(k) = "answer"
    /\ task[k].question.key \in facts[selected]
    /\ \E q \in {NoQuestion, [topic |-> selected, key |-> task[k].question.key]} : Answered(k, q, TRUE)
    /\ UNCHANGED <<server, landed>>

ResetCategory(k) ==
    /\ Request(k) = "reset"
    /\ selected' = task[k].topic
    /\ facts' = [facts EXCEPT ![task[k].topic] = {}]
    /\ Answered(k, NoQuestion, FALSE)
    /\ UNCHANGED <<opened, landed>>

\* Evaluations, the graph of a category and chat answers change nothing here.
ReadForTab(k) ==
    /\ Request(k) \in {"evaluate", "graph", "chat"}
    /\ Answered(k, task[k].reply, FALSE)
    /\ UNCHANGED <<server, landed>>

ServerAnswers(k) ==
    /\ Awaits(k)
    /\ opened \/ Request(k) = "create"
    /\ \/ OpenSession(k) \/ SelectCategory(k) \/ GetNextQuestions(k) \/ SubmitAnswer(k)
       \/ AnswerConflicts(k) \/ ResetCategory(k) \/ ReadForTab(k)
    /\ UNCHANGED <<topic, question, loading, graph, latest>>

\* The request or its answer is lost, or refused without a session.
Fails(k) ==
    /\ task[k] # NoTask
    /\ task[k].at \in {"server", "answered"}
    /\ task' = [task EXCEPT ![k].at = "failed"]
    /\ UNCHANGED <<topic, question, loading, graph, latest, server, landed>>

-----------------------------------------------------------------------------
(* The handlers go on.                                                     *)

Over(k) == task' = [task EXCEPT ![k].at = "over"]
GoesOn(k) == task' = [task EXCEPT ![k].at = "server", ![k].left = Tail(@)]
IsLast(k) == Len(task[k].left) = 1

\* Mutant: the load of a topic shows what it brings whenever it comes.
AlwaysCurrentRequest(k) == TRUE

IsCurrentRequest(k) == latest = k /\ ~ task[k].aborted

LoadGoesOn(k) ==
    /\ task[k].kind = "load"
    /\ IF ~ IsCurrentRequest(k)
       THEN Over(k) /\ UNCHANGED <<question, loading, graph>>
       ELSE IF task[k].at = "failed"
       THEN Over(k) /\ loading' = FALSE /\ UNCHANGED <<question, graph>>
       ELSE IF ~ IsLast(k)
       THEN GoesOn(k) /\ UNCHANGED <<question, loading, graph>>
       ELSE /\ Over(k)
            /\ graph' = [topic |-> task[k].topic, by |-> "load"]
            /\ question' = [question EXCEPT ![task[k].topic] = task[k].reply]
            /\ loading' = FALSE
    /\ UNCHANGED <<topic, latest>>

\* The finally block of handleSubmit.
HandlerEnds(k) == Over(k) /\ loading' = FALSE

ActiveQuestion(k, q) == question' = [question EXCEPT ![task[k].topic] = q]

SubmitFails(k) ==
    /\ task[k].kind \in {"answer", "reload", "chat"}
    /\ task[k].at = "failed"
    /\ HandlerEnds(k)
    /\ UNCHANGED <<topic, question, graph, latest>>

\* Mutant: the early return of a conflict leaves the panel loading.
ConflictLeavesLoading(k) == Over(k) /\ UNCHANGED loading

ConflictEnds(k) == HandlerEnds(k)

AnswerGoesOn(k) ==
    /\ task[k].kind = "answer"
    /\ task[k].at = "answered"
    /\ CASE Request(k) \in {"select", "evaluate"} ->
              GoesOn(k) /\ UNCHANGED <<question, loading, graph>>
         [] Request(k) = "answer" /\ task[k].conflict ->
              /\ ConflictEnds(k)
              /\ ActiveQuestion(k, IF task[k].reply = NoQuestion THEN task[k].question
                                   ELSE task[k].reply)
              /\ UNCHANGED graph
         [] Request(k) = "answer" /\ ~ task[k].conflict ->
              /\ ActiveQuestion(k, task[k].reply)
              /\ IF task[k].reply # NoQuestion THEN HandlerEnds(k)
                 ELSE GoesOn(k) /\ UNCHANGED loading
              /\ UNCHANGED graph
         [] Request(k) = "graph" ->
              /\ HandlerEnds(k)
              /\ graph' = [topic |-> task[k].topic, by |-> "answer"]
              /\ UNCHANGED question
    /\ UNCHANGED <<topic, latest>>

QuestionsGoOn(k) ==
    /\ task[k].kind \in {"reload", "chat"}
    /\ task[k].at = "answered"
    /\ IF ~ IsLast(k) THEN GoesOn(k) /\ UNCHANGED <<question, loading>>
       ELSE /\ HandlerEnds(k)
            /\ IF task[k].kind = "reload" THEN ActiveQuestion(k, task[k].reply)
               ELSE UNCHANGED question
    /\ UNCHANGED <<topic, graph, latest>>

\* Failed or not, the topic starts over: the effect loads the topic chosen by now.
ResetEnds(k) ==
    /\ task[k].kind = "reset"
    /\ ActiveQuestion(k, NoQuestion)
    /\ \E j \in Tasks :
         /\ Fresh(j)
         /\ task' = [Loaded(Begin(j, "load", topic, NoQuestion), j) EXCEPT ![k].at = "over"]
         /\ latest' = j
         /\ loading' = TRUE
    /\ graph' = NoGraph
    /\ UNCHANGED topic

GoOn(k) ==
    /\ Returned(k)
    /\ LoadGoesOn(k) \/ SubmitFails(k) \/ AnswerGoesOn(k) \/ QuestionsGoOn(k) \/ ResetEnds(k)
    /\ UNCHANGED <<server, landed>>

Next ==
    \E k \in Tasks :
        \/ \E t \in Topics : ChooseTopic(k, t)
        \/ Submit(k)
        \/ NewSession(k)
        \/ ServerAnswers(k)
        \/ Fails(k)
        \/ GoOn(k)

\* A request ends, by an answer or an error of fetch, and its handler goes on.
Fairness == \A k \in Tasks : WF_vars(GoOn(k)) /\ WF_vars(ServerAnswers(k) \/ Fails(k))

Spec == Init /\ [][Next]_vars /\ Fairness

-----------------------------------------------------------------------------
\* The panel never stays loading: whatever overlaps, fails or is aborted, the
\* user can send again (the finally blocks at 453-457 and 578-580, the guard of 490).
LoadingEnds == loading ~> ~ loading

\* A graph of a topic other than the chosen one was brought by the last answer
\* under a topic left meanwhile, never by the load of a topic (398, 413-415, 574).
StaleGraphsComeFromAnswers ==
    graph # NoGraph /\ graph.topic # topic => graph.by = "answer"

\* An answer whose handler overlapped with no other, aborted loads the server
\* still serves included, is stored under the topic of its question, whatever
\* was chosen, failed or reset before (522-523, 553-554, sessions/api.py:373).
LoneAnswersLandInTheirTopic ==
    landed # NoLanding /\ landed.alone => landed.question.topic = landed.under
=============================================================================
