------------------------------ MODULE Assistant ------------------------------
(***************************************************************************)
(* The AI chat of one parent (src/src/handlers/ai_chat.py, webapp/app.py,  *)
(* src/src/analytics_engine.py, src/src/db/ai_chat.py).  A question comes  *)
(* from the bot's chat mode or from the dashboard.  Worker threads of both *)
(* processes answer questions at once and share the stored history of the  *)
(* pair (parent, family): a worker reads the last HistoryLimit messages,   *)
(* stores the question, asks the model with as many rounds of tools as     *)
(* allowed, stores the answer and shows it.  The question is stored before *)
(* the call, so a failed call leaves a question without an answer; the     *)
(* parent may press "retry" or clear the history while a call is running.  *)
(*                                                                         *)
(* A message is its role and the number of the question it belongs to.     *)
(***************************************************************************)
EXTENDS Naturals, Sequences

CONSTANTS
    Homes,         \* families of the parent
    BotWorkers,    \* worker threads of the bot
    WebWorkers,    \* threads of the web application
    HistoryLimit,  \* MAX_HISTORY_FOR_AI
    ToolLimit,     \* MAX_TOOL_ITERATIONS
    MaxQuestions,  \* bound: questions asked
    MaxRetries,    \* bound: presses of the retry button
    MaxMishaps     \* bound: failed calls of Telegram or the database, and crashes

ASSUME AssistantAssumption ==
    /\ BotWorkers \cap WebWorkers = {}
    /\ HistoryLimit \in Nat \ {0} /\ ToolLimit \in Nat
    /\ MaxQuestions \in Nat /\ MaxRetries \in Nat /\ MaxMishaps \in Nat

VARIABLES
    chatState,   \* user_states: the family of ai_chat_mode, "none" or "elsewhere"
    access,      \* "paid", "lapsed" or "gone" (not a member), for each family
    history,     \* ai_chat_messages of the parent, for each family
    work,        \* what each worker is doing
    retryShown,  \* an error message with the retry button is in the chat
    asked,       \* questions so far
    retries,     \* presses of the button so far
    mishaps,
    open,        \* questions whose asker has not been told anything
    dropped,     \* those of them that a handler ended in silence
    wiped        \* questions that were stored or being answered at a clear

chatVars ==
    <<chatState, access, history, work, retryShown, asked, retries, mishaps, open,
      dropped, wiped>>

Askers == BotWorkers \cup WebWorkers
Numbers == 1..MaxQuestions
Steps == {"state", "member", "read", "save", "show", "call", "keep", "deliver", "sorry"}
Resting == [at |-> "idle"]
BeginTurn(step, f, n, again) == [at |-> step, home |-> f, q |-> n, again |-> again,
                            shown |-> FALSE, calls |-> 0, turns |-> <<>>]
Message(r, n) == [role |-> r, q |-> n]
Messages == [role : {"user", "assistant"}, q : Numbers \cup {0}]   \* 0: a round of tools
Assignments == [at : Steps, home : Homes, q : Numbers, again : BOOLEAN, shown : BOOLEAN,
          calls : 0..ToolLimit, turns : Seq(Messages)]
-----------------------------------------------------------------------------
(* _sanitize_conversation: leading assistants go, of equal neighbours the  *)
(* latest stays.                                                           *)

\* Deviation: only neighbours are merged, a leading assistant stays.
CleanedWithLeading(kept, m) ==
    IF kept # <<>> /\ kept[Len(kept)].role = m.role THEN [kept EXCEPT ![Len(kept)] = m]
    ELSE Append(kept, m)

Cleaned(kept, m) ==
    IF kept = <<>> THEN IF m.role = "user" THEN <<m>> ELSE kept
    ELSE IF kept[Len(kept)].role = m.role THEN [kept EXCEPT ![Len(kept)] = m]
    ELSE Append(kept, m)

Sanitize(turns) ==
    LET kept[i \in 0..Len(turns)] == IF i = 0 THEN <<>> ELSE Cleaned(kept[i - 1], turns[i])
    IN kept[Len(turns)]

Conversation(turns, n) == Sanitize(Append(turns, Message("user", n)))

Recent(h) == SubSeq(h, IF Len(h) > HistoryLimit THEN Len(h) - HistoryLimit + 1 ELSE 1, Len(h))

\* The last of the parent's messages, if there is one.
LatestQuestions(h) ==
    {h[i].q : i \in {k \in DOMAIN h : /\ h[k].role = "user"
                                      /\ \A j \in (k + 1)..Len(h) : h[j].role # "user"}}
-----------------------------------------------------------------------------
AssistantInit ==
    /\ chatState = "none"
    /\ access = [f \in Homes |-> "paid"]
    /\ history = [f \in Homes |-> <<>>]
    /\ work = [w \in Askers |-> Resting]
    /\ retryShown = FALSE
    /\ asked = 0 /\ retries = 0 /\ mishaps = 0
    /\ open = {} /\ dropped = {} /\ wiped = {}

At(w, step) == work[w].at = step
Go(w, step) == work' = [work EXCEPT ![w].at = step]
Rest(w) == work' = [work EXCEPT ![w] = Resting]
Told(w) == Rest(w) /\ open' = open \ {work[w].q} /\ UNCHANGED dropped
SaysNothing(w) == Rest(w) /\ dropped' = dropped \cup {work[w].q} /\ UNCHANGED open
StillOpen == UNCHANGED <<open, dropped>>
Mishap == mishaps < MaxMishaps /\ mishaps' = mishaps + 1
NoMishap == UNCHANGED mishaps
Outside == <<chatState, access, retryShown, asked, retries>>
-----------------------------------------------------------------------------
(* The parent, the family and the other dialogues.                         *)

\* "Chat": one paid family, or the choice among several checked on the press.
EnterChat(f) ==
    /\ access[f] = "paid" /\ chatState' = f
    /\ UNCHANGED <<access, history, work, retryShown, asked, retries, mishaps, open,
                   dropped, wiped>>

\* Any other dialogue overwrites the parent's only state, or clears it.
OtherDialogue ==
    /\ chatState' \in {"none", "elsewhere"}
    /\ UNCHANGED <<access, history, work, retryShown, asked, retries, mishaps, open,
                   dropped, wiped>>

AccessChanges(f) ==
    /\ access' \in {[access EXCEPT ![f] = a] : a \in {"paid", "lapsed", "gone"}}
    /\ UNCHANGED <<chatState, history, work, retryShown, asked, retries, mishaps, open,
                   dropped, wiped>>

\* A text in chat mode; the filter has seen the mode, the worker reads it anew.
AskInChat(w) ==
    /\ At(w, "idle") /\ chatState \in Homes /\ asked < MaxQuestions
    /\ asked' = asked + 1 /\ open' = open \cup {asked + 1}
    /\ work' = [work EXCEPT ![w] = BeginTurn("state", chatState, asked + 1, FALSE)]
    /\ UNCHANGED <<chatState, access, history, retryShown, retries, mishaps, dropped, wiped>>

\* The retry button repeats the latest question of the history of the family
\* the parent's state names now, whichever question failed.
PressRetry(w) ==
    /\ At(w, "idle") /\ retryShown /\ retries < MaxRetries
    /\ retries' = retries + 1
    /\ \/ /\ chatState \in Homes => LatestQuestions(Recent(history[chatState])) = {}
          /\ UNCHANGED <<work, open, dropped>>                              \* "session lost"
       \/ chatState \in Homes /\ \E n \in LatestQuestions(Recent(history[chatState])) :
             /\ open' = open \cup {n} /\ dropped' = dropped \ {n}
             /\ work' = [work EXCEPT ![w] = BeginTurn("member", chatState, n, TRUE)]
    /\ retryShown' \in BOOLEAN     \* the press takes its own button away, if it can
    /\ UNCHANGED <<chatState, access, history, asked, mishaps, wiped>>

\* The dashboard: membership, subscription and its own limit of questions.
AskOnDashboard(w, f) ==
    /\ At(w, "idle") /\ access[f] = "paid" /\ asked < MaxQuestions
    /\ asked' = asked + 1 /\ open' = open \cup {asked + 1}
    /\ work' = [work EXCEPT ![w] = BeginTurn("read", f, asked + 1, FALSE)]
    /\ UNCHANGED <<chatState, access, history, retryShown, retries, mishaps, dropped, wiped>>

ClearHistory(f) ==
    /\ access[f] = "paid" /\ history[f] # <<>>
    /\ history' = [history EXCEPT ![f] = <<>>]
    /\ wiped' = wiped \cup {history[f][i].q : i \in DOMAIN history[f]}
                      \cup {work[w].q : w \in {v \in Askers : work[v] # Resting}}
    /\ UNCHANGED <<chatState, access, work, retryShown, asked, retries, mishaps, open,
                   dropped>>
-----------------------------------------------------------------------------
(* A worker of the bot before the call.                                    *)

\* The dialogue ended meanwhile: nothing is said.  Too long or too many: the
\* parent is told.  Whatever another dialogue left there has no family: the parent
\* is told and the state cleared or, when it is not an object, the handler breaks.
ReadState(w) ==
    /\ At(w, "state")
    /\ \/ chatState \in Homes
          /\ work' = [work EXCEPT ![w].at = "member", ![w].home = chatState]
          /\ StillOpen /\ UNCHANGED chatState
       \/ chatState = "none" /\ SaysNothing(w) /\ UNCHANGED chatState
       \/ chatState # "none" /\ Told(w) /\ UNCHANGED chatState
       \/ chatState = "elsewhere" /\ Told(w) /\ chatState' = "none"
       \/ chatState = "elsewhere" /\ SaysNothing(w) /\ UNCHANGED chatState
    /\ UNCHANGED <<access, history, retryShown, asked, retries, mishaps, wiped>>

\* No longer a member: the state is cleared.  No children: the parent is told so.
CheckMember(w) ==
    /\ At(w, "member")
    /\ \/ access[work[w].home] = "gone" /\ chatState' = "none" /\ Told(w)
       \/ access[work[w].home] # "gone" /\ Go(w, "read") /\ StillOpen /\ UNCHANGED chatState
       \/ access[work[w].home] # "gone" /\ Told(w) /\ UNCHANGED chatState
    /\ UNCHANGED <<access, history, retryShown, asked, retries, mishaps, wiped>>

ReadHistory(w) ==
    /\ At(w, "read")
    /\ work' = [work EXCEPT ![w].turns = Recent(history[work[w].home]),
                            ![w].at = IF work[w].again THEN "show" ELSE "save"]
    /\ UNCHANGED <<Outside, history, mishaps, open, dropped, wiped>>

Talk(w) == Conversation(work[w].turns, work[w].q)

SaveQuestion(w) ==
    /\ At(w, "save")
    /\ history' = [history EXCEPT ![work[w].home] = Append(@, Message("user", work[w].q))]
    /\ IF w \in BotWorkers THEN Go(w, "show")
       ELSE work' = [work EXCEPT ![w].at = "call", ![w].turns = Talk(w)]
    /\ UNCHANGED <<Outside, mishaps, open, dropped, wiped>>

\* "Thinking...": without it the answer will be a message of its own.
ShowPlaceholder(w) ==
    /\ At(w, "show")
    /\ \E sent \in BOOLEAN :
          /\ work' = [work EXCEPT ![w].at = "call", ![w].turns = Talk(w), ![w].shown = sent]
          /\ IF sent THEN NoMishap ELSE Mishap
    /\ UNCHANGED <<Outside, history, open, dropped, wiped>>
-----------------------------------------------------------------------------
(* answer_parent_question and what follows.                                *)

Tools == <<Message("assistant", 0), Message("user", 0)>>

\* One round: an answer, tools (after the last round no answer), or a failure.
CallModel(w) ==
    /\ At(w, "call")
    /\ \/ work[w].calls < ToolLimit
          /\ work' = [work EXCEPT ![w].calls = @ + 1, ![w].turns = @ \o Tools]
       \/ Go(w, "keep")
       \/ Go(w, "sorry")
    /\ UNCHANGED <<Outside, history, mishaps, open, dropped, wiped>>

KeepAnswer(w) ==
    /\ At(w, "keep")
    /\ history' = [history EXCEPT ![work[w].home] = Append(@, Message("assistant", work[w].q))]
    /\ IF w \in BotWorkers THEN Go(w, "deliver") /\ StillOpen ELSE Told(w)
    /\ UNCHANGED <<Outside, mishaps, wiped>>

\* The placeholder becomes the answer; a failed edit is followed by a message.
DeliverAnswer(w) ==
    /\ At(w, "deliver")
    /\ \/ Told(w) /\ NoMishap
       \/ work[w].shown /\ Told(w) /\ Mishap
    /\ UNCHANGED <<Outside, history, wiped>>

\* Deviation: the error is shown in the placeholder or not at all.
SayFailedByEditOnly(w) ==
    /\ At(w, "sorry") /\ NoMishap
    /\ IF work[w].shown THEN Told(w) ELSE Rest(w) /\ StillOpen
    /\ retryShown' = (retryShown \/ w \in BotWorkers)
    /\ UNCHANGED <<chatState, access, asked, retries, history, wiped>>

SayFailed(w) ==
    /\ At(w, "sorry")
    /\ \/ Told(w) /\ NoMishap
       \/ work[w].shown /\ Told(w) /\ Mishap
    /\ retryShown' = (retryShown \/ w \in BotWorkers)
    /\ UNCHANGED <<chatState, access, asked, retries, history, wiped>>

\* A read, a write or the last message fails outside every try: the exception ends
\* the handler.  The bot says nothing more, at best "thinking..." stays on the
\* screen; the dashboard answers with an error.
WorkFails(w) ==
    /\ work[w] # Resting /\ ~ At(w, "call")
    /\ Mishap
    /\ IF w \in BotWorkers THEN SaysNothing(w) ELSE Told(w)
    /\ UNCHANGED <<Outside, history, wiped>>

ProcessDies(workers) ==
    /\ \E w \in workers : work[w] # Resting
    /\ Mishap
    /\ work' = [w \in Askers |-> IF w \in workers THEN Resting ELSE work[w]]
    /\ dropped' = dropped \cup {work[w].q : w \in {v \in workers : work[v] # Resting}}
    /\ UNCHANGED <<Outside, history, open, wiped>>
-----------------------------------------------------------------------------
WorkerStep(w) ==
    \/ ReadState(w) \/ CheckMember(w) \/ ReadHistory(w) \/ SaveQuestion(w) \/ ShowPlaceholder(w)
    \/ CallModel(w) \/ KeepAnswer(w) \/ DeliverAnswer(w) \/ SayFailed(w)

AssistantNext ==
    \/ \E f \in Homes : EnterChat(f) \/ AccessChanges(f) \/ ClearHistory(f)
    \/ OtherDialogue
    \/ \E w \in BotWorkers : AskInChat(w) \/ PressRetry(w)
    \/ \E w \in WebWorkers, f \in Homes : AskOnDashboard(w, f)
    \/ \E w \in Askers : WorkerStep(w) \/ WorkFails(w)
    \/ ProcessDies(BotWorkers) \/ ProcessDies(WebWorkers)

AssistantSpec == AssistantInit /\ [][AssistantNext]_chatVars
                 /\ \A w \in Askers : WF_chatVars(WorkerStep(w))
-----------------------------------------------------------------------------
AssistantTypeOK ==
    /\ chatState \in Homes \cup {"none", "elsewhere"}
    /\ access \in [Homes -> {"paid", "lapsed", "gone"}]
    /\ history \in [Homes -> Seq(Messages)]
    /\ work \in [Askers -> {Resting} \cup Assignments]
    /\ \A w \in WebWorkers : work[w] # Resting => ~ work[w].again /\ ~ work[w].shown
    /\ retryShown \in BOOLEAN /\ asked \in 0..MaxQuestions /\ retries \in 0..MaxRetries
    /\ mishaps \in 0..MaxMishaps /\ open \subseteq 1..asked
    /\ dropped \subseteq 1..asked /\ wiped \subseteq 1..asked

\* What the model is sent begins with a parent's message, alternates and ends
\* with the question that is being answered or with the results of its tools.
CallIsValid(w) ==
    LET turns == work[w].turns IN
    /\ turns # <<>>
    /\ \A i \in DOMAIN turns : turns[i].role = IF i % 2 = 1 THEN "user" ELSE "assistant"
    /\ turns[Len(turns)].q = IF work[w].calls = 0 THEN work[w].q ELSE 0
    /\ turns[Len(turns)].role = "user"

\* A question is stored once and an answer after its question.
HistoryIsSound(f) ==
    LET h == history[f] IN
    /\ \A i, j \in DOMAIN h : h[i].role = "user" /\ h[i] = h[j] => i = j
    /\ \A j \in DOMAIN h : h[j].role = "assistant" /\ h[j].q \notin wiped =>
                              \E i \in 1..(j - 1) : h[i] = Message("user", h[j].q)

\* No standing refusal (analytics_engine 439-472): whatever failed calls,
\* retries, clears and other workers left in the history, and wherever its
\* last HistoryLimit messages begin, every request is one the API accepts, and
\* no retry stores its question again.
ConversationIsSound ==
    /\ \A w \in Askers : At(w, "call") => CallIsValid(w)
    /\ \A f \in Homes : HistoryIsSound(f)

\* Every question ends (ai_chat 261-452, app 1434-1514): whatever the model, the
\* tools, the placeholder and another worker do, the parent is told something in the
\* end.  Three things leave a question in silence, and nothing else does: the
\* dialogue was left between the filter and the handler, a call of the database or
\* the last message failed outside the try blocks, or the process died.
QuestionsEnd == \A n \in Numbers : (n \in open) ~> (n \notin open \/ n \in dropped)
=============================================================================
