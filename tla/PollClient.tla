------------------------------ MODULE PollClient ------------------------------
(***************************************************************************)
(* What the two clients of the repository have in common (client/client.go,*)
(* js-client/client.js): a cursor made of the last event's time and ID, a  *)
(* loop that polls from it, and a flag that ends the loop.  The server is  *)
(* module EventLog: the category's log, and the request this client has    *)
(* under way there.                                                        *)
(***************************************************************************)
EXTENDS EventLog, TimeConv, SequencesExt

CONSTANTS
  self,                  \* this client
  Category,              \* options.Category
  StartTimes             \* times in the past or future to poll since

ASSUME PollClientAssumption == self \in Clients /\ Category \in Categories

VARIABLES
  language,              \* "go" or "js"
  pc,                    \* where the loop is
  since, lastID,         \* the cursor
  todo,                  \* events of an answer that are to be handed over
  conveyed,              \* all events handed over to the program so far
  stopped,               \* stop was called
  start,                 \* history: the time the program asked to poll since
  begun,                 \* history: how long the log was when it asked
  movedTo,               \* history: the last timeout that moved the cursor
  promised               \* history: the events under way when stop was called

pollVars == <<language, pc, since, lastID, todo, conveyed, stopped, start,
              begun, movedTo, promised>>
cursorVars == <<since, lastID>>
historyVars == <<language, start, begun, movedTo, promised>>

-----------------------------------------------------------------------------
(* since_time crosses the wire in milliseconds and is compared with the    *)
(* events' times in milliseconds, but is nanoseconds in between.           *)
SendPoll(from, id) ==
  Ask(self, Category, timeToEpochMilliseconds(millisecondStringToTime(from)), id)

Answered(status) == pc = "polling" /\ answer[self].status = status

(* No answer, an HTTP status other than 200, or one that says "error".     *)
Failed == Answered("error") \/ Answered("gone")

Goto(label) == pc' = label

PollInit ==
  /\ language \in {"go", "js"}
  /\ pc = "new"
  /\ since = 0 /\ lastID = NoID
  /\ todo = <<>> /\ conveyed = <<>>
  /\ stopped = FALSE
  /\ start = 0 /\ begun = 0 /\ movedTo = 0 /\ promised = 0
=============================================================================
