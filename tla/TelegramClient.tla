--------------------------- MODULE TelegramClient ---------------------------
(***************************************************************************)
(* The client of the Telegram Bot API, which every goroutine that talks to *)
(* a chat shares: one limiter for each chat, made when it is first wanted, *)
(* the retries after "too many requests", and the icons that it stops      *)
(* sending once Telegram has refused them.                                 *)
(*                                                                         *)
(* Time is counted in ticks, and only what is left of every wait is kept.  *)
(* A goroutine whose turn has come takes it within the tick.  The limiter  *)
(* of all requests has a burst of 25, and so few callers, each waiting for *)
(* its chat or for an answer, never use that up: it costs them a step in   *)
(* which the call may be cancelled, and no time.                           *)
(***************************************************************************)
EXTENDS Messages, FiniteSetsExt

CONSTANTS
  Callers,        \* the goroutines that call the client
  Chats, NoChat,
  Digests,        \* what they send: a digest, or an alert of one block
  Second,         \* between two turns of a chat, in ticks
  MaxLimiters,    \* maxChatLimiters
  Attempts,       \* of a request that is told to come later
  Demands,        \* what Telegram may say of how much later
  MaxRetryAfter,  \* maxRetryAfter
  MaxAhead        \* bound: no call is cancelled when turns are promised further ahead

ASSUME ClientAssumption ==
  /\ IsFiniteSet(Callers) /\ IsFiniteSet(Chats) /\ NoChat \notin Chats
  /\ Second \in Nat \ {0} /\ MaxLimiters \in Nat \ {0}
  /\ Attempts \in Nat \ {0} /\ Demands \subseteq Nat \ {0}
  /\ MaxRetryAfter \in Nat \ {0} /\ MaxAhead \in Nat

ASSUME DigestsAssumption == Digests \subseteq Seq(Blocks)

VARIABLES
  perChat,        \* chats with a limiter in the map
  ahead,          \* how far that limiter has promised turns, in ticks from now
  iconsRefused,
  caller,         \* the goroutines
  sinceTurn,      \* history: ticks since the last turn of a chat, up to Second
  retired         \* history: chats whose last turn was of a limiter since forgotten

limits  == <<perChat, ahead>>
history == <<sinceTurn, retired>>
vars    == <<limits, iconsRefused, caller, history>>

(***************************************************************************)
(* A caller: its chat, the digest it sends, the part at hand, whether that *)
(* has icons, the attempt, what is left of a wait, whether the limiter it  *)
(* waits for has left the map, and the parts that have arrived.  It comes  *)
(* to rest after its call has returned.                                    *)
(***************************************************************************)
AtRest ==
  [pc |-> "rest", chat |-> NoChat, parts |-> <<>>, part |-> 1, icons |-> FALSE,
   attempt |-> 1, timer |-> 0, orphan |-> FALSE, arrived |-> <<>>]

Init ==
  /\ perChat = {} /\ ahead = [ch \in Chats |-> 0]
  /\ iconsRefused = FALSE
  /\ caller = [c \in Callers |-> AtRest]
  /\ sinceTurn = [ch \in Chats |-> Second] /\ retired = {}

At(c, pc)         == caller[c].pc = pc
Become(c, record) == caller' = [caller EXCEPT ![c] = record]

\* What a call returns is where it ends: "ok", "gone" or "error".
Results == {"ok", "gone", "error"}
Return(c, result, arrived) ==
  Become(c, [AtRest EXCEPT !.pc = result, !.parts = caller[c].parts, !.arrived = arrived])

\* SendDigest sends the parts of a digest one by one.
Texts == {DigestParts(d) : d \in Digests}

\* An alert, a notice, a reply or an edit is of one part, a digest of several.  Only
\* a new message drops its icons, so an edit counts as one without.  The methods
\* that send no message wait for no chat.
Begin(c) ==
  /\ At(c, "rest")
  /\ \/ \E ch \in Chats, parts \in Texts, icons \in BOOLEAN :
          Become(c, [AtRest EXCEPT !.pc = "look", !.chat = ch, !.parts = parts, !.icons = icons])
     \/ Become(c, [AtRest EXCEPT !.pc = "queue"])
  /\ UNCHANGED <<limits, iconsRefused, history>>

Rest(c) ==
  /\ caller[c].pc \in Results /\ Become(c, AtRest)
  /\ UNCHANGED <<limits, iconsRefused, history>>

(**************************** The limiters *******************************)

\* A bug: a limiter is made for every call.
MakeLimiter(c) ==
  LET ch == caller[c].chat
  IN  /\ At(c, "look")
      /\ perChat' = perChat \cup {ch} /\ ahead' = [ahead EXCEPT ![ch] = Second]
      /\ Become(c, [caller[c] EXCEPT !.pc = "turn", !.timer = 0])
      /\ UNCHANGED <<iconsRefused, history>>

\* The limiter promises a turn after all those it has promised before.
Promise(c, others) ==
  LET ch == caller[c].chat
  IN  /\ ahead' = [x \in Chats |-> IF x = ch THEN ahead[x] + Second
                                   ELSE IF x \in others THEN 0 ELSE ahead[x]]
      /\ caller' = [x \in Callers |->
           IF x = c THEN [caller[c] EXCEPT !.pc = "turn", !.timer = ahead[ch]]
           ELSE IF At(x, "turn") /\ caller[x].chat \in others
           THEN [caller[x] EXCEPT !.orphan = TRUE] ELSE caller[x]]

\* waitForChat finds the limiter of the chat or makes it; a full map starts afresh,
\* and those who wait for a limiter of the old one go on waiting for it.  What
\* happens between the look at the map and the promise changes neither.
WaitForChat(c) ==
  LET ch   == caller[c].chat
      lost == IF ch \notin perChat /\ Cardinality(perChat) >= MaxLimiters
              THEN perChat ELSE {}
  IN  /\ At(c, "look")
      /\ perChat' = (perChat \ lost) \cup {ch}
      /\ Promise(c, lost)
      /\ retired' = retired \cup {x \in lost : sinceTurn[x] < Second}
      /\ UNCHANGED <<iconsRefused, sinceTurn>>

\* The turn of the chat has come: iconsRefused is loaded, and the text stripped.
TakeTurn(c) ==
  LET ch == caller[c].chat
  IN  /\ At(c, "turn") /\ caller[c].timer = 0
      /\ Become(c, [caller[c] EXCEPT !.pc = "queue", !.icons = @ /\ ~iconsRefused,
                                     !.orphan = FALSE])
      /\ sinceTurn' = [sinceTurn EXCEPT ![ch] = 0]
      /\ retired' = IF caller[c].orphan THEN retired \cup {ch} ELSE retired \ {ch}
      /\ UNCHANGED <<limits, iconsRefused>>

\* callOnce waits for the limiter of all requests: first, again and resent alike.
Request(c) ==
  /\ At(c, "queue")
  /\ Become(c, [caller[c] EXCEPT !.pc = "out"])
  /\ UNCHANGED <<limits, iconsRefused, history>>

(**************************** The answers ********************************)

WithText(c) == IF caller[c].parts = <<>> THEN caller[c].arrived
               ELSE Append(caller[c].arrived, caller[c].parts[caller[c].part])

\* The next part of a digest waits for its chat again, and may have icons.
Accepted(c) ==
  /\ At(c, "out")
  /\ IF caller[c].part >= Len(caller[c].parts)
     THEN Return(c, "ok", WithText(c))
     ELSE \E icons \in BOOLEAN :
            Become(c, [caller[c] EXCEPT !.pc = "look", !.part = @ + 1, !.icons = icons,
                                        !.attempt = 1, !.arrived = WithText(c)])
  /\ UNCHANGED <<limits, iconsRefused, history>>

\* A bug: a request with no answer is made again.
MakeAgain(c) ==
  /\ At(c, "out")
  /\ \E text \in {caller[c].arrived, WithText(c)} :
       Become(c, [caller[c] EXCEPT !.pc = "queue", !.arrived = text])
  /\ UNCHANGED <<limits, iconsRefused, history>>

\* No answer, or none that can be read, within thirty seconds: the request may
\* have been served.
Lost(c) ==
  /\ At(c, "out")
  /\ \E text \in {caller[c].arrived, WithText(c)} :
       Return(c, "error", text)
  /\ UNCHANGED <<limits, iconsRefused, history>>

\* A bug: the attempts are not counted.
SleepEveryTime(c) ==
  /\ At(c, "out")
  /\ \E d \in Demands :
       Become(c, [caller[c] EXCEPT !.pc = "sleep", !.timer = Min({d, MaxRetryAfter})])
  /\ UNCHANGED <<limits, iconsRefused, history>>

\* Telegram says how much later to come.
TooMany(c) ==
  /\ At(c, "out")
  /\ IF caller[c].attempt = Attempts THEN Return(c, "error", caller[c].arrived)
     ELSE \E d \in Demands :
            Become(c, [caller[c] EXCEPT !.pc = "sleep", !.attempt = @ + 1,
                                        !.timer = Min({d, MaxRetryAfter})])
  /\ UNCHANGED <<limits, iconsRefused, history>>

\* The sleep ends; the limiter of the chat is not asked again.
WakeUp(c) ==
  /\ At(c, "sleep") /\ caller[c].timer = 0
  /\ Become(c, [caller[c] EXCEPT !.pc = "queue"])
  /\ UNCHANGED <<limits, iconsRefused, history>>

\* A request that Telegram refuses.  With icons in the text any "bad request" is
\* held against them, "chat not found" too: the text is sent once more without.
Refused(c) ==
  /\ At(c, "out")
  /\ \E answer \in {"bad request", "chat not found", "forbidden", "other"} :
       IF caller[c].icons /\ answer \in {"bad request", "chat not found"}
       THEN /\ iconsRefused' = TRUE
            /\ Become(c, [caller[c] EXCEPT !.pc = "queue", !.icons = FALSE, !.attempt = 1])
       ELSE /\ Return(c, IF answer \in {"chat not found", "forbidden"} THEN "gone"
                         ELSE "error", caller[c].arrived)
            /\ UNCHANGED iconsRefused
  /\ UNCHANGED <<limits, history>>

Answered(c) == Accepted(c) \/ Lost(c) \/ TooMany(c) \/ Refused(c)

\* The context of the call ends while it waits.  A limiter takes a turn back only
\* if it has promised none after it.
Cancel(c) ==
  LET ch   == caller[c].chat
      t    == caller[c].timer
      last == At(c, "turn") /\ t > 0 /\ ~caller[c].orphan /\ ahead[ch] = t + Second
  IN  /\ caller[c].pc \in {"look", "turn", "queue", "sleep"}
      /\ \A x \in Chats : ahead[x] <= MaxAhead
      /\ ahead' = IF last THEN [ahead EXCEPT ![ch] = @ - Second] ELSE ahead
      /\ Return(c, "error", caller[c].arrived)
      /\ UNCHANGED <<perChat, iconsRefused, history>>

(******************************* Time ************************************)

Less(n) == IF n = 0 THEN 0 ELSE n - 1

\* No timer that has run out is left for the next tick.
Tick ==
  /\ \A c \in Callers : At(c, "turn") => caller[c].timer > 0
  /\ caller' = [c \in Callers |-> [caller[c] EXCEPT !.timer = Less(@)]]
  /\ ahead' = [ch \in Chats |-> Less(ahead[ch])]
  /\ sinceTurn' = [ch \in Chats |-> Min({sinceTurn[ch] + 1, Second})]
  /\ retired' = {ch \in retired : sinceTurn[ch] + 1 < Second}
  /\ UNCHANGED <<perChat, iconsRefused>>

Call(c) ==
  \/ WaitForChat(c) \/ TakeTurn(c) \/ Request(c)
  \/ Answered(c) \/ WakeUp(c) \/ Rest(c)

Next ==
  \/ \E c \in Callers : Begin(c) \/ Call(c) \/ Cancel(c)
  \/ Tick

Spec == Init /\ [][Next]_vars

\* The scheduler runs every goroutine, Telegram answers or the request times out,
\* and time goes on, however many steps are made within a tick.
FairSpec == Spec /\ SF_vars(Tick) /\ \A c \in Callers : WF_vars(Call(c))

(***************************** Properties ********************************)

\* What a call has sent is the beginning of its digest, every message whole, once
\* and in order, through retries, refused icons and lost answers; all of it when it
\* returns no error, and not all when it returns that the chat is gone.
ArrivesInOrderOnce ==
  \A c \in Callers :
    /\ IsPrefix(caller[c].arrived, caller[c].parts)
    /\ At(c, "ok") => caller[c].arrived = caller[c].parts
    /\ At(c, "gone") /\ caller[c].parts # <<>> => caller[c].arrived # caller[c].parts

\* Two turns of a chat are a second apart, however its callers race for its limiter
\* and give turns back, unless the map was emptied between the two.
TurnsAreSpaced ==
  [][\A c \in Callers : At(c, "turn") /\ caller'[c].pc = "queue" =>
       \/ sinceTurn[caller[c].chat] >= Second
       \/ caller[c].orphan \/ caller[c].chat \in retired]_vars

\* Every call returns, whatever the others do with the limiters they share and
\* however often Telegram asks to come later.
CallsEnd == \A c \in Callers : caller[c].pc # "rest" ~> caller[c].pc = "rest"
=============================================================================
