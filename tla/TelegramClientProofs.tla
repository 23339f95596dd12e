------------------------ MODULE TelegramClientProofs ------------------------
(***************************************************************************)
(* Proofs about TelegramClient for any number of callers, chats, limiters  *)
(* and attempts, any digests, and any spacing of the turns of a chat.      *)
(*                                                                         *)
(* InOrder says how much of its digest a call has sent at every place, and *)
(* TurnInv what the limiter of a chat has promised to those who wait for   *)
(* it: turns that are Second apart, and Second after the last one.         *)
(***************************************************************************)
EXTENDS TelegramClient, MessagesProofs

Message == UNION {ToSet(parts) : parts \in Texts}

Working == {"look", "turn", "queue", "out", "sleep"}

Callees ==
  [pc: Working \cup Results \cup {"rest"}, chat: Chats \cup {NoChat}, parts: Seq(Message),
   part: Nat \ {0}, icons: BOOLEAN, attempt: Nat, timer: Nat, orphan: BOOLEAN,
   arrived: Seq(Message)]

\* One text is the beginning of another.
Begins(text, parts) ==
  Len(text) <= Len(parts) /\ \A i \in 1..Len(text) : text[i] = parts[i]

\* A call at work has sent the parts before the one at hand.
InOrder(g) ==
  /\ Begins(g.arrived, g.parts)
  /\ g.pc \in Working =>
       g.part = Len(g.arrived) + 1 /\ (g.parts # <<>> => g.part <= Len(g.parts))
  /\ g.pc = "ok" => Len(g.arrived) = Len(g.parts)
  /\ g.pc = "gone" /\ g.parts # <<>> => Len(g.arrived) < Len(g.parts)
  /\ (g.pc \in {"look", "turn"} \/ (g.pc \in Working /\ g.parts # <<>>)) => g.chat \in Chats

TypeInv ==
  /\ perChat \subseteq Chats /\ ahead \in [Chats -> Nat] /\ iconsRefused \in BOOLEAN
  /\ sinceTurn \in [Chats -> 0..Second] /\ retired \subseteq Chats
  /\ caller \in [Callers -> Callees]
  /\ \A c \in Callers : InOrder(caller[c])

(****************************** The texts **********************************)

LEMMA PartsAreMessages ==
  ASSUME NEW parts \in Texts
  PROVE  parts \in Seq(Message)
<1>1. PICK d \in Digests : parts = DigestParts(d)
  BY DEF Texts
<1>2. parts \in Seq(ToSet(parts))
  <2>1. parts \in Seq(Blocks)
    BY <1>1, PartsAreTaken, DigestsAssumption
  <2> QED
    BY <2>1 DEF ToSet
<1>3. ToSet(parts) \subseteq Message
  BY DEF Message
<1> HIDE DEF Message
<1> QED
  BY <1>2, <1>3, SeqMonotonic

LEMMA LessOfTwo ==
  ASSUME NEW a \in Nat, NEW b \in Nat
  PROVE  Min({a, b}) = (IF a <= b THEN a ELSE b)
<1> DEFINE m == IF a <= b THEN a ELSE b
<1>1. m \in {a, b} /\ \A y \in {a, b} : m <= y
  OBVIOUS
<1>2. \A x \in {a, b} : (\A y \in {a, b} : x <= y) => x = m
  OBVIOUS
<1> HIDE DEF m
<1>3. Min({a, b}) \in {a, b} /\ \A y \in {a, b} : Min({a, b}) <= y
  BY <1>1 DEF Min
<1> QED
  BY <1>2, <1>3 DEF m

LEMMA AtRestType ==
  /\ AtRest \in Callees /\ AtRest.pc = "rest" /\ AtRest.parts = <<>> /\ AtRest.arrived = <<>>
  /\ AtRest.part = 1 /\ AtRest.chat = NoChat /\ InOrder(AtRest)
<1>1. <<>> \in Seq(Message)
  BY EmptySeq
<1> HIDE DEF Message
<1> QED
  BY <1>1 DEF AtRest, Callees, InOrder, Begins, Working

(************************** One caller at a time ***************************)

LEMMA BecomeGood ==
  ASSUME TypeInv, NEW c \in Callers, NEW g \in Callees, InOrder(g), Become(c, g)
  PROVE  /\ caller' \in [Callers -> Callees] /\ \A x \in Callers : InOrder(caller'[x])
         /\ caller'[c] = g /\ \A x \in Callers : x # c => caller'[x] = caller[x]
BY DEF TypeInv, Become

\* The text of the part at hand, when it has arrived.
LEMMA TextArrives ==
  ASSUME TypeInv, NEW c \in Callers, caller[c].pc = "out"
  PROVE  /\ WithText(c) \in Seq(Message) /\ Begins(WithText(c), caller[c].parts)
         /\ Len(WithText(c)) = IF caller[c].parts = <<>> THEN 0 ELSE caller[c].part
<1> DEFINE g == caller[c]
<1>1. /\ g.parts \in Seq(Message) /\ g.arrived \in Seq(Message) /\ Begins(g.arrived, g.parts)
      /\ g.part = Len(g.arrived) + 1 /\ (g.parts # <<>> => g.part <= Len(g.parts))
  BY DEF TypeInv, Callees, InOrder, Working
<1>2. CASE g.parts = <<>>
  <2>1. WithText(c) = g.arrived /\ Len(g.arrived) = 0
    BY <1>1, <1>2 DEF WithText, Begins
  <2> QED
    BY <1>1, <1>2, <2>1
<1>3. CASE g.parts # <<>>
  <2> DEFINE p == g.parts[g.part]
  <2>1. WithText(c) = Append(g.arrived, p) /\ p \in Message
    BY <1>1, <1>3 DEF WithText
  <2> HIDE DEF p
  <2>2. /\ Append(g.arrived, p) \in Seq(Message) /\ Len(Append(g.arrived, p)) = g.part
        /\ \A i \in 1..Len(g.arrived) : Append(g.arrived, p)[i] = g.arrived[i]
        /\ Append(g.arrived, p)[g.part] = p
    BY <1>1, <2>1
  <2>3. Begins(Append(g.arrived, p), g.parts)
    <3> DEFINE w == Append(g.arrived, p)
    <3>1. \A i \in 1..Len(w) : i \in 1..Len(g.arrived) \/ i = g.part
      BY <1>1, <2>2
    <3>2. \A i \in 1..Len(g.arrived) : w[i] = g.parts[i]
      BY <1>1, <2>2 DEF Begins
    <3>3. w[g.part] = g.parts[g.part]
      BY <2>2 DEF p
    <3> HIDE DEF w
    <3>4. Len(w) <= Len(g.parts)
      BY <1>1, <1>3, <2>2 DEF w
    <3> QED
      BY <3>1, <3>2, <3>3, <3>4 DEF Begins, w
  <2> QED
    BY <1>3, <2>1, <2>2, <2>3
<1> QED
  BY <1>2, <1>3

LEMMA ReturnGood ==
  ASSUME TypeInv, NEW c \in Callers, NEW result \in Results, NEW text \in Seq(Message),
         Begins(text, caller[c].parts), Return(c, result, text),
         result = "ok" => Len(text) = Len(caller[c].parts),
         result = "gone" /\ caller[c].parts # <<>> => Len(text) < Len(caller[c].parts)
  PROVE  /\ caller' \in [Callers -> Callees] /\ \A x \in Callers : InOrder(caller'[x])
         /\ caller'[c].pc = result /\ \A x \in Callers : x # c => caller'[x] = caller[x]
<1> DEFINE g == [AtRest EXCEPT !.pc = result, !.parts = caller[c].parts, !.arrived = text]
<1>1. caller[c].parts \in Seq(Message) /\ result \in Results
  BY DEF TypeInv, Callees
<1> HIDE DEF Message
<1>2. /\ g \in Callees /\ g.pc = result /\ g.parts = caller[c].parts /\ g.arrived = text
  BY <1>1, AtRestType DEF Callees
<1>3. Become(c, g)
  BY DEF Return
<1> HIDE DEF g
<1>4. InOrder(g)
  BY <1>2 DEF InOrder, Working, Results
<1> QED
  BY <1>2, <1>3, <1>4, BecomeGood

\* What is left as it is by the steps that touch no limiter.
Good ==
  /\ caller' \in [Callers -> Callees] /\ \A x \in Callers : InOrder(caller'[x])

LEMMA BeginGood ==
  ASSUME TypeInv, NEW c \in Callers, Begin(c)
  PROVE  /\ Good /\ caller'[c].pc # "turn"
         /\ \A x \in Callers : x # c => caller'[x] = caller[x]
<1>1. ASSUME NEW ch \in Chats, NEW parts \in Texts, NEW icons \in BOOLEAN,
             Become(c, [AtRest EXCEPT !.pc = "look", !.chat = ch, !.parts = parts, !.icons = icons])
      PROVE  /\ Good /\ caller'[c].pc # "turn"
             /\ \A x \in Callers : x # c => caller'[x] = caller[x]
  <2> DEFINE g == [AtRest EXCEPT !.pc = "look", !.chat = ch, !.parts = parts, !.icons = icons]
  <2>0. parts \in Seq(Message)
    BY PartsAreMessages
  <2> HIDE DEF Message
  <2>1. /\ g \in Callees /\ g.pc = "look" /\ g.chat = ch /\ g.parts = parts
        /\ g.arrived = <<>> /\ g.part = 1
    BY <2>0, AtRestType DEF Callees, Working
  <2>2. Become(c, g)
    BY <1>1
  <2> HIDE DEF g
  <2>3. InOrder(g)
    <3>1. parts # <<>> => 1 <= Len(parts)
      BY <2>0
    <3> QED
      BY <2>0, <2>1, <3>1 DEF InOrder, Begins, Working
  <2> QED
    BY <2>1, <2>2, <2>3, BecomeGood DEF Good
<1>2. ASSUME Become(c, [AtRest EXCEPT !.pc = "queue"])
      PROVE  /\ Good /\ caller'[c].pc # "turn"
             /\ \A x \in Callers : x # c => caller'[x] = caller[x]
  <2> DEFINE g == [AtRest EXCEPT !.pc = "queue"]
  <2>1. /\ g \in Callees /\ g.pc = "queue" /\ g.parts = <<>>
        /\ g.arrived = <<>> /\ g.part = 1
    BY AtRestType DEF Callees, Working
  <2>2. Become(c, g)
    BY <1>2
  <2> HIDE DEF g
  <2>3. InOrder(g)
    BY <2>1 DEF InOrder, Begins, Working
  <2> QED
    BY <2>1, <2>2, <2>3, BecomeGood DEF Good
<1> QED
  BY <1>1, <1>2 DEF Begin

\* A call that goes on with the part it has at hand.
LEMMA GoesOn ==
  ASSUME TypeInv, NEW c \in Callers, caller[c].pc \in Working,
         NEW g \in Callees, g.pc \in Working, g.pc \in {"look", "turn"} => g.chat \in Chats,
         g.parts = caller[c].parts, g.part = caller[c].part, g.arrived = caller[c].arrived,
         g.chat = caller[c].chat,
         Become(c, g)
  PROVE  /\ Good /\ caller'[c] = g /\ \A x \in Callers : x # c => caller'[x] = caller[x]
<1>1. InOrder(caller[c])
  BY DEF TypeInv
<1>2. InOrder(g)
  BY <1>1 DEF InOrder, Working
<1> QED
  BY <1>2, BecomeGood DEF Good

LEMMA RequestGood ==
  ASSUME TypeInv, NEW c \in Callers, Request(c) \/ WakeUp(c)
  PROVE  /\ Good /\ caller'[c].pc # "turn" /\ (caller'[c].pc = "queue" => ~At(c, "turn"))
         /\ \A x \in Callers : x # c => caller'[x] = caller[x]
<1>1. PICK pc \in {"queue", "out"} : Become(c, [caller[c] EXCEPT !.pc = pc])
  BY DEF Request, WakeUp
<1> DEFINE g == [caller[c] EXCEPT !.pc = pc]
<1>2. caller[c] \in Callees /\ caller[c].pc \in Working /\ ~At(c, "turn")
  BY DEF TypeInv, Request, WakeUp, At, Working
<1>3. /\ g \in Callees /\ g.pc = pc /\ g.parts = caller[c].parts /\ g.part = caller[c].part
      /\ g.arrived = caller[c].arrived /\ g.chat = caller[c].chat
  BY <1>2 DEF Callees, Working
<1>4. Become(c, g)
  BY <1>1
<1> HIDE DEF g
<1> QED
  BY <1>2, <1>3, <1>4, GoesOn DEF Working

LEMMA LostGood ==
  ASSUME TypeInv, NEW c \in Callers, Lost(c)
  PROVE  /\ Good /\ caller'[c].pc = "error" /\ \A x \in Callers : x # c => caller'[x] = caller[x]
<1>1. caller[c].pc = "out" /\ caller[c].arrived \in Seq(Message)
      /\ Begins(caller[c].arrived, caller[c].parts)
  BY DEF Lost, At, TypeInv, Callees, InOrder
<1>2. PICK text \in {caller[c].arrived, WithText(c)} : Return(c, "error", text)
  BY DEF Lost
<1>3. text \in Seq(Message) /\ Begins(text, caller[c].parts)
  BY <1>1, TextArrives
<1> QED
  BY <1>2, <1>3, ReturnGood DEF Good, Results

LEMMA AcceptedGood ==
  ASSUME TypeInv, NEW c \in Callers, Accepted(c)
  PROVE  /\ Good /\ caller'[c].pc \notin {"turn", "queue"}
         /\ \A x \in Callers : x # c => caller'[x] = caller[x]
<1> DEFINE t == WithText(c)
<1>1. /\ caller[c] \in Callees /\ caller[c].pc = "out" /\ InOrder(caller[c])
      /\ caller[c].parts \in Seq(Message) /\ caller[c].part \in Nat \ {0}
  BY DEF Accepted, At, TypeInv, Callees
<1>2. /\ t \in Seq(Message) /\ Begins(t, caller[c].parts)
      /\ Len(t) = IF caller[c].parts = <<>> THEN 0 ELSE caller[c].part
  BY <1>1, TextArrives
<1> HIDE DEF t
<1>3. CASE caller[c].part >= Len(caller[c].parts) /\ Return(c, "ok", t)
  <2>1. Len(t) = Len(caller[c].parts)
    BY <1>1, <1>2, <1>3 DEF Begins
  <2> QED
    BY <1>2, <1>3, <2>1, ReturnGood DEF Good, Results
<1>4. ASSUME ~(caller[c].part >= Len(caller[c].parts)), NEW icons \in BOOLEAN,
             Become(c, [caller[c] EXCEPT !.pc = "look", !.part = @ + 1, !.icons = icons,
                                         !.attempt = 1, !.arrived = t])
      PROVE  /\ Good /\ caller'[c].pc \notin {"turn", "queue"}
             /\ \A x \in Callers : x # c => caller'[x] = caller[x]
  <2> DEFINE n == caller[c].part + 1
             g == [caller[c] EXCEPT !.pc = "look", !.part = n, !.icons = icons,
                                    !.attempt = 1, !.arrived = t]
  <2>0. n \in Nat \ {0}
    BY <1>1
  <2>1. /\ g \in Callees /\ g.pc = "look" /\ g.parts = caller[c].parts
        /\ g.part = n /\ g.arrived = t /\ g.chat = caller[c].chat
    <3> HIDE DEF Message, n
    <3> QED
      BY <1>1, <1>2, <2>0 DEF Callees, Working
  <2>2. Become(c, g)
    BY <1>4
  <2> HIDE DEF g
  <2>3. caller[c].parts # <<>> /\ n <= Len(caller[c].parts)
    <3> HIDE DEF Message
    <3>1. Len(caller[c].parts) \in Nat
      BY <1>1
    <3>2. caller[c].part < Len(caller[c].parts)
      BY <1>1, <1>4, <3>1
    <3> QED
      BY <1>1, <3>1, <3>2
  <2>4. caller[c].chat \in Chats
    BY <1>1, <2>3 DEF InOrder, Working
  <2>5. InOrder(g)
    BY <1>1, <1>2, <2>0, <2>1, <2>3, <2>4 DEF InOrder, Working
  <2> QED
    BY <2>1, <2>2, <2>5, BecomeGood DEF Good
<1> QED
  BY <1>3, <1>4 DEF Accepted, t

LEMMA TooManyGood ==
  ASSUME TypeInv, NEW c \in Callers, TooMany(c)
  PROVE  /\ Good /\ caller'[c].pc \notin {"turn", "queue"}
         /\ \A x \in Callers : x # c => caller'[x] = caller[x]
<1>1. /\ caller[c] \in Callees /\ caller[c].pc = "out" /\ InOrder(caller[c])
      /\ caller[c].arrived \in Seq(Message) /\ caller[c].attempt \in Nat
  BY DEF TooMany, At, TypeInv, Callees
<1>2. CASE Return(c, "error", caller[c].arrived)
  BY <1>1, <1>2, ReturnGood DEF Good, Results, InOrder
<1>3. ASSUME NEW d \in Demands,
             Become(c, [caller[c] EXCEPT !.pc = "sleep", !.attempt = @ + 1,
                                         !.timer = Min({d, MaxRetryAfter})])
      PROVE  /\ Good /\ caller'[c].pc \notin {"turn", "queue"}
             /\ \A x \in Callers : x # c => caller'[x] = caller[x]
  <2> DEFINE m == Min({d, MaxRetryAfter})
             n == caller[c].attempt + 1
             g == [caller[c] EXCEPT !.pc = "sleep", !.attempt = n, !.timer = m]
  <2>1. m \in Nat /\ n \in Nat
    BY <1>1, LessOfTwo, ClientAssumption
  <2>2. Become(c, g)
    BY <1>3
  <2> HIDE DEF m, n
  <2>3. /\ g \in Callees /\ g.pc = "sleep" /\ g.parts = caller[c].parts
        /\ g.part = caller[c].part /\ g.arrived = caller[c].arrived /\ g.chat = caller[c].chat
    BY <1>1, <2>1 DEF Callees, Working
  <2> HIDE DEF g
  <2> QED
    BY <1>1, <2>2, <2>3, GoesOn DEF Working
<1> QED
  BY <1>2, <1>3 DEF TooMany

LEMMA RefusedGood ==
  ASSUME TypeInv, NEW c \in Callers, Refused(c)
  PROVE  /\ Good /\ caller'[c].pc # "turn"
         /\ \A x \in Callers : x # c => caller'[x] = caller[x]
<1>1. /\ caller[c] \in Callees /\ caller[c].pc = "out" /\ InOrder(caller[c])
      /\ caller[c].arrived \in Seq(Message) /\ caller[c].parts \in Seq(Message)
  BY DEF Refused, At, TypeInv, Callees
<1>2. CASE Become(c, [caller[c] EXCEPT !.pc = "queue", !.icons = FALSE, !.attempt = 1])
  <2> DEFINE g == [caller[c] EXCEPT !.pc = "queue", !.icons = FALSE, !.attempt = 1]
  <2>1. /\ g \in Callees /\ g.pc = "queue" /\ g.parts = caller[c].parts
        /\ g.part = caller[c].part /\ g.arrived = caller[c].arrived /\ g.chat = caller[c].chat
    BY <1>1 DEF Callees, Working
  <2>2. Become(c, g)
    BY <1>2
  <2> HIDE DEF g
  <2> QED
    BY <1>1, <2>1, <2>2, GoesOn DEF Working
<1>3. ASSUME NEW result \in {"gone", "error"}, Return(c, result, caller[c].arrived)
      PROVE  /\ Good /\ caller'[c].pc # "turn"
             /\ \A x \in Callers : x # c => caller'[x] = caller[x]
  <2>1. caller[c].parts # <<>> => Len(caller[c].arrived) < Len(caller[c].parts)
    BY <1>1 DEF InOrder, Working
  <2> QED
    BY <1>1, <1>3, <2>1, ReturnGood DEF Good, Results, InOrder
<1> QED
  BY <1>2, <1>3 DEF Refused

LEMMA RestGood ==
  ASSUME TypeInv, NEW c \in Callers, Rest(c)
  PROVE  /\ Good /\ caller'[c].pc = "rest" /\ \A x \in Callers : x # c => caller'[x] = caller[x]
BY AtRestType, BecomeGood DEF Rest, Good

LEMMA CancelGood ==
  ASSUME TypeInv, NEW c \in Callers, Cancel(c)
  PROVE  /\ Good /\ caller'[c].pc = "error" /\ \A x \in Callers : x # c => caller'[x] = caller[x]
<1>1. /\ caller[c].arrived \in Seq(Message) /\ Begins(caller[c].arrived, caller[c].parts)
  BY DEF TypeInv, Callees, InOrder
<1>2. Return(c, "error", caller[c].arrived)
  BY DEF Cancel
<1> QED
  BY <1>1, <1>2, ReturnGood DEF Good, Results

LEMMA TakeTurnGood ==
  ASSUME TypeInv, NEW c \in Callers, TakeTurn(c)
  PROVE  /\ Good /\ caller'[c].pc = "queue" /\ \A x \in Callers : x # c => caller'[x] = caller[x]
         /\ caller[c].timer = 0 /\ caller[c].chat \in Chats
<1> DEFINE i == caller[c].icons /\ ~iconsRefused
           g == [caller[c] EXCEPT !.pc = "queue", !.icons = i, !.orphan = FALSE]
<1>1. caller[c] \in Callees /\ caller[c].pc = "turn" /\ InOrder(caller[c]) /\ caller[c].timer = 0
  BY DEF TakeTurn, At, TypeInv
<1>2. i \in BOOLEAN
  OBVIOUS
<1>3. Become(c, g)
  BY DEF TakeTurn
<1> HIDE DEF i
<1>4. /\ g \in Callees /\ g.pc = "queue" /\ g.parts = caller[c].parts
      /\ g.part = caller[c].part /\ g.arrived = caller[c].arrived /\ g.chat = caller[c].chat
  BY <1>1, <1>2 DEF Callees, Working
<1> HIDE DEF g
<1>5. caller[c].chat \in Chats
  BY <1>1 DEF InOrder
<1> QED
  BY <1>1, <1>3, <1>4, <1>5, GoesOn DEF Working

\* A promise is made to one caller; those of forgotten limiters wait on.
LEMMA WaitGood ==
  ASSUME TypeInv, NEW c \in Callers, WaitForChat(c)
  PROVE  LET ch   == caller[c].chat
             lost == perChat \ perChat'
         IN  /\ Good /\ ch \in Chats /\ perChat' \subseteq Chats /\ ch \notin lost
             /\ caller[c].pc = "look" /\ caller'[c].pc = "turn" /\ caller'[c].chat = ch
             /\ caller'[c].timer = ahead[ch]
             /\ \A x \in Callers : x # c =>
                  \/ caller'[x] = caller[x] /\ ~(At(x, "turn") /\ caller[x].chat \in lost)
                  \/ At(x, "turn") /\ caller'[x] = [caller[x] EXCEPT !.orphan = TRUE]
             /\ ahead' = [x \in Chats |-> IF x = ch THEN ahead[x] + Second
                                          ELSE IF x \in lost THEN 0 ELSE ahead[x]]
             /\ retired' = retired \cup {x \in lost : sinceTurn[x] < Second}
             /\ lost \subseteq Chats
<1> DEFINE ch   == caller[c].chat
           none == IF ch \notin perChat /\ Cardinality(perChat) >= MaxLimiters
                   THEN perChat ELSE {}
           lost == perChat \ perChat'
           g    == [caller[c] EXCEPT !.pc = "turn", !.timer = ahead[ch]]
<1>1. /\ caller[c] \in Callees /\ caller[c].pc = "look" /\ InOrder(caller[c])
      /\ ch \in Chats /\ perChat \subseteq Chats
  BY DEF WaitForChat, At, TypeInv, InOrder
<1>2. /\ perChat' = (perChat \ none) \cup {ch} /\ Promise(c, none)
      /\ retired' = retired \cup {x \in none : sinceTurn[x] < Second}
  BY DEF WaitForChat
<1>3. ch \notin none /\ none \subseteq perChat
  OBVIOUS
<1> HIDE DEF none
<1>4. lost = none
  BY <1>2, <1>3
<1> HIDE DEF lost
<1>5. ahead' = [x \in Chats |-> IF x = ch THEN ahead[x] + Second
                                ELSE IF x \in lost THEN 0 ELSE ahead[x]]
  BY <1>2, <1>4 DEF Promise
<1>6. caller' = [x \in Callers |->
         IF x = c THEN g
         ELSE IF At(x, "turn") /\ caller[x].chat \in lost
         THEN [caller[x] EXCEPT !.orphan = TRUE] ELSE caller[x]]
  BY <1>2, <1>4 DEF Promise
<1>7. ahead[ch] \in Nat
  BY <1>1 DEF TypeInv
<1>8. /\ g \in Callees /\ g.pc = "turn" /\ g.parts = caller[c].parts /\ g.part = caller[c].part
      /\ g.arrived = caller[c].arrived /\ g.chat = ch /\ g.timer = ahead[ch]
  BY <1>1, <1>7 DEF Callees, Working
<1> HIDE DEF g
<1>9. InOrder(g)
  BY <1>1, <1>8 DEF InOrder, Working
<1>10. caller'[c] = g
  BY <1>6
<1>11. \A x \in Callers : x # c =>
         \/ caller'[x] = caller[x] /\ ~(At(x, "turn") /\ caller[x].chat \in lost)
         \/ At(x, "turn") /\ caller'[x] = [caller[x] EXCEPT !.orphan = TRUE]
  BY <1>6
<1>12. ASSUME NEW x \in Callers
       PROVE  caller'[x] \in Callees /\ InOrder(caller'[x])
  <2>1. CASE x = c
    BY <1>8, <1>9, <1>10, <2>1
  <2>2. CASE x # c
    <3>1. caller[x] \in Callees /\ InOrder(caller[x])
      BY DEF TypeInv
    <3>2. CASE caller'[x] = [caller[x] EXCEPT !.orphan = TRUE]
      BY <3>1, <3>2 DEF Callees, InOrder
    <3> QED
      BY <1>11, <2>2, <3>1, <3>2
  <2> QED
    BY <2>1, <2>2
<1>13. Good
  BY <1>6, <1>12 DEF Good
<1> QED
  BY <1>1, <1>2, <1>3, <1>4, <1>5, <1>8, <1>10, <1>11, <1>13

LEMMA TickGood ==
  ASSUME TypeInv, Tick
  PROVE  /\ Good
         /\ \A c \in Callers :
              /\ caller'[c].pc = caller[c].pc /\ caller'[c].chat = caller[c].chat
              /\ caller'[c].orphan = caller[c].orphan /\ caller'[c].timer = Less(caller[c].timer)
<1>1. caller' = [c \in Callers |-> [caller[c] EXCEPT !.timer = Less(caller[c].timer)]]
  BY DEF Tick
<1>2. ASSUME NEW c \in Callers
      PROVE  /\ caller'[c] \in Callees /\ InOrder(caller'[c])
             /\ caller'[c].pc = caller[c].pc /\ caller'[c].chat = caller[c].chat
             /\ caller'[c].orphan = caller[c].orphan /\ caller'[c].timer = Less(caller[c].timer)
  <2> DEFINE n == Less(caller[c].timer)
  <2>1. caller[c] \in Callees /\ InOrder(caller[c]) /\ caller[c].timer \in Nat
    BY DEF TypeInv, Callees
  <2>2. n \in Nat
    BY <2>1 DEF Less
  <2>3. caller'[c] = [caller[c] EXCEPT !.timer = n]
    BY <1>1
  <2> HIDE DEF n
  <2> QED
    BY <2>1, <2>2, <2>3 DEF Callees, InOrder, n
<1> QED
  BY <1>1, <1>2 DEF Good

LEMMA TypeStep == TypeInv /\ [Next]_vars => TypeInv'
<1> SUFFICES ASSUME TypeInv, [Next]_vars PROVE TypeInv'
  OBVIOUS
<1>1. CASE UNCHANGED vars
  BY <1>1 DEF vars, limits, history, TypeInv
<1>2. ASSUME NEW c \in Callers,
             Begin(c) \/ Request(c) \/ Answered(c) \/ WakeUp(c) \/ Rest(c)
      PROVE  TypeInv'
  <2>1. Good
    BY <1>2, BeginGood, RequestGood, LostGood, AcceptedGood, TooManyGood, RefusedGood, RestGood
       DEF Answered
  <2>2. UNCHANGED <<limits, history>> /\ iconsRefused' \in BOOLEAN
    BY <1>2 DEF Begin, Request, Answered, WakeUp, Rest, Lost, Accepted, TooMany, Refused, TypeInv
  <2> QED
    BY <2>1, <2>2 DEF TypeInv, Good, limits, history
<1>3. ASSUME NEW c \in Callers, Cancel(c)
      PROVE  TypeInv'
  <2>1. Good
    BY <1>3, CancelGood
  <2>2. ahead' \in [Chats -> Nat]
    <3> DEFINE ch == caller[c].chat
    <3>1. CASE ahead' = ahead
      BY <3>1 DEF TypeInv
    <3>2. CASE /\ At(c, "turn") /\ ahead[ch] = caller[c].timer + Second
               /\ ahead' = [ahead EXCEPT ![ch] = @ - Second]
      <4>1. ch \in Chats /\ caller[c].timer \in Nat
        BY <3>2 DEF TypeInv, InOrder, Callees, At
      <4>2. ahead[ch] - Second \in Nat
        BY <3>2, <4>1, ClientAssumption
      <4> QED
        BY <3>2, <4>1, <4>2 DEF TypeInv
    <3> QED
      BY <1>3, <3>1, <3>2 DEF Cancel
  <2> QED
    BY <1>3, <2>1, <2>2 DEF Cancel, TypeInv, Good, history
<1>4. ASSUME NEW c \in Callers, WaitForChat(c)
      PROVE  TypeInv'
  <2>1. /\ Good /\ perChat' \subseteq Chats /\ retired' \subseteq Chats
        /\ UNCHANGED <<iconsRefused, sinceTurn>>
    BY <1>4, WaitGood DEF TypeInv, WaitForChat
  <2>2. ahead' \in [Chats -> Nat]
    <3> DEFINE f(x) == IF x = caller[c].chat THEN ahead[x] + Second
                       ELSE IF x \in perChat \ perChat' THEN 0 ELSE ahead[x]
    <3>1. ahead' = [x \in Chats |-> f(x)]
      BY <1>4, WaitGood
    <3>2. \A x \in Chats : f(x) \in Nat
      BY ClientAssumption DEF TypeInv
    <3> HIDE DEF f
    <3> QED
      BY <3>1, <3>2
  <2> QED
    BY <2>1, <2>2 DEF TypeInv, Good
<1>5. ASSUME NEW c \in Callers, TakeTurn(c)
      PROVE  TypeInv'
  <2>1. Good /\ caller[c].chat \in Chats
    BY <1>5, TakeTurnGood
  <2>2. sinceTurn' \in [Chats -> 0..Second] /\ retired' \subseteq Chats
    <3>1. /\ sinceTurn' = [sinceTurn EXCEPT ![caller[c].chat] = 0] /\ 0 \in 0..Second
          /\ retired' \subseteq retired \cup {caller[c].chat}
      BY <1>5, ClientAssumption DEF TakeTurn
    <3> QED
      BY <2>1, <3>1 DEF TypeInv
  <2>3. UNCHANGED <<limits, iconsRefused>>
    BY <1>5 DEF TakeTurn
  <2> QED
    BY <2>1, <2>2, <2>3 DEF TypeInv, Good, limits
<1>6. CASE Tick
  <2>1. Good
    BY <1>6, TickGood
  <2>2. ahead' \in [Chats -> Nat]
    <3>1. ahead' = [x \in Chats |-> Less(ahead[x])]
      BY <1>6 DEF Tick
    <3>2. \A x \in Chats : ahead[x] \in Nat
      BY DEF TypeInv
    <3>3. \A x \in Chats : Less(ahead[x]) \in Nat
      BY <3>2 DEF Less
    <3> QED
      BY <3>1, <3>3
  <2>3. sinceTurn' \in [Chats -> 0..Second]
    <3> DEFINE f(x) == Min({sinceTurn[x] + 1, Second})
    <3>1. \A x \in Chats : f(x) \in 0..Second
      BY LessOfTwo, ClientAssumption DEF TypeInv
    <3>2. sinceTurn' = [x \in Chats |-> f(x)]
      BY <1>6 DEF Tick
    <3> HIDE DEF f
    <3> QED
      BY <3>1, <3>2
  <2> QED
    BY <1>6, <2>1, <2>2, <2>3 DEF Tick, TypeInv, Good
<1> QED
  BY <1>1, <1>2, <1>3, <1>4, <1>5, <1>6 DEF Next, Call

LEMMA InitTypes == Init => TypeInv
<1> SUFFICES ASSUME Init PROVE TypeInv
  OBVIOUS
<1>1. caller \in [Callers -> Callees] /\ \A c \in Callers : InOrder(caller[c])
  BY AtRestType DEF Init
<1>2. ahead \in [Chats -> Nat] /\ sinceTurn \in [Chats -> 0..Second]
  BY ClientAssumption DEF Init
<1> QED
  BY <1>1, <1>2 DEF Init, TypeInv

\* The limiters, and what every call has sent so far.
THEOREM ClientIsTyped == Spec => []TypeInv
BY InitTypes, TypeStep, PTL DEF Spec

\* What a call has sent is the beginning of its digest, every message whole, once and
\* in order, through retries, refused icons and lost answers; all of it when it returns
\* no error, and not all when it returns that the chat is gone (Client.SendDigest).
THEOREM DigestsArriveInOrder == Spec => []ArrivesInOrderOnce
<1>1. TypeInv => ArrivesInOrderOnce
  <2> SUFFICES ASSUME TypeInv, NEW c \in Callers
               PROVE  /\ IsPrefix(caller[c].arrived, caller[c].parts)
                      /\ At(c, "ok") => caller[c].arrived = caller[c].parts
                      /\ At(c, "gone") /\ caller[c].parts # <<>> =>
                           caller[c].arrived # caller[c].parts
    BY DEF ArrivesInOrderOnce
  <2> DEFINE a == caller[c].arrived
             p == caller[c].parts
  <2>1. /\ a \in Seq(Message) /\ p \in Seq(Message) /\ Len(a) <= Len(p)
        /\ \A i \in 1..Len(a) : a[i] = p[i]
        /\ At(c, "ok") => Len(a) = Len(p)
        /\ At(c, "gone") /\ p # <<>> => Len(a) < Len(p)
    BY DEF TypeInv, Callees, InOrder, Begins, At
  <2> HIDE DEF a, p, Message
  <2>2. SubSeq(a, 1, Len(a)) = SubSeq(p, 1, Len(a))
    <3> DEFINE s == SubSeq(a, 1, Len(a))
               t == SubSeq(p, 1, Len(a))
    <3>1. s \in Seq(Message) /\ t \in Seq(Message) /\ Len(s) = Len(a) /\ Len(t) = Len(a)
      BY <2>1, SubSeqProperties
    <3>2. \A i \in 1..Len(a) : s[i] = t[i]
      BY <2>1, SubSeqProperties
    <3> HIDE DEF s, t
    <3>3. s = t
      BY <2>1, <3>1, <3>2, SeqEqual
    <3> QED
      BY <3>3 DEF s, t
  <2>3. At(c, "ok") => a = p
    BY <2>1, SeqEqual
  <2>4. At(c, "gone") /\ p # <<>> => a # p
    BY <2>1
  <2> QED
    BY <2>1, <2>2, <2>3, <2>4 DEF IsPrefix, a, p
<1> QED
  BY <1>1, ClientIsTyped, PTL

(****************************** The turns **********************************)

\* Who waits for the limiter that the map has for a chat.
Waits(c, ch) == At(c, "turn") /\ caller[c].chat = ch /\ ~caller[c].orphan

\* All promised turns are before the next one, and Second apart; and no turn is due
\* before Second has gone by since the last, unless the map has forgotten that one.
TurnInv ==
  \A ch \in Chats :
    /\ \A c \in Callers : Waits(c, ch) => caller[c].timer + Second <= ahead[ch]
    /\ \A c, d \in Callers : c # d /\ Waits(c, ch) /\ Waits(d, ch) =>
         \/ caller[c].timer + Second <= caller[d].timer
         \/ caller[d].timer + Second <= caller[c].timer
    /\ ch \notin retired =>
         /\ Second <= sinceTurn[ch] + ahead[ch]
         /\ \A c \in Callers : Waits(c, ch) => Second <= sinceTurn[ch] + caller[c].timer

\* What the arithmetic is about.
LEMMA Hours ==
  ASSUME TypeInv
  PROVE  /\ \A ch \in Chats : ahead[ch] \in Nat /\ sinceTurn[ch] \in 0..Second
         /\ \A c \in Callers : caller[c] \in Callees /\ caller[c].timer \in Nat
         /\ Second \in Nat /\ Second > 0
BY ClientAssumption DEF TypeInv, Callees

\* A step that gives no turn and makes none wait.
LEMMA TurnsStay ==
  ASSUME TurnInv, UNCHANGED <<ahead, history>>, NEW c \in Callers, caller'[c].pc # "turn",
         \A x \in Callers : x # c => caller'[x] = caller[x]
  PROVE  TurnInv'
<1>1. \A ch \in Chats, x \in Callers : Waits(x, ch)' => Waits(x, ch) /\ caller'[x] = caller[x]
  BY DEF Waits, At
<1> QED
  BY <1>1 DEF TurnInv, history

LEMMA CancelKeepsTurns ==
  ASSUME TypeInv, TurnInv, NEW c \in Callers, Cancel(c)
  PROVE  TurnInv'
<1> DEFINE ch == caller[c].chat
           t  == caller[c].timer
           last == At(c, "turn") /\ t > 0 /\ ~caller[c].orphan /\ ahead[ch] = t + Second
<1>1. caller'[c].pc = "error" /\ \A x \in Callers : x # c => caller'[x] = caller[x]
  BY CancelGood
<1>2. UNCHANGED history /\ ahead' = (IF last THEN [ahead EXCEPT ![ch] = @ - Second] ELSE ahead)
  BY DEF Cancel
<1>3. CASE ~last
  BY <1>1, <1>2, <1>3, TurnsStay
<1>4. CASE last
  <2>1. Waits(c, ch) /\ ch \in Chats
    BY <1>4 DEF Waits, TypeInv, InOrder, At
  <2>2. ahead[ch] = t + Second /\ ahead'[ch] = t /\ \A x \in Chats : x # ch => ahead'[x] = ahead[x]
    <3>1. ahead[ch] - Second = t
      BY <1>4, Hours
    <3> QED
      BY <1>2, <1>4, <2>1, <3>1 DEF TypeInv
  <2>3. \A x \in Callers, y \in Chats : Waits(x, y)' => x # c /\ Waits(x, y) /\ caller'[x] = caller[x]
    BY <1>1 DEF Waits, At
  <2>4. UNCHANGED <<sinceTurn, retired>>
    BY <1>2 DEF history
  <2>5. ASSUME NEW y \in Chats, NEW x \in Callers, Waits(x, y)'
        PROVE  caller'[x].timer + Second <= ahead'[y]
    <3>1. Waits(x, y) /\ x # c /\ caller'[x] = caller[x]
      BY <2>3, <2>5
    <3>2. CASE y # ch
      BY <2>2, <3>1, <3>2 DEF TurnInv
    <3>3. CASE y = ch
      <4>1. /\ caller[x].timer + Second <= ahead[ch]
            /\ caller[x].timer + Second <= t \/ t + Second <= caller[x].timer
        BY <2>1, <3>1, <3>3 DEF TurnInv
      <4>2. caller[x].timer \in Nat /\ t \in Nat /\ Second \in Nat /\ Second > 0
        BY Hours
      <4>3. caller[x].timer + Second <= t
        BY <2>2, <4>1, <4>2
      <4> QED
        BY <2>2, <3>1, <3>3, <4>3
    <3> QED
      BY <3>2, <3>3
  <2>6. ASSUME NEW y \in Chats, y \notin retired
        PROVE  Second <= sinceTurn[y] + ahead'[y]
    <3>1. CASE y = ch
      BY <2>1, <2>2, <2>6, <3>1 DEF TurnInv
    <3>2. CASE y # ch
      BY <2>2, <2>6, <3>2 DEF TurnInv
    <3> QED
      BY <3>1, <3>2
  <2> QED
    BY <2>3, <2>4, <2>5, <2>6 DEF TurnInv
<1> QED
  BY <1>3, <1>4

LEMMA WaitKeepsTurns ==
  ASSUME TypeInv, TurnInv, NEW c \in Callers, WaitForChat(c)
  PROVE  TurnInv'
<1> DEFINE ch   == caller[c].chat
           lost == perChat \ perChat'
<1>1. /\ ch \in Chats /\ ch \notin lost /\ lost \subseteq Chats /\ caller[c].pc = "look"
      /\ caller'[c].pc = "turn" /\ caller'[c].chat = ch /\ caller'[c].timer = ahead[ch]
      /\ \A x \in Callers : x # c =>
           \/ caller'[x] = caller[x] /\ ~(At(x, "turn") /\ caller[x].chat \in lost)
           \/ At(x, "turn") /\ caller'[x] = [caller[x] EXCEPT !.orphan = TRUE]
      /\ ahead' = [x \in Chats |-> IF x = ch THEN ahead[x] + Second
                                   ELSE IF x \in lost THEN 0 ELSE ahead[x]]
      /\ retired' = retired \cup {x \in lost : sinceTurn[x] < Second}
      /\ sinceTurn' = sinceTurn
  BY WaitGood DEF WaitForChat
<1> HIDE DEF lost
<1>2. ASSUME NEW x \in Callers, x # c, NEW y \in Chats, Waits(x, y)'
      PROVE  Waits(x, y) /\ caller'[x] = caller[x] /\ y \notin lost
  <2>1. caller'[x].orphan # TRUE
    BY <1>2 DEF Waits
  <2>2. caller[x] \in Callees
    BY Hours
  <2>3. caller'[x] # [caller[x] EXCEPT !.orphan = TRUE]
    BY <2>1, <2>2 DEF Callees
  <2>4. caller'[x] = caller[x] /\ ~(At(x, "turn") /\ caller[x].chat \in lost)
    BY <1>1, <1>2, <2>3
  <2> QED
    BY <1>2, <2>4 DEF Waits, At
<1>3. \A y \in Chats : Waits(c, y)' => y = ch
  BY <1>1 DEF Waits
<1>4. /\ ahead'[ch] = ahead[ch] + Second
      /\ \A y \in Chats : y # ch /\ y \notin lost => ahead'[y] = ahead[y]
      /\ \A y \in Chats : y \in lost => ahead'[y] = 0
  BY <1>1
<1>5. ASSUME NEW x \in Callers, NEW y \in Chats, Waits(x, y)'
      PROVE  caller'[x].timer + Second <= ahead'[y]
  <2>1. CASE x = c
    BY <1>1, <1>3, <1>4, <1>5, <2>1, Hours
  <2>2. CASE x # c
    <3>1. Waits(x, y) /\ caller'[x] = caller[x] /\ y \notin lost
      BY <1>2, <1>5, <2>2
    <3>2. caller[x].timer + Second <= ahead[y] /\ caller[x].timer \in Nat /\ ahead[y] \in Nat
      BY <3>1, Hours DEF TurnInv
    <3>3. ahead'[y] = ahead[y] \/ ahead'[y] = ahead[y] + Second
      BY <1>4, <3>1
    <3> QED
      BY <3>1, <3>2, <3>3, Hours
  <2> QED
    BY <2>1, <2>2
<1>6. ASSUME NEW x \in Callers, x # c, NEW y \in Chats, y = ch, Waits(x, y)'
      PROVE  caller'[x].timer + Second <= caller'[c].timer
  <2>1. Waits(x, ch) /\ caller'[x] = caller[x]
    BY <1>1, <1>2, <1>6
  <2> QED
    BY <1>1, <2>1 DEF TurnInv
<1>7. ASSUME NEW x \in Callers, NEW z \in Callers, x # z, NEW y \in Chats,
             Waits(x, y)', Waits(z, y)'
      PROVE  \/ caller'[x].timer + Second <= caller'[z].timer
             \/ caller'[z].timer + Second <= caller'[x].timer
  <2>1. CASE x = c
    BY <1>3, <1>6, <1>7, <2>1
  <2>2. CASE z = c
    BY <1>3, <1>6, <1>7, <2>2
  <2>3. CASE x # c /\ z # c
    BY <1>2, <1>7, <2>3 DEF TurnInv
  <2> QED
    BY <2>1, <2>2, <2>3
<1>8. ASSUME NEW y \in Chats, y \notin retired'
      PROVE  /\ Second <= sinceTurn[y] + ahead'[y]
             /\ \A x \in Callers : Waits(x, y)' => Second <= sinceTurn[y] + caller'[x].timer
  <2>1. y \notin retired /\ (y \in lost => ~(sinceTurn[y] < Second))
    BY <1>1, <1>8
  <2>2. /\ Second <= sinceTurn[y] + ahead[y]
        /\ sinceTurn[y] \in Nat /\ ahead[y] \in Nat /\ Second \in Nat
    BY <2>1, Hours DEF TurnInv
  <2>3. Second <= sinceTurn[y] + ahead'[y]
    <3>1. CASE y \in lost
      BY <1>4, <2>1, <2>2, <3>1
    <3>2. CASE y = ch
      BY <1>4, <2>2, <3>2
    <3>3. CASE y # ch /\ y \notin lost
      BY <1>4, <2>2, <3>3
    <3> QED
      BY <3>1, <3>2, <3>3
  <2>4. ASSUME NEW x \in Callers, Waits(x, y)'
        PROVE  Second <= sinceTurn[y] + caller'[x].timer
    <3>1. CASE x = c
      BY <1>1, <1>3, <2>2, <2>4, <3>1
    <3>2. CASE x # c
      BY <1>2, <2>1, <2>4, <3>2 DEF TurnInv
    <3> QED
      BY <3>1, <3>2
  <2> QED
    BY <2>3, <2>4
<1> QED
  BY <1>1, <1>5, <1>7, <1>8 DEF TurnInv

LEMMA TakeKeepsTurns ==
  ASSUME TypeInv, TurnInv, NEW c \in Callers, TakeTurn(c)
  PROVE  TurnInv'
<1> DEFINE ch == caller[c].chat
<1>1. /\ caller'[c].pc = "queue" /\ \A x \in Callers : x # c => caller'[x] = caller[x]
      /\ caller[c].timer = 0 /\ ch \in Chats /\ At(c, "turn")
      /\ sinceTurn' = [sinceTurn EXCEPT ![ch] = 0] /\ UNCHANGED ahead
      /\ retired' = IF caller[c].orphan THEN retired \cup {ch} ELSE retired \ {ch}
  BY TakeTurnGood DEF TakeTurn, limits
<1>2. \A x \in Callers, y \in Chats : Waits(x, y)' => x # c /\ Waits(x, y) /\ caller'[x] = caller[x]
  BY <1>1 DEF Waits, At
<1>3. sinceTurn'[ch] = 0 /\ \A y \in Chats : y # ch => sinceTurn'[y] = sinceTurn[y]
  BY <1>1 DEF TypeInv
<1>4. ASSUME NEW y \in Chats, y \notin retired'
      PROVE  /\ Second <= sinceTurn'[y] + ahead[y]
             /\ \A x \in Callers : Waits(x, y)' => Second <= sinceTurn'[y] + caller'[x].timer
  <2>1. CASE y # ch
    BY <1>1, <1>2, <1>3, <1>4, <2>1 DEF TurnInv
  <2>2. CASE y = ch
    <3>1. Waits(c, ch)
      BY <1>1, <1>4, <2>2 DEF Waits
    <3>2. caller[c].timer + Second <= ahead[ch]
      BY <1>1, <3>1 DEF TurnInv
    <3>3. ASSUME NEW x \in Callers, Waits(x, y)'
          PROVE  Second <= sinceTurn'[y] + caller'[x].timer
      <4>1. x # c /\ Waits(x, ch) /\ caller'[x] = caller[x]
        BY <1>2, <2>2, <3>3
      <4>2. caller[c].timer + Second <= caller[x].timer \/ caller[x].timer + Second <= caller[c].timer
        BY <1>1, <3>1, <4>1 DEF TurnInv
      <4> QED
        BY <1>1, <1>3, <2>2, <4>1, <4>2, Hours
    <3> QED
      BY <1>1, <1>3, <2>2, <3>2, <3>3, Hours
  <2> QED
    BY <2>1, <2>2
<1> QED
  BY <1>1, <1>2, <1>4 DEF TurnInv

LEMMA TickKeepsTurns ==
  ASSUME TypeInv, TurnInv, Tick
  PROVE  TurnInv'
<1>1. \A c \in Callers :
        /\ caller'[c].pc = caller[c].pc /\ caller'[c].chat = caller[c].chat
        /\ caller'[c].orphan = caller[c].orphan /\ caller'[c].timer = Less(caller[c].timer)
  BY TickGood
<1>2. \A x \in Callers, y \in Chats : Waits(x, y)' =>
        Waits(x, y) /\ caller[x].timer > 0 /\ caller'[x].timer = caller[x].timer - 1
  <2>1. \A x \in Callers : At(x, "turn") => caller[x].timer > 0 /\ Less(caller[x].timer) = caller[x].timer - 1
    BY Hours DEF Tick, Less
  <2>2. \A x \in Callers, y \in Chats : Waits(x, y)' => Waits(x, y)
    BY <1>1 DEF Waits, At
  <2> QED
    BY <1>1, <2>1, <2>2 DEF Waits
<1>3. ASSUME NEW y \in Chats
      PROVE  /\ ahead'[y] = Less(ahead[y])
             /\ sinceTurn'[y] = (IF sinceTurn[y] + 1 <= Second THEN sinceTurn[y] + 1 ELSE Second)
             /\ y \notin retired' => y \notin retired \/ sinceTurn'[y] = Second
  <2>1. sinceTurn'[y] = Min({sinceTurn[y] + 1, Second}) /\ ahead'[y] = Less(ahead[y])
    BY DEF Tick
  <2>2. sinceTurn'[y] = (IF sinceTurn[y] + 1 <= Second THEN sinceTurn[y] + 1 ELSE Second)
    BY <2>1, LessOfTwo, Hours
  <2>3. y \notin retired' => y \notin retired \/ ~(sinceTurn[y] + 1 < Second)
    BY DEF Tick
  <2> QED
    BY <2>1, <2>2, <2>3, Hours
<1>4. ASSUME NEW y \in Chats, NEW x \in Callers, Waits(x, y)'
      PROVE  /\ caller'[x].timer + Second <= ahead'[y]
             /\ caller'[x].timer \in Nat
  <2>1. /\ caller[x].timer > 0 /\ caller'[x].timer = caller[x].timer - 1
        /\ caller[x].timer + Second <= ahead[y]
    BY <1>2, <1>4 DEF TurnInv
  <2>2. ahead'[y] = Less(ahead[y])
    BY <1>3
  <2> QED
    BY <2>1, <2>2, Hours DEF Less
<1>5. ASSUME NEW y \in Chats, NEW x \in Callers, NEW z \in Callers, x # z,
             Waits(x, y)', Waits(z, y)'
      PROVE  \/ caller'[x].timer + Second <= caller'[z].timer
             \/ caller'[z].timer + Second <= caller'[x].timer
  <2>1. /\ caller'[x].timer = caller[x].timer - 1 /\ caller'[z].timer = caller[z].timer - 1
        /\ caller[x].timer + Second <= caller[z].timer \/ caller[z].timer + Second <= caller[x].timer
    BY <1>2, <1>5 DEF TurnInv
  <2> QED
    BY <2>1, Hours
<1>6. ASSUME NEW y \in Chats, y \notin retired'
      PROVE  /\ Second <= sinceTurn'[y] + ahead'[y]
             /\ \A x \in Callers : Waits(x, y)' => Second <= sinceTurn'[y] + caller'[x].timer
  <2>1. ahead'[y] \in Nat /\ (ahead'[y] = ahead[y] - 1 \/ (ahead[y] = 0 /\ ahead'[y] = 0))
    BY <1>3, Hours DEF Less
  <2>2. CASE sinceTurn'[y] = Second
    BY <1>4, <2>1, <2>2, Hours
  <2>3. CASE y \notin retired /\ sinceTurn'[y] = sinceTurn[y] + 1
    <3>1. Second <= sinceTurn[y] + ahead[y]
      BY <2>3 DEF TurnInv
    <3>2. Second <= sinceTurn'[y] + ahead'[y]
      BY <2>1, <2>3, <3>1, Hours
    <3>3. ASSUME NEW x \in Callers, Waits(x, y)'
          PROVE  Second <= sinceTurn'[y] + caller'[x].timer
      <4>1. caller'[x].timer = caller[x].timer - 1 /\ Second <= sinceTurn[y] + caller[x].timer
        BY <1>2, <2>3, <3>3 DEF TurnInv
      <4> QED
        BY <2>3, <4>1, Hours
    <3> QED
      BY <3>2, <3>3
  <2> QED
    BY <1>3, <1>6, <2>2, <2>3
<1> QED
  BY <1>4, <1>5, <1>6 DEF TurnInv

LEMMA TurnStep == TypeInv /\ TurnInv /\ [Next]_vars => TurnInv'
<1> SUFFICES ASSUME TypeInv, TurnInv, [Next]_vars PROVE TurnInv'
  OBVIOUS
<1>1. CASE UNCHANGED vars
  BY <1>1 DEF vars, limits, history, TurnInv, Waits, At
<1>2. ASSUME NEW c \in Callers,
             Begin(c) \/ Request(c) \/ Answered(c) \/ WakeUp(c) \/ Rest(c)
      PROVE  TurnInv'
  <2>1. caller'[c].pc # "turn" /\ \A x \in Callers : x # c => caller'[x] = caller[x]
    BY <1>2, BeginGood, RequestGood, LostGood, AcceptedGood, TooManyGood, RefusedGood, RestGood
       DEF Answered
  <2>2. UNCHANGED <<ahead, history>>
    BY <1>2 DEF Begin, Request, Answered, WakeUp, Rest, Lost, Accepted, TooMany, Refused, limits
  <2> QED
    BY <2>1, <2>2, TurnsStay
<1> QED
  BY <1>1, <1>2, CancelKeepsTurns, WaitKeepsTurns, TakeKeepsTurns, TickKeepsTurns DEF Next, Call

LEMMA InitTurns == Init => TurnInv
<1> SUFFICES ASSUME Init PROVE TurnInv
  OBVIOUS
<1>1. \A c \in Callers, ch \in Chats : ~Waits(c, ch)
  BY AtRestType DEF Init, Waits, At
<1>2. \A ch \in Chats : Second <= sinceTurn[ch] + ahead[ch]
  BY ClientAssumption DEF Init
<1> QED
  BY <1>1, <1>2 DEF TurnInv

\* Two turns of a chat are a second apart, however its callers race for its limiter and
\* give turns back, unless the map was emptied between the two (Client.waitForChat).
THEOREM ChatsAreNotFlooded == Spec => TurnsAreSpaced
<1> DEFINE Spaced == \A c \in Callers : At(c, "turn") /\ caller'[c].pc = "queue" =>
             \/ sinceTurn[caller[c].chat] >= Second
             \/ caller[c].orphan \/ caller[c].chat \in retired
<1>1. TypeInv /\ TurnInv /\ [Next]_vars => [Spaced]_vars
  <2> SUFFICES ASSUME TypeInv, TurnInv, Next, NEW c \in Callers, At(c, "turn"),
                      caller'[c].pc = "queue"
               PROVE  \/ sinceTurn[caller[c].chat] >= Second
                      \/ caller[c].orphan \/ caller[c].chat \in retired
    BY DEF Spaced
  <2>1. caller[c] \in Callees /\ caller'[c] # caller[c]
    BY Hours DEF At
  <2>2. ASSUME NEW x \in Callers, TakeTurn(x)
        PROVE  x = c
    BY <2>1, <2>2, TakeTurnGood
  <2>3. ASSUME NEW x \in Callers, Begin(x) \/ Request(x) \/ Answered(x) \/ WakeUp(x) \/ Rest(x)
        PROVE  FALSE
    <3>1. ~At(x, "turn")
      BY <2>3 DEF Begin, Request, Answered, WakeUp, Rest, Lost, Accepted, TooMany, Refused, At, Results
    <3>2. x # c
      BY <3>1
    <3> QED
      BY <2>1, <2>3, <3>2, BeginGood, RequestGood, LostGood, AcceptedGood, TooManyGood, RefusedGood,
         RestGood DEF Answered
  <2>4. ASSUME NEW x \in Callers, Cancel(x)
        PROVE  FALSE
    BY <2>1, <2>4, CancelGood
  <2>5. ASSUME NEW x \in Callers, WaitForChat(x)
        PROVE  FALSE
    <3>1. x # c
      BY <2>5, WaitGood
    <3>2. caller'[c] = caller[c] \/ caller'[c] = [caller[c] EXCEPT !.orphan = TRUE]
      BY <2>5, <3>1, WaitGood
    <3> QED
      BY <2>1, <3>2 DEF Callees, At
  <2>6. ~Tick
    BY TickGood DEF At
  <2>7. TakeTurn(c)
    BY <2>2, <2>3, <2>4, <2>5, <2>6 DEF Next, Call
  <2>8. caller[c].timer = 0 /\ caller[c].chat \in Chats
    BY <2>7, TakeTurnGood
  <2>9. ASSUME ~caller[c].orphan, caller[c].chat \notin retired
        PROVE  sinceTurn[caller[c].chat] >= Second
    <3>1. Waits(c, caller[c].chat)
      BY <2>9 DEF Waits
    <3>2. Second <= sinceTurn[caller[c].chat] + caller[c].timer
      BY <2>8, <2>9, <3>1 DEF TurnInv
    <3> QED
      BY <2>8, <3>2, Hours
  <2> QED
    BY <2>9
<1> HIDE DEF Spaced
<1>2. Spec => [][Spaced]_vars
  BY <1>1, InitTurns, TurnStep, ClientIsTyped, PTL DEF Spec
<1> QED
  BY <1>2 DEF Spaced, TurnsAreSpaced

(************************* What has been sent *****************************)

\* A call that sends text sends the parts of a digest.
Sends == \A c \in Callers : caller[c].parts \in Texts \cup {<<>>}

\* All that a call which succeeds has sent are the parts of one digest: messages that
\* Telegram takes, with the bytes of that digest, each once and in order.
DigestsArriveWhole ==
  \A c \in Callers : At(c, "ok") /\ caller[c].parts # <<>> =>
    /\ \A i \in DOMAIN caller[c].arrived : SizeOf(caller[c].arrived[i]) <= MaxBytes
    /\ \E d \in Digests : Bytes(FlattenSeq(caller[c].arrived)) = Bytes(FlattenSeq(d))

LEMMA BecomesASender ==
  ASSUME TypeInv, Sends, NEW c \in Callers, NEW g, Become(c, g),
         g.parts \in Texts \cup {<<>>}
  PROVE  Sends'
<1>1. caller'[c] = g /\ \A x \in Callers : x # c => caller'[x] = caller[x]
  BY DEF TypeInv, Become
<1>2. UNCHANGED Texts
  BY DEF Texts
<1> HIDE DEF Texts
<1> QED
  BY <1>1, <1>2 DEF Sends

LEMMA ReturnsASender ==
  ASSUME TypeInv, Sends, NEW c \in Callers, NEW result, NEW text, Return(c, result, text)
  PROVE  Sends'
<1> DEFINE g == [AtRest EXCEPT !.pc = result, !.parts = caller[c].parts, !.arrived = text]
<1>1. g.parts = caller[c].parts
  BY DEF AtRest
<1>2. Become(c, g)
  BY DEF Return
<1> HIDE DEF g
<1> QED
  BY <1>1, <1>2, BecomesASender DEF Sends

LEMMA SendsStep == TypeInv /\ Sends /\ [Next]_vars => Sends'
<1> SUFFICES ASSUME TypeInv, Sends, [Next]_vars PROVE Sends'
  OBVIOUS
<1>0. /\ \A c \in Callers : caller[c] \in Callees /\ caller[c].parts \in Texts \cup {<<>>}
      /\ UNCHANGED Texts
  BY DEF TypeInv, Sends, Texts
<1> HIDE DEF Texts
<1>1. CASE UNCHANGED vars
  BY <1>0, <1>1 DEF vars, Sends
<1>2. ASSUME NEW c \in Callers, Begin(c)
      PROVE  Sends'
  <2>1. ASSUME NEW ch \in Chats, NEW parts \in Texts, NEW icons \in BOOLEAN,
               Become(c, [AtRest EXCEPT !.pc = "look", !.chat = ch, !.parts = parts,
                                        !.icons = icons])
        PROVE  Sends'
    <3> DEFINE g == [AtRest EXCEPT !.pc = "look", !.chat = ch, !.parts = parts, !.icons = icons]
    <3>1. g.parts = parts /\ Become(c, g)
      BY <2>1 DEF AtRest
    <3> HIDE DEF g
    <3> QED
      BY <3>1, BecomesASender
  <2>2. ASSUME Become(c, [AtRest EXCEPT !.pc = "queue"])
        PROVE  Sends'
    <3>1. [AtRest EXCEPT !.pc = "queue"].parts = <<>>
      BY DEF AtRest
    <3> QED
      BY <2>2, <3>1, BecomesASender
  <2> QED
    BY <1>2, <2>1, <2>2 DEF Begin
<1>3. ASSUME NEW c \in Callers, Rest(c)
      PROVE  Sends'
  BY <1>3, AtRestType, BecomesASender DEF Rest
<1>4. ASSUME NEW c \in Callers, Cancel(c) \/ Lost(c)
      PROVE  Sends'
  BY <1>4, ReturnsASender DEF Cancel, Lost
<1>5. ASSUME NEW c \in Callers, NEW g, Become(c, g), g.parts = caller[c].parts
      PROVE  Sends'
  BY <1>0, <1>5, BecomesASender
<1>6. ASSUME NEW c \in Callers, TakeTurn(c) \/ Request(c) \/ WakeUp(c)
      PROVE  Sends'
  <2>1. CASE TakeTurn(c)
    <3> DEFINE g == [caller[c] EXCEPT !.pc = "queue", !.icons = @ /\ ~iconsRefused,
                                      !.orphan = FALSE]
    <3>1. Become(c, g) /\ g.parts = caller[c].parts
      BY <1>0, <2>1 DEF TakeTurn, Callees
    <3> HIDE DEF g
    <3> QED
      BY <1>5, <3>1
  <2>2. CASE Request(c) \/ WakeUp(c)
    <3>1. PICK pc \in {"queue", "out"} : Become(c, [caller[c] EXCEPT !.pc = pc])
      BY <2>2 DEF Request, WakeUp
    <3> DEFINE g == [caller[c] EXCEPT !.pc = pc]
    <3>2. Become(c, g) /\ g.parts = caller[c].parts
      BY <1>0, <3>1 DEF Callees
    <3> HIDE DEF g
    <3> QED
      BY <1>5, <3>2
  <2> QED
    BY <1>6, <2>1, <2>2
<1>7. ASSUME NEW c \in Callers, Accepted(c) \/ TooMany(c) \/ Refused(c)
      PROVE  Sends'
  <2>1. ASSUME NEW result, NEW text, Return(c, result, text)
        PROVE  Sends'
    BY <2>1, ReturnsASender
  <2>2. CASE Accepted(c)
    <3>1. ASSUME NEW icons \in BOOLEAN,
                 Become(c, [caller[c] EXCEPT !.pc = "look", !.part = @ + 1, !.icons = icons,
                                             !.attempt = 1, !.arrived = WithText(c)])
          PROVE  Sends'
      <4> DEFINE g == [caller[c] EXCEPT !.pc = "look", !.part = @ + 1, !.icons = icons,
                                        !.attempt = 1, !.arrived = WithText(c)]
      <4>1. Become(c, g) /\ g.parts = caller[c].parts
        BY <1>0, <3>1 DEF Callees
      <4> HIDE DEF g
      <4> QED
        BY <1>5, <4>1
    <3> QED
      BY <2>1, <2>2, <3>1 DEF Accepted
  <2>3. CASE TooMany(c)
    <3>1. ASSUME NEW d \in Demands,
                 Become(c, [caller[c] EXCEPT !.pc = "sleep", !.attempt = @ + 1,
                                             !.timer = Min({d, MaxRetryAfter})])
          PROVE  Sends'
      <4> DEFINE m == Min({d, MaxRetryAfter})
                 g == [caller[c] EXCEPT !.pc = "sleep", !.attempt = @ + 1, !.timer = m]
      <4>1. Become(c, g)
        BY <3>1
      <4> HIDE DEF m
      <4>2. g.parts = caller[c].parts
        BY <1>0 DEF Callees
      <4> HIDE DEF g
      <4> QED
        BY <1>5, <4>1, <4>2
    <3> QED
      BY <2>1, <2>3, <3>1 DEF TooMany
  <2>4. CASE Refused(c)
    <3>1. ASSUME Become(c, [caller[c] EXCEPT !.pc = "queue", !.icons = FALSE, !.attempt = 1])
          PROVE  Sends'
      <4> DEFINE g == [caller[c] EXCEPT !.pc = "queue", !.icons = FALSE, !.attempt = 1]
      <4>1. Become(c, g) /\ g.parts = caller[c].parts
        BY <1>0, <3>1 DEF Callees
      <4> HIDE DEF g
      <4> QED
        BY <1>5, <4>1
    <3>2. \/ Become(c, [caller[c] EXCEPT !.pc = "queue", !.icons = FALSE, !.attempt = 1])
          \/ \E result \in Results : Return(c, result, caller[c].arrived)
      BY <2>4 DEF Refused, Results
    <3> QED
      BY <2>1, <3>1, <3>2
  <2> QED
    BY <1>7, <2>2, <2>3, <2>4
<1>8. ASSUME \A x \in Callers : caller'[x].parts = caller[x].parts
      PROVE  Sends'
  BY <1>0, <1>8 DEF Sends
<1>9. ASSUME NEW c \in Callers, WaitForChat(c)
      PROVE  Sends'
  <2>1. PICK others : Promise(c, others)
    BY <1>9 DEF WaitForChat
  <2>2. \A x \in Callers : caller'[x].parts = caller[x].parts
    BY <1>0, <2>1 DEF Promise, Callees
  <2> QED
    BY <1>8, <2>2
<1>10. ASSUME Tick
       PROVE  Sends'
  <2>1. \A x \in Callers : caller'[x].parts = caller[x].parts
    BY <1>0, <1>10 DEF Tick, Callees
  <2> QED
    BY <1>8, <2>1
<1> QED
  BY <1>1, <1>2, <1>3, <1>4, <1>6, <1>7, <1>9, <1>10 DEF Next, Call, Answered

\* A call that succeeds has put the whole of one digest in the chat, its bytes once and
\* in order, in messages that Telegram takes (Client.SendDigest, DigestParts).
THEOREM WholeDigestsArrive == Spec => []DigestsArriveWhole
<1>1. Init => Sends
  BY AtRestType DEF Init, Sends
<1>2. ArrivesInOrderOnce /\ Sends => DigestsArriveWhole
  <2> SUFFICES ASSUME ArrivesInOrderOnce, Sends, NEW c \in Callers, At(c, "ok"),
                      caller[c].parts # <<>>
               PROVE  /\ \A i \in DOMAIN caller[c].arrived :
                           SizeOf(caller[c].arrived[i]) <= MaxBytes
                      /\ \E d \in Digests :
                           Bytes(FlattenSeq(caller[c].arrived)) = Bytes(FlattenSeq(d))
    BY DEF DigestsArriveWhole
  <2>1. PICK d \in Digests : caller[c].arrived = DigestParts(d)
    BY DEF ArrivesInOrderOnce, Sends, Texts
  <2>2. CutAsItShouldBe(d)
    BY AnyDigestIsCutWell, DigestsAssumption
  <2>3. /\ \A i \in DOMAIN DigestParts(d) : SizeOf(DigestParts(d)[i]) <= MaxBytes
        /\ Bytes(FlattenSeq(DigestParts(d))) = Bytes(FlattenSeq(d))
    BY <2>2 DEF CutAsItShouldBe
  <2> QED
    BY <2>1, <2>3
<1>3. Spec => []Sends
  BY <1>1, SendsStep, ClientIsTyped, PTL DEF Spec
<1> QED
  BY <1>2, <1>3, DigestsArriveInOrder, PTL
=============================================================================
