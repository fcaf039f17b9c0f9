----------------------------- MODULE P2PMatchProofs -----------------------------
(***************************************************************************)
(* That the tokens of two peers form chains that nobody signs for twice,   *)
(* whatever they play, however showdowns end, and however messages are     *)
(* repeated or lost and wallets fail.                                      *)
(***************************************************************************)
EXTENDS P2PMatch, SequenceTheorems, TLAPS

-------------------------------------------------------------------------------
(* The invariant. *)

Listed(s) == IF drain[s] = <<>> THEN {} ELSE drain[s][1].left

\* Every copy of a message to a seat: on the server, pushed, or listed.
Stored(s) == box[s] \union Range(pushed[s]["moves"]) \union Range(pushed[s]["control"])
Coming(s) == Stored(s) \union Listed(s)

\* The moves a seat may still execute.
Waiting(s) ==
    Range(inbox[s].queue) \union
    {m.body : m \in {x \in Coming(s) : x.box = "moves" /\ Fresh(inbox[s], x.body.num)}}

IsSeq(q) == q \in Seq(Range(q))

\* The queue holds moves of distinct numbers, none above the last one received.
InboxOK(in) ==
    /\ DOMAIN in = {"last", "queue", "onMove", "onControl", "awaits", "got", "dropped"}
    /\ in.last \in Int /\ IsSeq(in.queue)
    /\ \A i \in 1..Len(in.queue) : in.queue[i].num \in Int /\ in.queue[i].num <= in.last
    /\ \A i, j \in 1..Len(in.queue) : i # j => in.queue[i].num # in.queue[j].num

MailTyped ==
    /\ DOMAIN box = Seats /\ DOMAIN pushed = Seats /\ DOMAIN drain = Seats
    /\ DOMAIN inbox = Seats /\ DOMAIN sent = Seats
    /\ \A s \in Seats : /\ DOMAIN pushed[s] = Boxes /\ \A b \in Boxes : IsSeq(pushed[s][b])
                        /\ DOMAIN sent[s] = {"all", "moves"} /\ sent[s].moves \in Nat

Numbered(s) == \A m \in Coming(s) : m.box = "moves" => m.body.num \in Int /\ m.body.num <= sent[1 - s].moves

MailInv ==
    /\ MailTyped
    /\ \A s \in Seats : InboxOK(inbox[s]) /\ inbox[s].last <= sent[1 - s].moves /\ Numbered(s)

\* A token that its seat may take for its own.
Owned(s, id) == id \in 1..Len(tokens) /\ tokens[id].lockedTo = KeyOf(s, tokens[id]) /\ ~Spent(id)

LedgerInv ==
    /\ IsSeq(tokens)
    /\ \A i \in 1..Len(tokens) :
           /\ tokens[i].version \in Int /\ tokens[i].spends \in 0..(i - 1)
           /\ tokens[i].spends # 0 => tokens[i].version = tokens[tokens[i].spends].version + 1
    /\ \A i, j \in 1..Len(tokens) : tokens[i].spends # 0 /\ tokens[j].spends = tokens[i].spends => j = i

LiveId(s) == machine[s].live[1].id

\* A seat that believes it can sign owns the token, and counts its versions as the ledger does.
HolderInv(s) ==
    canISpend(s) => /\ Owned(s, LiveId(s))
                    /\ pc[s] # "failed" => machine[s].cellVersion = tokens[LiveId(s)].version

\* A move that hands a token over hands over one the seat owns, another one than it holds, and no two moves the same.
Handed(s, w) ==
    LET t == w.move.token[1]
    IN  /\ Owned(s, t.id) /\ tokens[t.id].version = t.version
        /\ canISpend(s) => t.id # LiveId(s)

OfferInv(s) ==
    /\ \A w \in Waiting(s) : w.move.token # <<>> => Handed(s, w)
    /\ \A w, x \in Waiting(s) : /\ w.move.token # <<>> /\ x.move.token # <<>>
                                /\ w.num # x.num
                                => w.move.token[1].id # x.move.token[1].id

MachineTyped ==
    /\ DOMAIN machine = Seats /\ DOMAIN pc = Seats
    /\ \A s \in Seats : DOMAIN machine[s] = {"live", "cellVersion"} /\ machine[s].cellVersion \in Int

TokenInv == LedgerInv /\ MachineTyped /\ \A s \in Seats : HolderInv(s) /\ OfferInv(s)

MatchInv == MailInv /\ TokenInv
-------------------------------------------------------------------------------
(* Sequences. *)

LEMMA AppendSeq ==
    ASSUME NEW q, IsSeq(q), NEW m
    PROVE  /\ IsSeq(Append(q, m)) /\ Range(Append(q, m)) = Range(q) \union {m}
           /\ Len(Append(q, m)) = Len(q) + 1 /\ Append(q, m)[Len(q) + 1] = m
           /\ \A i \in 1..Len(q) : Append(q, m)[i] = q[i]
  <1> DEFINE S == Range(q) \union {m}  r == Append(q, m)
  <1>1. q \in Seq(S) /\ m \in S
    BY DEF IsSeq
  <1>2. /\ r \in Seq(S) /\ Len(r) = Len(q) + 1 /\ r[Len(q) + 1] = m
        /\ \A i \in 1..Len(q) : r[i] = q[i]
    BY <1>1
  <1>3. DOMAIN r = 1..Len(r) /\ DOMAIN q = 1..Len(q) /\ Len(q) \in Nat
    BY <1>1, <1>2
  <1>4. Range(r) = S
    BY <1>2, <1>3 DEF Range
  <1> QED BY <1>2, <1>4 DEF IsSeq

LEMMA TailSeq ==
    ASSUME NEW q, IsSeq(q), q # <<>>
    PROVE  /\ IsSeq(Tail(q)) /\ Range(Tail(q)) \subseteq Range(q) /\ Head(q) \in Range(q)
           /\ Len(q) >= 1 /\ Len(Tail(q)) = Len(q) - 1 /\ Head(q) = q[1]
           /\ \A i \in 1..Len(Tail(q)) : Tail(q)[i] = q[i + 1]
  <1> DEFINE r == Tail(q)
  <1>1. /\ q \in Seq(Range(q)) /\ r \in Seq(Range(q)) /\ Len(q) >= 1 /\ Len(q) \in Nat /\ Len(r) = Len(q) - 1
        /\ Head(q) = q[1] /\ \A i \in 1..Len(r) : r[i] = q[i + 1]
    BY DEF IsSeq
  <1>2. DOMAIN r = 1..Len(r) /\ DOMAIN q = 1..Len(q)
    BY <1>1
  <1>3. Range(r) \subseteq Range(q) /\ Head(q) \in Range(q)
    BY <1>1, <1>2 DEF Range
  <1>4. r \in Seq(Range(r))
    <2>1. \A i \in 1..Len(r) : r[i] \in Range(r)
      BY <1>2 DEF Range
    <2>2. r \in [1..Len(r) -> Range(q)] /\ Len(r) \in Nat
      BY <1>1, LenProperties
    <2>3. r \in [1..Len(r) -> Range(r)]
      BY <2>1, <2>2
    <2> HIDE DEF r
    <2> QED BY <2>2, <2>3, SeqDef
  <1> QED BY <1>1, <1>3, <1>4 DEF IsSeq

LEMMA NothingSeq == IsSeq(<<>>) /\ Range(<<>>) = {} /\ Len(<<>>) = 0
  <1>1. Range(<<>>) = {}
    BY DEF Range
  <1> QED BY <1>1, EmptySeq DEF IsSeq
-------------------------------------------------------------------------------
(* What mail does to the moves a seat may still execute. *)

LEMMA ReceivedOK ==
    ASSUME NEW in, InboxOK(in), NEW m, m.box = "moves" => m.body.num \in Int
    PROVE  /\ InboxOK(Received(in, m))
           /\ Range(Received(in, m).queue) \subseteq
                  Range(in.queue) \union (IF m.box = "moves" /\ Fresh(in, m.body.num) THEN {m.body} ELSE {})
           /\ Received(in, m).last >= in.last
           /\ Received(in, m).last = in.last \/ (m.box = "moves" /\ Received(in, m).last = m.body.num)
  <1>1. CASE m.box = "moves" /\ Fresh(in, m.body.num)
    <2>1. /\ Received(in, m).last = m.body.num /\ m.body.num \in Int /\ m.body.num > in.last /\ in.last \in Int
          /\ DOMAIN Received(in, m) = DOMAIN in
          /\ Received(in, m).queue = IF in.onMove THEN Append(in.queue, m.body) ELSE in.queue
      BY <1>1 DEF Received, Fresh, InboxOK
    <2>2. CASE ~in.onMove
      BY <1>1, <2>1, <2>2 DEF InboxOK
    <2>3. CASE in.onMove
      <3>1. PICK q : q = in.queue
        OBVIOUS
      <3>2. PICK r : r = Received(in, m).queue
        OBVIOUS
      <3>3. /\ IsSeq(q) /\ Len(q) \in Nat
            /\ \A i \in 1..Len(q) : q[i].num \in Int /\ q[i].num <= in.last
            /\ \A i, j \in 1..Len(q) : i # j => q[i].num # q[j].num
        BY <3>1 DEF InboxOK, IsSeq
      <3>4. /\ IsSeq(r) /\ Range(r) = Range(q) \union {m.body} /\ Len(r) = Len(q) + 1
            /\ r[Len(q) + 1] = m.body /\ \A i \in 1..Len(q) : r[i] = q[i]
        BY <2>1, <2>3, <3>1, <3>2, <3>3, AppendSeq
      <3>5. \A i \in 1..Len(r) : i \in 1..Len(q) \/ i = Len(q) + 1
        BY <3>3, <3>4
      <3>6. \A i \in 1..Len(r) : r[i].num \in Int /\ r[i].num <= m.body.num
        BY <2>1, <3>3, <3>4, <3>5
      <3>7. \A i \in 1..Len(q) : r[i].num # m.body.num
        BY <2>1, <3>3, <3>4
      <3>8. ASSUME NEW i \in 1..Len(r), NEW j \in 1..Len(r), i # j
            PROVE  r[i].num # r[j].num
        <4>1. CASE i \in 1..Len(q) /\ j \in 1..Len(q)
          BY <3>3, <3>4, <3>8, <4>1
        <4>2. CASE i = Len(q) + 1 \/ j = Len(q) + 1
          BY <3>4, <3>5, <3>7, <3>8, <4>2
        <4> QED BY <3>5, <4>1, <4>2
      <3> QED BY <1>1, <2>1, <3>1, <3>2, <3>4, <3>6, <3>8 DEF InboxOK
    <2> QED BY <2>2, <2>3
  <1>2. CASE ~(m.box = "moves" /\ Fresh(in, m.body.num))
    <2>1. /\ Received(in, m).last = in.last /\ Received(in, m).queue = in.queue
          /\ DOMAIN Received(in, m) = DOMAIN in
      BY <1>2 DEF Received, InboxOK
    <2>2. PICK out : out = Received(in, m)
      OBVIOUS
    <2>3. InboxOK(out)
      BY <2>1, <2>2 DEF InboxOK
    <2>4. Range(out.queue) = Range(in.queue) /\ out.last >= in.last
      BY <2>1, <2>2 DEF InboxOK
    <2> QED BY <1>2, <2>1, <2>2, <2>3, <2>4
  <1> QED BY <1>1, <1>2

\* A step that reads nothing and sends at most one move per seat.
LEMMA Mailed ==
    ASSUME MailInv, MailTyped', NEW new,
           \A s \in Seats : /\ sent'[s].moves >= sent[s].moves
                            /\ inbox'[s].last = inbox[s].last /\ inbox'[s].queue = inbox[s].queue
                            /\ DOMAIN inbox'[s] = DOMAIN inbox[s]
           , \A s \in Seats : \A m \in Coming(s)' :
               \/ m \in Coming(s)
               \/ m.box # "moves"
               \/ m.body \in new[s] /\ m.body.num = sent'[1 - s].moves
    PROVE  MailInv' /\ \A s \in Seats : Waiting(s)' \subseteq Waiting(s) \union new[s]
  <1> SUFFICES ASSUME NEW s \in Seats
               PROVE  /\ InboxOK(inbox[s])' /\ (inbox[s].last <= sent[1 - s].moves)' /\ Numbered(s)'
                      /\ Waiting(s)' \subseteq Waiting(s) \union new[s]
    BY DEF MailInv
  <1>1. /\ 1 - s \in Seats /\ sent[1 - s].moves \in Nat /\ sent'[1 - s].moves \in Nat
        /\ sent'[1 - s].moves >= sent[1 - s].moves
    BY DEF Seats, MailInv, MailTyped
  <1>2. InboxOK(inbox[s]) /\ inbox[s].last <= sent[1 - s].moves /\ Numbered(s)
    BY DEF MailInv
  <1>3. InboxOK(inbox[s])'
    BY <1>2 DEF InboxOK
  <1>4. (inbox[s].last <= sent[1 - s].moves)'
    BY <1>1, <1>2 DEF InboxOK
  <1>5. Numbered(s)'
    BY <1>1, <1>2 DEF Numbered
  <1>6. Waiting(s)' \subseteq Waiting(s) \union new[s]
    BY DEF Waiting, Fresh
  <1> QED BY <1>3, <1>4, <1>5, <1>6

\* A message is handled: what it leaves waiting was waiting before.
LEMMA Taken ==
    ASSUME MailInv, MailTyped', NEW s \in Seats, NEW m \in Coming(s),
           inbox' = [inbox EXCEPT ![s] = Received(@, m)], sent' = sent,
           \A t \in Seats : Coming(t)' \subseteq Coming(t)
    PROVE  MailInv' /\ \A t \in Seats : Waiting(t)' \subseteq Waiting(t)
  <1> SUFFICES ASSUME NEW t \in Seats
               PROVE  /\ InboxOK(inbox[t])' /\ (inbox[t].last <= sent[1 - t].moves)' /\ Numbered(t)'
                      /\ Waiting(t)' \subseteq Waiting(t)
    BY DEF MailInv
  <1>1. /\ 1 - t \in Seats /\ sent[1 - t].moves \in Nat
    BY DEF Seats, MailInv, MailTyped
  <1>2. InboxOK(inbox[t]) /\ inbox[t].last <= sent[1 - t].moves /\ Numbered(t)
    BY DEF MailInv
  <1>3. Numbered(t)'
    BY <1>2 DEF Numbered
  <1>4. CASE t # s
    <2>1. inbox'[t] = inbox[t]
      BY <1>4 DEF MailInv, MailTyped
    <2>2. Waiting(t)' \subseteq Waiting(t)
      BY <2>1 DEF Waiting
    <2> QED BY <1>2, <1>3, <2>1, <2>2 DEF InboxOK
  <1>5. CASE t = s
    <2>1. inbox'[s] = Received(inbox[s], m)
      BY DEF MailInv, MailTyped
    <2>2. m.box = "moves" => m.body.num \in Int /\ m.body.num <= sent[1 - s].moves
      BY <1>2, <1>5 DEF Numbered
    <2>3. /\ InboxOK(inbox'[s])
          /\ Range(inbox'[s].queue) \subseteq Range(inbox[s].queue) \union
                 (IF m.box = "moves" /\ Fresh(inbox[s], m.body.num) THEN {m.body} ELSE {})
          /\ inbox'[s].last >= inbox[s].last
          /\ inbox'[s].last = inbox[s].last \/ (m.box = "moves" /\ inbox'[s].last = m.body.num)
      <3>1. PICK in : in = inbox[s]
        OBVIOUS
      <3>2. InboxOK(in) /\ (m.box = "moves" => m.body.num \in Int)
        BY <1>2, <1>5, <2>2, <3>1
      <3>3. /\ InboxOK(Received(in, m))
            /\ Range(Received(in, m).queue) \subseteq
                   Range(in.queue) \union (IF m.box = "moves" /\ Fresh(in, m.body.num) THEN {m.body} ELSE {})
            /\ Received(in, m).last >= in.last
            /\ Received(in, m).last = in.last \/ (m.box = "moves" /\ Received(in, m).last = m.body.num)
        BY <3>2, ReceivedOK
      <3> QED BY <2>1, <3>1, <3>3
    <2>4. Waiting(s)' \subseteq Waiting(s)
      <3>1. Range(inbox'[s].queue) \subseteq Waiting(s)
        BY <2>3 DEF Waiting
      <3>2. ASSUME NEW x \in Coming(s)', x.box = "moves", Fresh(inbox'[s], x.body.num)
            PROVE  x.body \in Waiting(s)
        <4>1. x \in Coming(s) /\ x.body.num \in Int
          BY <1>2, <1>5, <3>2 DEF Numbered
        <4>2. Fresh(inbox[s], x.body.num)
          BY <1>2, <1>5, <2>3, <3>2, <4>1 DEF Fresh, InboxOK
        <4> QED BY <3>2, <4>1, <4>2 DEF Waiting
      <3> QED BY <3>1, <3>2 DEF Waiting
    <2> QED BY <1>2, <1>3, <1>5, <2>2, <2>3, <2>4 DEF InboxOK
  <1> QED BY <1>4, <1>5
-------------------------------------------------------------------------------
(* The transport's operations. *)

LEMMA ListedFrom ==
    ASSUME DOMAIN drain = Seats, NEW s \in Seats, NEW messages, NEW left, NEW b,
           drain' = [drain EXCEPT ![s] = Drain(messages, left, b)]
    PROVE  /\ DOMAIN drain' = Seats /\ Listed(s)' \subseteq messages \union left
           /\ \A t \in Seats : t # s => Listed(t)' = Listed(t)
  <1>1. DOMAIN drain' = Seats /\ drain'[s] = Drain(messages, left, b) /\ \A t \in Seats : t # s => drain'[t] = drain[t]
    OBVIOUS
  <1>2. Listed(s)' \subseteq messages \union left
    BY <1>1 DEF Listed, Drain, Listing
  <1> QED BY <1>1, <1>2 DEF Listed

LEMMA DrainStarts ==
    ASSUME DOMAIN drain = Seats, NEW s \in Seats, StartDrain(s)
    PROVE  /\ DOMAIN drain' = Seats /\ Listed(s)' \subseteq box[s]
           /\ \A t \in Seats : t # s => Listed(t)' = Listed(t)
  <1>1. /\ DOMAIN drain' = Seats /\ Listed(s)' \subseteq box[s] \union Listing(box[s], "moves")
        /\ \A t \in Seats : t # s => Listed(t)' = Listed(t)
    BY ListedFrom DEF StartDrain
  <1> QED BY <1>1 DEF Listing

\* A message is stored for the other seat, and counted if it is a move.
LEMMA Sends ==
    ASSUME MailInv, NEW s \in Seats, NEW b \in Boxes, NEW body, Send(s, b, body)
    PROVE  /\ DOMAIN box' = Seats /\ DOMAIN pushed' = Seats /\ DOMAIN sent' = Seats
           /\ \A t \in Seats : /\ DOMAIN pushed'[t] = Boxes /\ \A c \in Boxes : IsSeq(pushed'[t][c])
                               /\ DOMAIN sent'[t] = {"all", "moves"} /\ sent'[t].moves \in Nat
                               /\ sent'[t].moves >= sent[t].moves
           /\ b = "moves" => sent'[s].moves = sent[s].moves + 1
           /\ \A t \in Seats : \A x \in Stored(t)' : x \in Stored(t) \/ (t = 1 - s /\ x.box = b /\ x.body = body)
  <1>1. 1 - s \in Seats /\ MailTyped
    BY DEF Seats, MailInv
  <1>2. PICK m : m.box = b /\ m.body = body
                 /\ box' = [box EXCEPT ![1 - s] = @ \union {m}]
                 /\ \/ pushed' = [pushed EXCEPT ![1 - s][b] = Append(@, m)]
                    \/ pushed' = pushed
    <2>1. PICK x : x = [id |-> sent[s].all + 1, box |-> b, body |-> body]
      OBVIOUS
    <2>2. /\ x.box = b /\ x.body = body /\ box' = [box EXCEPT ![1 - s] = @ \union {x}]
          /\ \/ pushed' = [pushed EXCEPT ![1 - s][b] = Append(@, x)]
             \/ pushed' = pushed
      BY <2>1 DEF Send
    <2> QED BY <2>2
  <1>3. sent' = [sent EXCEPT ![s].all = @ + 1, ![s].moves = @ + (IF b = "moves" THEN 1 ELSE 0)]
    BY DEF Send
  <1>4. /\ DOMAIN sent' = Seats
        /\ \A t \in Seats : /\ DOMAIN sent'[t] = {"all", "moves"} /\ sent'[t].moves \in Nat
                            /\ sent'[t].moves >= sent[t].moves
        /\ b = "moves" => sent'[s].moves = sent[s].moves + 1
    <2>1. /\ DOMAIN sent' = Seats /\ \A t \in Seats : t # s => sent'[t] = sent[t]
          /\ DOMAIN sent'[s] = {"all", "moves"} /\ sent'[s].moves = sent[s].moves + (IF b = "moves" THEN 1 ELSE 0)
      BY <1>1, <1>3 DEF MailTyped
    <2> QED BY <1>1, <2>1 DEF MailTyped
  <1>5. DOMAIN box' = Seats /\ \A t \in Seats : box'[t] \subseteq box[t] \union (IF t = 1 - s THEN {m} ELSE {})
    BY <1>1, <1>2 DEF MailTyped
  <1>6. /\ DOMAIN pushed' = Seats
        /\ \A t \in Seats : /\ DOMAIN pushed'[t] = Boxes
                            /\ \A c \in Boxes : /\ IsSeq(pushed'[t][c])
                                                /\ Range(pushed'[t][c]) \subseteq
                                                       Range(pushed[t][c]) \union (IF t = 1 - s THEN {m} ELSE {})
    <2>1. CASE pushed' = pushed
      BY <1>1, <2>1 DEF MailTyped
    <2>2. CASE pushed' = [pushed EXCEPT ![1 - s][b] = Append(@, m)]
      <3>1. PICK q : q = pushed[1 - s][b]
        OBVIOUS
      <3>2. IsSeq(q)
        BY <1>1, <3>1 DEF MailTyped
      <3>3. IsSeq(Append(q, m)) /\ Range(Append(q, m)) = Range(q) \union {m}
        BY <3>2, AppendSeq
      <3>4. /\ DOMAIN pushed' = Seats /\ \A t \in Seats : t # 1 - s => pushed'[t] = pushed[t]
            /\ DOMAIN pushed'[1 - s] = Boxes /\ pushed'[1 - s][b] = Append(q, m)
            /\ \A c \in Boxes : c # b => pushed'[1 - s][c] = pushed[1 - s][c]
        BY <1>1, <2>2, <3>1 DEF MailTyped
      <3> QED BY <1>1, <3>1, <3>3, <3>4 DEF MailTyped
    <2> QED BY <1>2, <2>1, <2>2
  <1>7. \A t \in Seats : \A x \in Stored(t)' : x \in Stored(t) \/ (t = 1 - s /\ x = m)
    BY <1>5, <1>6 DEF Stored, Boxes
  <1> QED BY <1>2, <1>4, <1>5, <1>6, <1>7

LEMMA Takes ==
    ASSUME MailInv, NEW s \in Seats, NEW m, NEW heard, Take(s, m, heard)
    PROVE  /\ inbox' = [inbox EXCEPT ![s] = Received(@, m)] /\ DOMAIN inbox' = Seats
           /\ DOMAIN box' = Seats /\ \A t \in Seats : box'[t] \subseteq box[t]
  BY DEF Take, MailInv, MailTyped

LEMMA TransportMail ==
    ASSUME MailInv, NEW s \in Seats, (\E b \in Boxes : Push(s, b)) \/ DrainStep(s) \/ Poll(s)
    PROVE  MailInv' /\ \A t \in Seats : Waiting(t)' \subseteq Waiting(t)
  <1>1. MailTyped
    BY DEF MailInv
  <1>2. ASSUME NEW b \in Boxes, Push(s, b)
        PROVE  MailInv' /\ \A t \in Seats : Waiting(t)' \subseteq Waiting(t)
    <2>1. PICK q : q = pushed[s][b]
      OBVIOUS
    <2>2. /\ q # <<>> /\ pushed' = [pushed EXCEPT ![s][b] = Tail(q)] /\ UNCHANGED <<drain, sent>>
          /\ \E heard \in BOOLEAN : Take(s, Head(q), heard)
      BY <1>2, <2>1 DEF Push
    <2>3. PICK m, heard : m = Head(q) /\ Take(s, m, heard)
      BY <2>2
    <2>4. /\ inbox' = [inbox EXCEPT ![s] = Received(@, m)] /\ DOMAIN inbox' = Seats
          /\ DOMAIN box' = Seats /\ \A t \in Seats : box'[t] \subseteq box[t]
      BY <2>3, Takes
    <2>5. IsSeq(q)
      BY <1>1, <2>1 DEF MailTyped
    <2>6. IsSeq(Tail(q)) /\ Range(Tail(q)) \subseteq Range(q) /\ Head(q) \in Range(q)
      BY <2>2, <2>5, TailSeq
    <2>7. /\ DOMAIN pushed' = Seats
          /\ \A t \in Seats : /\ DOMAIN pushed'[t] = Boxes
                              /\ \A c \in Boxes : IsSeq(pushed'[t][c]) /\ Range(pushed'[t][c]) \subseteq Range(pushed[t][c])
      <3>1. /\ DOMAIN pushed' = Seats /\ \A t \in Seats : t # s => pushed'[t] = pushed[t]
            /\ DOMAIN pushed'[s] = Boxes /\ pushed'[s][b] = Tail(q)
            /\ \A c \in Boxes : c # b => pushed'[s][c] = pushed[s][c]
        BY <1>1, <2>2 DEF MailTyped
      <3> QED BY <1>1, <2>1, <2>6, <3>1 DEF MailTyped
    <2>8. m \in Coming(s)
      BY <2>1, <2>3, <2>6 DEF Coming, Stored, Boxes
    <2>9. \A t \in Seats : Coming(t)' \subseteq Coming(t)
      BY <2>2, <2>4, <2>7 DEF Coming, Stored, Listed, Boxes
    <2>10. MailTyped'
      BY <1>1, <2>2, <2>4, <2>7 DEF MailTyped
    <2> QED BY <2>2, <2>4, <2>8, <2>9, <2>10, Taken
  <1>3. CASE DrainStep(s)
    <2>1. PICK d : d = drain[s][1]
      OBVIOUS
    <2>2. drain[s] # <<>> /\ UNCHANGED <<pushed, sent>>
      BY <1>3 DEF DrainStep
    <2>3. PICK m \in d.left, heard \in BOOLEAN :
             /\ Take(s, m, heard)
             /\ drain' = [drain EXCEPT ![s] = Drain(box'[s], IF heard THEN d.left \ {m} ELSE {}, d.box)]
      BY <1>3, <2>1 DEF DrainStep
    <2>4. /\ inbox' = [inbox EXCEPT ![s] = Received(@, m)] /\ DOMAIN inbox' = Seats
          /\ DOMAIN box' = Seats /\ \A t \in Seats : box'[t] \subseteq box[t]
      BY <2>3, Takes
    <2>5. PICK left : left = IF heard THEN d.left \ {m} ELSE {}
      OBVIOUS
    <2>6. /\ DOMAIN drain' = Seats /\ Listed(s)' \subseteq box'[s] \union left
          /\ \A t \in Seats : t # s => Listed(t)' = Listed(t)
      <3>1. PICK messages, b : messages = box'[s] /\ b = d.box
        OBVIOUS
      <3>2. drain' = [drain EXCEPT ![s] = Drain(messages, left, b)]
        BY <2>3, <2>5, <3>1
      <3>3. DOMAIN drain = Seats
        BY <1>1 DEF MailTyped
      <3> QED BY <3>1, <3>2, <3>3, ListedFrom
    <2>7. Listed(s) = d.left /\ left \subseteq d.left
      BY <2>1, <2>2, <2>5 DEF Listed
    <2>8. \A t \in Seats : Coming(t)' \subseteq Coming(t)
      BY <2>2, <2>4, <2>6, <2>7 DEF Coming, Stored
    <2>9. MailTyped' /\ m \in Coming(s)
      BY <1>1, <2>2, <2>3, <2>4, <2>6, <2>7 DEF MailTyped, Coming
    <2> QED BY <2>2, <2>4, <2>8, <2>9, Taken
  <1>4. CASE Poll(s)
    <2>1. UNCHANGED <<box, pushed, inbox, sent>> /\ StartDrain(s)
      BY <1>4 DEF Poll
    <2>2. /\ DOMAIN drain' = Seats /\ Listed(s)' \subseteq box[s]
          /\ \A t \in Seats : t # s => Listed(t)' = Listed(t)
      BY <1>1, <2>1, DrainStarts DEF MailTyped
    <2>3. MailTyped' /\ \A t \in Seats : Coming(t)' \subseteq Coming(t)
      BY <1>1, <2>1, <2>2 DEF MailTyped, Coming, Stored
    <2>4. PICK new : new = [t \in Seats |-> {}]
      OBVIOUS
    <2>5. \A t \in Seats : sent[t].moves \in Nat
      BY <1>1 DEF MailTyped
    <2>6. MailInv' /\ \A t \in Seats : Waiting(t)' \subseteq Waiting(t) \union new[t]
      BY <2>1, <2>3, <2>5, Mailed
    <2> QED BY <2>4, <2>6
  <1> QED BY <1>2, <1>3, <1>4
-------------------------------------------------------------------------------
(* The mail of a runner's steps. *)

\* The seats' inboxes keep what they received.
InboxKept ==
    /\ DOMAIN inbox' = Seats
    /\ \A t \in Seats : /\ inbox'[t].last = inbox[t].last /\ inbox'[t].queue = inbox[t].queue
                        /\ DOMAIN inbox'[t] = DOMAIN inbox[t]

ListedKept == DOMAIN drain' = Seats /\ \A t \in Seats : Listed(t)' \subseteq Coming(t)

LEMMA QuietMail ==
    ASSUME MailInv, UNCHANGED <<box, pushed, sent>>, InboxKept, ListedKept
    PROVE  MailInv' /\ \A t \in Seats : Waiting(t)' \subseteq Waiting(t)
  <1>1. PICK new : new = [t \in Seats |-> {}]
    OBVIOUS
  <1>2. MailTyped' /\ \A t \in Seats : Coming(t)' \subseteq Coming(t)
    BY DEF MailInv, MailTyped, InboxKept, ListedKept, Coming, Stored
  <1>3. \A t \in Seats : sent[t].moves \in Nat
    BY DEF MailInv, MailTyped
  <1>4. MailInv' /\ \A t \in Seats : Waiting(t)' \subseteq Waiting(t) \union new[t]
    BY <1>2, <1>3, Mailed DEF InboxKept
  <1> QED BY <1>1, <1>4

LEMMA SentMail ==
    ASSUME MailInv, NEW s \in Seats, NEW b \in Boxes, NEW body, Send(s, b, body), InboxKept, ListedKept,
           b = "moves" => body.num = sent[s].moves + 1
    PROVE  /\ MailInv' /\ Waiting(s)' \subseteq Waiting(s)
           /\ \A t \in Seats : Waiting(t)' \subseteq Waiting(t) \union (IF b = "moves" THEN {body} ELSE {})
  <1>1. PICK new : new = [t \in Seats |-> IF b = "moves" /\ t = 1 - s THEN {body} ELSE {}]
    OBVIOUS
  <1>2. /\ DOMAIN box' = Seats /\ DOMAIN pushed' = Seats /\ DOMAIN sent' = Seats
        /\ \A t \in Seats : /\ DOMAIN pushed'[t] = Boxes /\ \A c \in Boxes : IsSeq(pushed'[t][c])
                            /\ DOMAIN sent'[t] = {"all", "moves"} /\ sent'[t].moves \in Nat
                            /\ sent'[t].moves >= sent[t].moves
        /\ b = "moves" => sent'[s].moves = sent[s].moves + 1
        /\ \A t \in Seats : \A x \in Stored(t)' : x \in Stored(t) \/ (t = 1 - s /\ x.box = b /\ x.body = body)
    BY Sends
  <1>3. MailTyped'
    BY <1>2 DEF MailTyped, InboxKept, ListedKept
  <1>4. ASSUME NEW t \in Seats, NEW x \in Coming(t)'
        PROVE  x \in Coming(t) \/ x.box # "moves" \/ (x.body \in new[t] /\ x.body.num = sent'[1 - t].moves)
    <2>1. CASE x \in Listed(t)'
      BY <2>1 DEF ListedKept
    <2>2. CASE x \in Stored(t)'
      <3>1. x \in Stored(t) \/ (t = 1 - s /\ x.box = b /\ x.body = body)
        BY <1>2, <2>2
      <3>2. 1 - (1 - s) = s
        BY DEF Seats
      <3> QED BY <1>1, <1>2, <3>1, <3>2 DEF Coming
    <2> QED BY <1>4, <2>1, <2>2 DEF Coming
  <1>5. MailInv' /\ \A t \in Seats : Waiting(t)' \subseteq Waiting(t) \union new[t]
    BY <1>2, <1>3, <1>4, Mailed DEF InboxKept
  <1>6. s # 1 - s
    BY DEF Seats
  <1> QED BY <1>1, <1>5, <1>6

LEMMA AwaitsKept ==
    ASSUME MailInv, NEW s \in Seats, NEW in, inbox' = [inbox EXCEPT ![s] = in],
           in.last = inbox[s].last, in.queue = inbox[s].queue, DOMAIN in = DOMAIN inbox[s]
    PROVE  InboxKept
  BY DEF InboxKept, MailInv, MailTyped

LEMMA ListedStays == ASSUME MailInv, drain' = drain PROVE ListedKept
  BY DEF ListedKept, MailInv, MailTyped, Coming, Listed

LEMMA InboxStays == ASSUME MailInv, inbox' = inbox PROVE InboxKept
  BY DEF InboxKept, MailInv, MailTyped

LEMMA AwaitingFields ==
    ASSUME MailInv, NEW s \in Seats, NEW type
    PROVE  /\ Awaiting(s, type).last = inbox[s].last /\ Awaiting(s, type).queue = inbox[s].queue
           /\ DOMAIN Awaiting(s, type) = DOMAIN inbox[s]
  BY DEF Awaiting, MailInv, InboxOK

\* Every step but the two of a move leaves nothing new waiting.
LEMMA RunnerMail ==
    ASSUME MailInv, NEW s \in Seats,
           \/ SayHello(s)
           \/ Greeted(s)
           \/ Listening(s)
           \/ GiveUp(s)
           \/ StartAsDealer(s)
           \/ StartAsGuest(s)
           \/ Invited(s)
           \/ NextPhase(s)
           \/ AfterFold(s)
           \/ Showdown(s)
           \/ Over(s)
    PROVE  MailInv' /\ \A t \in Seats : Waiting(t)' \subseteq Waiting(t)
  <1>1. ASSUME NEW body, Send(s, "control", body), InboxKept, ListedKept
        PROVE  MailInv' /\ \A t \in Seats : Waiting(t)' \subseteq Waiting(t)
    <2>1. PICK b \in Boxes : b = "control"
      BY DEF Boxes
    <2>2. Send(s, b, body) /\ b # "moves"
      BY <1>1, <2>1
    <2> QED BY <1>1, <2>2, SentMail
  <1>2. CASE SayHello(s)
    <2>1. sendControl(s, "handshake") /\ inbox' = [inbox EXCEPT ![s] = Awaiting(s, "handshake")] /\ drain' = drain
      BY <1>2 DEF SayHello
    <2>2. InboxKept /\ ListedKept
      BY <2>1, AwaitingFields, AwaitsKept, ListedStays
    <2> QED BY <1>1, <2>1, <2>2 DEF sendControl
  <1>3. CASE Greeted(s)
    <2>1. sendControl(s, "handshake-ack") /\ startListening(s)
      BY <1>3 DEF Greeted
    <2>2. InboxKept
      <3>1. PICK in : in = [inbox[s] EXCEPT !.onMove = TRUE, !.onControl = "log", !.got = FALSE]
        OBVIOUS
      <3>2. inbox' = [inbox EXCEPT ![s] = in]
        BY <2>1, <3>1 DEF startListening, MailInv, MailTyped
      <3>3. in.last = inbox[s].last /\ in.queue = inbox[s].queue /\ DOMAIN in = DOMAIN inbox[s]
        BY <3>1 DEF MailInv, InboxOK
      <3> QED BY <3>2, <3>3, AwaitsKept
    <2>3. ListedKept
      <3>1. DOMAIN drain = Seats /\ StartDrain(s)
        BY <2>1 DEF startListening, MailInv, MailTyped
      <3>2. /\ DOMAIN drain' = Seats /\ Listed(s)' \subseteq box[s]
            /\ \A t \in Seats : t # s => Listed(t)' = Listed(t)
        BY <3>1, DrainStarts
      <3> QED BY <3>2 DEF ListedKept, Coming, Stored
    <2> QED BY <1>1, <2>1, <2>2, <2>3 DEF sendControl
  <1>4. CASE GiveUp(s) \/ StartAsGuest(s) \/ Invited(s)
    <2>1. UNCHANGED <<box, pushed, drain, sent>>
      BY <1>4 DEF GiveUp, StartAsGuest, Invited
    <2>2. InboxKept
      <3>1. CASE GiveUp(s)
        <4>1. PICK in : in = [inbox[s] EXCEPT !.onControl = "failed"]
          OBVIOUS
        <4>2. inbox' = [inbox EXCEPT ![s] = in]
          BY <3>1, <4>1 DEF GiveUp, MailInv, MailTyped
        <4>3. in.last = inbox[s].last /\ in.queue = inbox[s].queue /\ DOMAIN in = DOMAIN inbox[s]
          BY <4>1 DEF MailInv, InboxOK
        <4> QED BY <4>2, <4>3, AwaitsKept
      <3>2. CASE StartAsGuest(s)
        BY <3>2, AwaitingFields, AwaitsKept DEF StartAsGuest
      <3>3. CASE Invited(s)
        <4>1. PICK in : in = [inbox[s] EXCEPT !.got = FALSE]
          OBVIOUS
        <4>2. inbox' = [inbox EXCEPT ![s] = in]
          BY <3>3, <4>1 DEF Invited, MailInv, MailTyped
        <4>3. in.last = inbox[s].last /\ in.queue = inbox[s].queue /\ DOMAIN in = DOMAIN inbox[s]
          BY <4>1 DEF MailInv, InboxOK
        <4> QED BY <4>2, <4>3, AwaitsKept
      <3> QED BY <1>4, <3>1, <3>2, <3>3
    <2> QED BY <2>1, <2>2, ListedStays, QuietMail
  <1>5. CASE Listening(s) \/ NextPhase(s) \/ AfterFold(s) \/ Showdown(s)
    <2>1. UNCHANGED transportVars
      BY <1>5 DEF Listening, NextPhase, AfterFold, Showdown, Resolve
    <2> QED BY <2>1, InboxStays, ListedStays, QuietMail DEF transportVars
  <1>6. CASE StartAsDealer(s)
    <2>1. /\ UNCHANGED <<drain, inbox>>
          /\ sendControl(s, "new-hand") \/ UNCHANGED <<box, pushed, sent>>
      BY <1>6 DEF StartAsDealer
    <2> QED BY <1>1, <2>1, InboxStays, ListedStays, QuietMail DEF sendControl
  <1>7. CASE Over(s)
    <2>1. sendControl(s, "game-over") /\ UNCHANGED <<drain, inbox>>
      BY <1>7 DEF Over
    <2> QED BY <1>1, <2>1, InboxStays, ListedStays DEF sendControl
  <1> QED BY <1>2, <1>3, <1>4, <1>5, <1>6, <1>7
-------------------------------------------------------------------------------
(* What the wallets' calls do to the ledger. *)

LEMMA LedgerGrows ==
    ASSUME LedgerInv, NEW n, n = Len(tokens), NEW t, tokens' = Append(tokens, t), t.version \in Int, t.spends \in 0..n,
           t.spends # 0 => t.version = tokens[t.spends].version + 1 /\ ~Spent(t.spends)
    PROVE  /\ LedgerInv' /\ n \in Nat /\ tokens'[n + 1] = t
           /\ \A s \in Seats : \A id : Owned(s, id) /\ id # t.spends => Owned(s, id)' /\ tokens'[id] = tokens[id]
           /\ \A s \in Seats : t.lockedTo = KeyOf(s, t) => Owned(s, n + 1)'
  <1>1. /\ IsSeq(tokens') /\ Len(tokens') = n + 1 /\ tokens'[n + 1] = t
        /\ \A i \in 1..n : tokens'[i] = tokens[i]
    BY AppendSeq DEF LedgerInv
  <1>2. n \in Nat /\ DOMAIN tokens = 1..n /\ DOMAIN tokens' = 1..(n + 1)
    BY <1>1 DEF LedgerInv, IsSeq
  <1>3. \A i \in 1..(n + 1) : i \in 1..n \/ i = n + 1
    BY <1>2
  <1>4. \A i \in 1..n : tokens[i].version \in Int /\ tokens[i].spends \in 0..(i - 1)
    BY DEF LedgerInv
  <1>5. ASSUME NEW id, id # t.spends, ~Spent(id)
        PROVE  ~Spent(id)'
    BY <1>1, <1>2, <1>3, <1>5 DEF Spent
  <1>6. ~Spent(n + 1)'
    <2>1. \A i \in 1..(n + 1) : tokens'[i].spends # n + 1
      BY <1>1, <1>2, <1>3, <1>4
    <2> QED BY <1>2, <2>1 DEF Spent
  <1>7. LedgerInv'
    <2>1. ASSUME NEW i \in 1..(n + 1)
          PROVE  /\ tokens'[i].version \in Int /\ tokens'[i].spends \in 0..(i - 1)
                 /\ tokens'[i].spends # 0 => tokens'[i].version = tokens'[tokens'[i].spends].version + 1
      <3>1. CASE i = n + 1
        <4>1. tokens'[i] = t /\ t.spends \in 0..n
          BY <1>1, <3>1
        <4>2. t.spends # 0 => tokens'[t.spends] = tokens[t.spends]
          BY <1>1, <1>2, <4>1
        <4> QED BY <1>2, <3>1, <4>1, <4>2
      <3>2. CASE i \in 1..n
        <4>1. /\ tokens'[i] = tokens[i] /\ tokens[i].spends \in 0..(i - 1) /\ tokens[i].version \in Int
              /\ tokens[i].spends # 0 => tokens[i].version = tokens[tokens[i].spends].version + 1
          BY <1>1, <3>2 DEF LedgerInv
        <4>2. tokens[i].spends # 0 => tokens'[tokens[i].spends] = tokens[tokens[i].spends]
          BY <1>1, <1>2, <3>2, <4>1
        <4> QED BY <4>1, <4>2
      <3> QED BY <1>3, <3>1, <3>2
    <2>2. ASSUME NEW i \in 1..(n + 1), NEW j \in 1..(n + 1), tokens'[i].spends # 0, tokens'[j].spends = tokens'[i].spends
          PROVE  j = i
      <3>1. t.spends # 0 => \A k \in 1..n : tokens[k].spends # t.spends
        BY <1>2 DEF Spent
      <3>2. CASE i \in 1..n /\ j \in 1..n
        BY <1>1, <2>2, <3>2 DEF LedgerInv
      <3>3. CASE i = n + 1 \/ j = n + 1
        BY <1>1, <1>3, <2>2, <3>1, <3>3
      <3> QED BY <1>3, <3>2, <3>3
    <2> QED BY <1>1, <2>1, <2>2 DEF LedgerInv
  <1>8. ASSUME NEW s \in Seats, NEW id, Owned(s, id), id # t.spends
        PROVE  Owned(s, id)' /\ tokens'[id] = tokens[id]
    <2>1. id \in 1..n /\ tokens[id].lockedTo = KeyOf(s, tokens[id]) /\ ~Spent(id)'
      BY <1>5, <1>8 DEF Owned
    <2>2. id \in 1..Len(tokens') /\ tokens'[id] = tokens[id]
      BY <1>1, <1>2, <2>1
    <2> QED BY <2>1, <2>2 DEF Owned
  <1>9. ASSUME NEW s \in Seats, t.lockedTo = KeyOf(s, t)
         PROVE  Owned(s, n + 1)'
    BY <1>1, <1>2, <1>6, <1>9 DEF Owned
  <1> QED BY <1>1, <1>2, <1>7, <1>8, <1>9

LEMMA KeysDiffer == \A s, o, x : Protocol(s) # Identity(o) /\ KeyOf(s, x) \in {Protocol(s), Identity(s)}
  BY DEF Protocol, Identity, KeyOf

LEMMA OneOwner == ASSUME NEW s, NEW o, NEW id, Owned(s, id), Owned(o, id) PROVE s = o
  <1>1. \A x, y : KeyOf(x, y).of = x
    BY DEF KeyOf, Protocol, Identity
  <1>2. KeyOf(s, tokens[id]) = KeyOf(o, tokens[id])
    BY DEF Owned
  <1>3. KeyOf(s, tokens[id]).of = s /\ KeyOf(o, tokens[id]).of = o
    BY <1>1
  <1> QED BY <1>2, <1>3

\* What a seat owns, but for the token it holds, it still owns.
StaysOwned(s) ==
    \A x \in Seats : \A id : Owned(x, id) /\ ~(x = s /\ canISpend(s) /\ id = LiveId(s))
                             => Owned(x, id)' /\ tokens'[id] = tokens[id]

\* The seat holds afterwards what it owns, and no move on its way hands it over.
HoldsOwn(s) ==
    /\ HolderInv(s)'
    /\ canISpend(s)' => \A w \in Waiting(s)' : w.move.token # <<>> => w.move.token[1].id # LiveId(s)'

\* At most one more move is on its way to the seat, and hands over what it did not own before.
HandedNew(o, new) ==
    /\ Waiting(o)' \subseteq Waiting(o) \union new
    /\ \A w, x \in new : w = x
    /\ \A w \in new : w.move.token # <<>> =>
           /\ Owned(o, w.move.token[1].id)' /\ ~Owned(o, w.move.token[1].id)
           /\ tokens'[w.move.token[1].id].version = w.move.token[1].version

LEMMA SeatSteps ==
    ASSUME TokenInv, LedgerInv', MachineTyped', NEW s \in Seats, NEW o \in Seats, o # s, NEW new,
           machine'[o] = machine[o], pc'[o] = pc[o], Waiting(s)' \subseteq Waiting(s),
           StaysOwned(s), HoldsOwn(s), HandedNew(o, new)
    PROVE  TokenInv'
  <1>1. o # s /\ \A t \in Seats : t = s \/ t = o
    BY DEF Seats
  <1>2. /\ canISpend(o)' <=> canISpend(o)
        /\ LiveId(o)' = LiveId(o) /\ machine'[o].cellVersion = machine[o].cellVersion
    BY DEF canISpend, LiveId
  <1>3. HolderInv(o)'
    <2>1. HolderInv(o)
      BY DEF TokenInv
    <2>2. PICK id : id = LiveId(o)
      OBVIOUS
    <2>3. canISpend(o) => Owned(o, id)' /\ tokens'[id] = tokens[id]
      BY <1>1, <2>1, <2>2 DEF HolderInv, StaysOwned
    <2> QED BY <1>2, <2>1, <2>2, <2>3 DEF HolderInv
  <1>4. OfferInv(s) /\ OfferInv(o) /\ HolderInv(o)
    BY DEF TokenInv
  <1>5. OfferInv(s)'
    <2>1. ASSUME NEW w \in Waiting(s)', w.move.token # <<>>
          PROVE  Handed(s, w)'
      <3>1. Handed(s, w)
        BY <1>4, <2>1 DEF OfferInv
      <3>2. PICK id : id = w.move.token[1].id
        OBVIOUS
      <3>3. Owned(s, id)' /\ tokens'[id] = tokens[id]
        BY <3>1, <3>2 DEF Handed, StaysOwned
      <3>4. canISpend(s)' => id # LiveId(s)'
        BY <2>1, <3>2 DEF HoldsOwn
      <3> QED BY <3>1, <3>2, <3>3, <3>4 DEF Handed
    <2> QED BY <1>4, <2>1 DEF OfferInv
  <1>6. OfferInv(o)'
    <2>1. ASSUME NEW w \in Waiting(o), w.move.token # <<>>
          PROVE  Handed(o, w)' /\ Owned(o, w.move.token[1].id)
      <3>1. Handed(o, w)
        BY <1>4, <2>1 DEF OfferInv
      <3>2. PICK id : id = w.move.token[1].id
        OBVIOUS
      <3>3. Owned(o, id) /\ Owned(o, id)' /\ tokens'[id] = tokens[id]
        BY <1>1, <3>1, <3>2 DEF Handed, StaysOwned
      <3> QED BY <1>2, <3>1, <3>2, <3>3 DEF Handed
    <2>2. ASSUME NEW w \in new, w.move.token # <<>>
          PROVE  Handed(o, w)'
      <3>1. canISpend(o) => Owned(o, LiveId(o))
        BY <1>4 DEF HolderInv
      <3> QED BY <1>2, <2>2, <3>1 DEF Handed, HandedNew
    <2>3. ASSUME NEW w \in Waiting(o)', NEW x \in Waiting(o)', w.move.token # <<>>, x.move.token # <<>>, w.num # x.num
          PROVE  w.move.token[1].id # x.move.token[1].id
      <3>1. CASE w \in Waiting(o) /\ x \in Waiting(o)
        BY <1>4, <2>3, <3>1 DEF OfferInv
      <3>2. CASE w \in new /\ x \in new
        BY <2>3, <3>2 DEF HandedNew
      <3>3. CASE w \in new /\ x \in Waiting(o)
        BY <2>1, <2>3, <3>3 DEF HandedNew
      <3>4. CASE w \in Waiting(o) /\ x \in new
        BY <2>1, <2>3, <3>4 DEF HandedNew
      <3> QED BY <2>3, <3>1, <3>2, <3>3, <3>4 DEF HandedNew
    <2> QED BY <2>1, <2>2, <2>3 DEF OfferInv, HandedNew
  <1> QED BY <1>1, <1>3, <1>5, <1>6 DEF TokenInv, HoldsOwn

\* The first of a hand's tokens.
LEMMA Creates ==
    ASSUME TokenInv, NEW s \in Seats, NEW o \in Seats, o # s, NEW hand, NEW answer,
           createHandToken(s, hand, Protocol(s), answer), DOMAIN pc' = Seats, pc'[o] = pc[o],
           \A x \in Seats : Waiting(x)' \subseteq Waiting(x)
    PROVE  TokenInv'
  <1>1. LedgerInv /\ MachineTyped /\ OfferInv(s)
    BY DEF TokenInv
  <1>2. PICK t : t = Token(hand, 1, s, Protocol(s), 0, TRUE)
    OBVIOUS
  <1>3. PICK n : n = Len(tokens)
    OBVIOUS
  <1>4. t.version = 1 /\ t.spends = 0 /\ t.lockedTo = KeyOf(s, t)
    BY <1>2 DEF Token, KeyOf
  <1>5. n \in Nat
    BY <1>1, <1>3 DEF LedgerInv, IsSeq
  <1>6. /\ MachineTyped' /\ machine'[o] = machine[o] /\ machine'[s].cellVersion = 1
        /\ machine'[s].live = IF answer = "ok" THEN Live(n + 1, Protocol(s), 1) ELSE <<>>
    BY <1>1, <1>3 DEF createHandToken, MachineTyped
  <1>7. /\ LedgerInv'
        /\ \A x \in Seats : \A id : Owned(x, id) => Owned(x, id)' /\ tokens'[id] = tokens[id]
        /\ answer = "ok" => Owned(s, n + 1)' /\ tokens'[n + 1].version = 1
    <2>1. CASE answer = "throws"
      <3>1. tokens' = tokens
        BY <2>1 DEF createHandToken
      <3> QED BY <1>1, <2>1, <3>1 DEF LedgerInv, Owned, Spent
    <2>2. CASE answer # "throws"
      <3>1. tokens' = Append(tokens, t)
        BY <1>2, <2>2 DEF createHandToken
      <3>2. /\ LedgerInv' /\ tokens'[n + 1] = t
            /\ \A x \in Seats : \A id : Owned(x, id) /\ id # 0 => Owned(x, id)' /\ tokens'[id] = tokens[id]
            /\ \A x \in Seats : t.lockedTo = KeyOf(x, t) => Owned(x, n + 1)'
        <4>1. /\ t.version \in Int /\ t.spends \in 0..n
              /\ t.spends # 0 => t.version = tokens[t.spends].version + 1 /\ ~Spent(t.spends)
          BY <1>4, <1>5
        <4>2. \A x \in Seats : \A id : Owned(x, id) /\ id # t.spends => Owned(x, id)' /\ tokens'[id] = tokens[id]
          BY <1>1, <1>3, <3>1, <4>1, LedgerGrows DEF Owned
        <4> QED BY <1>1, <1>3, <1>4, <3>1, <4>1, <4>2, LedgerGrows
      <3>3. \A x \in Seats : \A id : Owned(x, id) => id # 0
        BY DEF Owned
      <3> QED BY <1>3, <1>4, <3>2, <3>3
    <2> QED BY <2>1, <2>2
  <1>8. canISpend(s)' => answer = "ok" /\ LiveId(s)' = n + 1
    BY <1>6 DEF canISpend, LiveId, Live
  <1>9. HolderInv(s)'
    BY <1>6, <1>7, <1>8 DEF HolderInv
  <1>10. ASSUME NEW w \in Waiting(s), w.move.token # <<>>
         PROVE  w.move.token[1].id # n + 1
    <2>1. Owned(s, w.move.token[1].id)
      BY <1>1, <1>10 DEF OfferInv, Handed
    <2> QED BY <1>3, <1>5, <2>1 DEF Owned
  <1>11. PICK new : new = {}
    OBVIOUS
  <1>12. \A x \in Seats : \A id : Owned(x, id) /\ ~(x = s /\ canISpend(s) /\ id = LiveId(s))
                                   => Owned(x, id)' /\ tokens'[id] = tokens[id]
    BY <1>7
  <1>13. canISpend(s)' => \A w \in Waiting(s)' : w.move.token # <<>> => w.move.token[1].id # LiveId(s)'
    BY <1>8, <1>10
  <1>14. StaysOwned(s)
    BY <1>12 DEF StaysOwned
  <1>15. HoldsOwn(s)
    BY <1>9, <1>13 DEF HoldsOwn
  <1>16. HandedNew(o, new)
    BY <1>11 DEF HandedNew
  <1> QED BY <1>6, <1>7, <1>14, <1>15, <1>16, SeatSteps

\* At most one more move is on its way to the seat, and hands over what the sender holds now, if anything.
Passes(s, o, new) ==
    /\ Waiting(s)' \subseteq Waiting(s) /\ Waiting(o)' \subseteq Waiting(o) \union new
    /\ \A w, x \in new : w = x
    /\ \A w \in new : w.move.token # <<>> => w.move.token = machine'[s].live

Empty(new) == \A w \in new : w.move.token = <<>>

\* The key that seat s locks a token for the seat to.
LockFor(s, to) == IF to = s THEN Protocol(s) ELSE Identity(to)

\* A token is spent into the next, which may go to the other seat with a move.
LEMMA Spends ==
    ASSUME TokenInv, NEW s \in Seats, NEW o \in Seats, o # s, NEW hand, NEW to \in Seats, NEW answer, NEW ends \in BOOLEAN,
           transition(s, hand, LockFor(s, to), answer, ends), DOMAIN pc' = Seats, pc'[o] = pc[o],
           pc[s] # "failed", answer = "throws" => pc'[s] = "failed",
           NEW new, Passes(s, o, new), Empty(new) \/ (to = o /\ ~ends /\ answer # "throws")
    PROVE  TokenInv'
  <1>1. LedgerInv /\ MachineTyped /\ OfferInv(s) /\ HolderInv(s) /\ HolderInv(o)
    BY DEF TokenInv
  <1>2. PICK v, id, n : v = machine[s].cellVersion + 1 /\ id = LiveId(s) /\ n = Len(tokens)
    OBVIOUS
  <1>3. PICK key, t : key = LockFor(s, to) /\ t = Token(hand, v, s, key, id, Unlocks(s, id))
    OBVIOUS
  <1>4. canISpend(s) /\ Owned(s, id) /\ machine[s].cellVersion = tokens[id].version
    BY <1>1, <1>2 DEF transition, HolderInv
  <1>5. n \in Nat /\ id \in 1..n /\ v \in Int /\ t.version = v /\ t.spends = id /\ t.lockedTo = KeyOf(to, t)
    BY <1>1, <1>2, <1>3, <1>4 DEF Token, LockFor, KeyOf, LedgerInv, IsSeq, Owned, MachineTyped
  <1>6. /\ MachineTyped' /\ machine'[o] = machine[o] /\ machine'[s].cellVersion = v
        /\ machine'[s].live = IF answer = "throws" THEN machine[s].live
                              ELSE IF ends THEN <<>> ELSE Live(n + 1, key, v)
    BY <1>1, <1>2, <1>3, <1>5 DEF transition, MachineTyped
  <1>7. /\ LedgerInv'
        /\ \A x \in Seats : \A i : Owned(x, i) /\ i # id => Owned(x, i)' /\ tokens'[i] = tokens[i]
        /\ answer = "throws" => Owned(s, id)'
        /\ answer # "throws" => Owned(to, n + 1)' /\ tokens'[n + 1].version = v
    <2>1. CASE answer = "throws"
      <3>1. tokens' = tokens
        BY <2>1 DEF transition
      <3> QED BY <1>1, <1>4, <2>1, <3>1 DEF LedgerInv, Owned, Spent
    <2>2. CASE answer # "throws"
      <3>1. tokens' = Append(tokens, t)
        BY <1>2, <1>3, <2>2 DEF transition, LiveId
      <3>2. t.spends \in 0..n /\ t.version = tokens[t.spends].version + 1 /\ ~Spent(t.spends) /\ t.version \in Int
        BY <1>2, <1>4, <1>5 DEF Owned
      <3>3. /\ LedgerInv' /\ tokens'[n + 1] = t
            /\ \A x \in Seats : \A i : Owned(x, i) /\ i # t.spends => Owned(x, i)' /\ tokens'[i] = tokens[i]
            /\ \A x \in Seats : t.lockedTo = KeyOf(x, t) => Owned(x, n + 1)'
        BY <1>1, <1>2, <3>1, <3>2, LedgerGrows DEF Owned
      <3> QED BY <1>2, <1>5, <2>2, <3>3
    <2> QED BY <2>1, <2>2
  <1>8. ASSUME NEW x \in Seats, NEW i, Owned(x, i), ~(x = s /\ canISpend(s) /\ i = LiveId(s))
        PROVE  Owned(x, i)' /\ tokens'[i] = tokens[i]
    <2>1. i # id
      BY <1>2, <1>4, <1>8, OneOwner
    <2> QED BY <1>7, <1>8, <2>1
  <1>9. StaysOwned(s)
    BY <1>8 DEF StaysOwned
  <1>10. CASE answer = "throws"
    <2>1. (canISpend(s)' <=> canISpend(s)) /\ LiveId(s)' = id
      BY <1>2, <1>6, <1>10 DEF canISpend, LiveId
    <2>2. HolderInv(s)'
      BY <1>7, <1>10, <2>1 DEF HolderInv
    <2>3. \A w \in Waiting(s)' : w.move.token # <<>> => w.move.token[1].id # LiveId(s)'
      BY <1>1, <1>2, <1>4, <2>1 DEF OfferInv, Handed, Passes
    <2>4. \A w \in new : w.move.token = <<>>
      BY <1>10 DEF Empty
    <2>5. HoldsOwn(s)
      BY <2>2, <2>3 DEF HoldsOwn
    <2>6. HandedNew(o, new)
      BY <2>4 DEF HandedNew, Passes
    <2> QED BY <1>6, <1>7, <1>9, <2>5, <2>6, SeatSteps DEF Passes
  <1>11. CASE answer # "throws"
    <2>1. canISpend(s)' => ~ends /\ to = s /\ LiveId(s)' = n + 1
      BY <1>3, <1>6, <1>11, KeysDiffer DEF canISpend, LiveId, Live, LockFor
    <2>2. HolderInv(s)'
      BY <1>6, <1>7, <1>11, <2>1 DEF HolderInv
    <2>3. ASSUME NEW w \in Waiting(s), w.move.token # <<>>
          PROVE  w.move.token[1].id # n + 1
      <3>1. Owned(s, w.move.token[1].id)
        BY <1>1, <2>3 DEF OfferInv, Handed
      <3> QED BY <1>2, <1>5, <3>1 DEF Owned
    <2>4. ASSUME NEW w \in new, w.move.token # <<>>
          PROVE  /\ Owned(o, w.move.token[1].id)' /\ ~Owned(o, w.move.token[1].id)
                 /\ tokens'[w.move.token[1].id].version = w.move.token[1].version
      <3>1. to = o /\ w.move.token = Live(n + 1, key, v)
        BY <1>6, <1>11, <2>4 DEF Passes, Empty
      <3>2. w.move.token[1].id = n + 1 /\ w.move.token[1].version = v
        BY <3>1 DEF Live
      <3> QED BY <1>2, <1>5, <1>7, <1>11, <3>1, <3>2 DEF Owned
    <2>5. canISpend(s)' => \A w \in Waiting(s)' : w.move.token # <<>> => w.move.token[1].id # LiveId(s)'
      BY <2>1, <2>3 DEF Passes
    <2>6. HoldsOwn(s)
      BY <2>2, <2>5 DEF HoldsOwn
    <2>7. HandedNew(o, new)
      BY <2>4 DEF HandedNew, Passes
    <2> QED BY <1>6, <1>7, <1>9, <2>6, <2>7, SeatSteps DEF Passes
  <1> QED BY <1>10, <1>11

\* A step without wallet: the tokens stay where they are.
LEMMA KeepsTokens ==
    ASSUME TokenInv, UNCHANGED <<tokens, machine>>, DOMAIN pc' = Seats,
           \A t \in Seats : pc[t] = "failed" => pc'[t] = "failed",
           \A t \in Seats : Waiting(t)' \subseteq Waiting(t)
    PROVE  TokenInv'
  <1>1. LedgerInv' /\ MachineTyped'
    BY DEF TokenInv, LedgerInv, MachineTyped
  <1>2. ASSUME NEW s \in Seats
        PROVE  HolderInv(s)' /\ OfferInv(s)'
    <2>1. HolderInv(s) /\ OfferInv(s)
      BY DEF TokenInv
    <2>2. HolderInv(s)'
      BY <2>1 DEF HolderInv, canISpend, LiveId, Owned, Spent
    <2>3. \A w : Handed(s, w) => Handed(s, w)'
      BY DEF Handed, canISpend, LiveId, Owned, Spent
    <2>4. OfferInv(s)'
      BY <2>1, <2>3 DEF OfferInv
    <2> QED BY <2>2, <2>4
  <1> QED BY <1>1, <1>2 DEF TokenInv

\* A seat's machine forgets its token, or takes over one it owns and nobody hands over any more.
LEMMA Receives ==
    ASSUME TokenInv, NEW s \in Seats, NEW o \in Seats, o # s, tokens' = tokens, MachineTyped',
           machine'[o] = machine[o], pc'[o] = pc[o], \A t \in Seats : Waiting(t)' \subseteq Waiting(t),
           HoldsOwn(s)
    PROVE  TokenInv'
  <1>1. LedgerInv'
    BY DEF TokenInv, LedgerInv
  <1>2. StaysOwned(s)
    BY DEF StaysOwned, Owned, Spent
  <1>3. PICK new : new = {}
    OBVIOUS
  <1>4. HandedNew(o, new) /\ Waiting(s)' \subseteq Waiting(s)
    BY <1>3 DEF HandedNew
  <1> QED BY <1>1, <1>2, <1>4, SeatSteps

LEMMA EndsHand ==
    ASSUME TokenInv, NEW s \in Seats, NEW o \in Seats, o # s, NEW hand, NEW answer, endHand(s, hand, answer),
           DOMAIN pc' = Seats, pc'[o] = pc[o], pc[s] # "failed", answer = "throws" => pc'[s] = "failed",
           \A t \in Seats : Waiting(t)' \subseteq Waiting(t)
    PROVE  TokenInv'
  <1>1. CASE canISpend(s)
    <2>1. PICK ends \in BOOLEAN : ends = TRUE
      OBVIOUS
    <2>2. PICK to \in Seats : to = s /\ transition(s, hand, LockFor(s, to), answer, ends)
      BY <1>1, <2>1 DEF endHand, LockFor
    <2>3. PICK new : new = {}
      OBVIOUS
    <2>4. Passes(s, o, new) /\ Empty(new)
      BY <2>3 DEF Passes, Empty
    <2> QED BY <2>2, <2>4, Spends
  <1>2. CASE ~canISpend(s)
    <2>1. tokens' = tokens /\ machine' = [machine EXCEPT ![s].live = <<>>]
      BY <1>2 DEF endHand
    <2>2. MachineTyped' /\ machine'[o] = machine[o] /\ machine'[s].live = <<>>
      BY <2>1 DEF TokenInv, MachineTyped
    <2>3. HoldsOwn(s)
      BY <2>2 DEF HoldsOwn, HolderInv, canISpend
    <2> QED BY <2>1, <2>2, <2>3, Receives
  <1> QED BY <1>1, <1>2

\* The head of the queue is executed: it waits no more, and no other move has its number.
LEMMA FollowMail ==
    ASSUME MailInv, NEW s \in Seats, Follow(s)
    PROVE  /\ MailInv' /\ \A t \in Seats : Waiting(t)' \subseteq Waiting(t)
           /\ Head(inbox[s].queue) \in Waiting(s)
           /\ \A w \in Waiting(s)' : w.num # Head(inbox[s].queue).num
  <1>1. PICK q : q = inbox[s].queue
    OBVIOUS
  <1>2. /\ q # <<>> /\ inbox' = [inbox EXCEPT ![s].queue = Tail(q)]
        /\ UNCHANGED <<box, pushed, drain, sent>>
    BY <1>1 DEF Follow
  <1>3. MailTyped /\ InboxOK(inbox[s])
    BY DEF MailInv
  <1>4. /\ DOMAIN inbox' = Seats /\ \A t \in Seats : t # s => inbox'[t] = inbox[t]
        /\ inbox'[s].queue = Tail(q) /\ inbox'[s].last = inbox[s].last /\ DOMAIN inbox'[s] = DOMAIN inbox[s]
    BY <1>2, <1>3 DEF MailTyped, InboxOK
  <1>5. /\ IsSeq(q) /\ Len(q) \in Nat /\ inbox[s].last \in Int
        /\ \A i \in 1..Len(q) : q[i].num \in Int /\ q[i].num <= inbox[s].last
        /\ \A i, j \in 1..Len(q) : i # j => q[i].num # q[j].num
    BY <1>1, <1>3 DEF InboxOK, IsSeq
  <1>6. PICK r : r = Tail(q)
    OBVIOUS
  <1>7. /\ IsSeq(r) /\ Range(r) \subseteq Range(q) /\ Head(q) \in Range(q)
        /\ Len(q) >= 1 /\ Len(r) = Len(q) - 1 /\ Head(q) = q[1]
        /\ \A i \in 1..Len(r) : r[i] = q[i + 1]
    BY <1>2, <1>5, <1>6, TailSeq
  <1>8. \A i \in 1..Len(r) : i + 1 \in 1..Len(q) /\ i + 1 # 1 /\ r[i] = q[i + 1]
    BY <1>5, <1>7
  <1>9. ASSUME NEW i \in 1..Len(r), NEW j \in 1..Len(r), i # j
        PROVE  r[i].num # r[j].num
    <2>1. i + 1 \in 1..Len(q) /\ j + 1 \in 1..Len(q) /\ i + 1 # j + 1
      BY <1>8, <1>9
    <2>2. q[i + 1].num # q[j + 1].num
      BY <1>5, <2>1
    <2> QED BY <1>8, <2>2
  <1>10. ASSUME NEW i \in 1..Len(r)
         PROVE  r[i].num \in Int /\ r[i].num <= inbox[s].last /\ r[i].num # q[1].num
    <2>1. i + 1 \in 1..Len(q) /\ 1 \in 1..Len(q) /\ i + 1 # 1 /\ r[i] = q[i + 1]
      BY <1>5, <1>7, <1>8
    <2> QED BY <1>5, <2>1
  <1>11. InboxOK(inbox[s])'
    BY <1>3, <1>4, <1>6, <1>7, <1>9, <1>10 DEF InboxOK
  <1>12. \A t \in Seats : Coming(t)' = Coming(t) /\ InboxOK(inbox[t])' /\ inbox'[t].last = inbox[t].last
    BY <1>2, <1>4, <1>11 DEF Coming, Stored, Listed, InboxOK, MailInv
  <1>13. MailInv'
    <2>1. MailTyped'
      BY <1>2, <1>3, <1>4 DEF MailTyped
    <2>2. \A t \in Seats : inbox[t].last <= sent[1 - t].moves /\ Numbered(t)
      BY DEF MailInv
    <2>3. \A t \in Seats : Numbered(t)'
      BY <1>2, <1>12, <2>2 DEF Numbered
    <2> QED BY <1>2, <1>12, <2>1, <2>2, <2>3 DEF MailInv
  <1>14. ASSUME NEW t \in Seats
         PROVE  Waiting(t)' \subseteq Waiting(t)
    BY <1>1, <1>4, <1>6, <1>7, <1>12 DEF Waiting, Fresh
  <1>15. ASSUME NEW w \in Waiting(s)'
         PROVE  w.num # q[1].num
    <2>1. CASE w \in Range(r)
      <3>1. PICK i \in 1..Len(r) : w = r[i]
        BY <1>7, <2>1 DEF Range, IsSeq
      <3> QED BY <1>10, <3>1
    <2>2. CASE w \notin Range(r)
      <3>1. PICK m \in Coming(s) : m.box = "moves" /\ m.body.num > inbox[s].last /\ w = m.body
        BY <1>4, <1>6, <1>12, <1>15, <2>2 DEF Waiting, Fresh
      <3>2. m.body.num \in Int
        BY <3>1 DEF MailInv, Numbered
      <3>3. q[1].num \in Int /\ q[1].num <= inbox[s].last
        BY <1>5, <1>7
      <3> QED BY <1>5, <3>1, <3>2, <3>3
    <2> QED BY <2>1, <2>2
  <1>16. Head(q) \in Waiting(s)
    BY <1>1, <1>7 DEF Waiting
  <1> QED BY <1>1, <1>7, <1>13, <1>14, <1>15, <1>16
-------------------------------------------------------------------------------
(* The runners' steps. *)

LEMMA ActInv ==
    ASSUME MatchInv, NEW s \in Seats, NEW o \in Seats, o = 1 - s, Act(s)
    PROVE  MatchInv'
  <1>1. MailInv /\ TokenInv /\ DOMAIN pc = Seats /\ o # s
    BY DEF MatchInv, TokenInv, MachineTyped, Seats
  <1>2. PICK d, answer, g :
           /\ IF canISpend(s) THEN transition(s, g.hand, Identity(Opponent(s)), answer, FALSE)
              ELSE answer = "ok" /\ UNCHANGED machineVars
           /\ IF answer = "throws"
              THEN /\ pc' = [pc EXCEPT ![s] = "failed"] /\ UNCHANGED <<box, pushed, sent>>
              ELSE /\ sendMove(s, Move(g, d, IF canISpend(s) /\ answer = "ok" THEN machine'[s].live ELSE <<>>))
                   /\ AfterMove(s, g, d)
    <2>1. PICK d \in Decisions(s), answer \in Answers :
             LET g == executeAction(game[s], s, d)
             IN  /\ IF canISpend(s) THEN transition(s, g.hand, Identity(Opponent(s)), answer, FALSE)
                    ELSE answer = "ok" /\ UNCHANGED machineVars
                 /\ IF answer = "throws"
                    THEN /\ pc' = [pc EXCEPT ![s] = "failed"] /\ game' = [game EXCEPT ![s] = g]
                         /\ UNCHANGED <<box, pushed, sent, missed, played>>
                    ELSE /\ sendMove(s, Move(g, d, IF canISpend(s) /\ answer = "ok" THEN machine'[s].live ELSE <<>>))
                         /\ AfterMove(s, g, d)
      BY DEF Act
    <2>2. PICK g : g = executeAction(game[s], s, d)
      OBVIOUS
    <2> QED BY <2>1, <2>2
  <1>3. pc[s] = "betting" /\ UNCHANGED <<drain, inbox>>
    BY DEF Act
  <1>4. InboxKept /\ ListedKept
    BY <1>1, <1>3, InboxStays, ListedStays
  <1>5. DOMAIN pc' = Seats /\ pc'[o] = pc[o] /\ (answer = "throws" => pc'[s] = "failed")
    BY <1>1, <1>2 DEF AfterMove
  <1>6. PICK token : token = IF canISpend(s) /\ answer = "ok" THEN machine'[s].live ELSE <<>>
    OBVIOUS
  <1>7. PICK body : body = [num |-> sent[s].moves + 1, move |-> Move(g, d, token)]
    OBVIOUS
  <1>8. body.num = sent[s].moves + 1 /\ body.move.token = token
    BY <1>7 DEF Move
  <1>9. PICK new : new = IF answer = "throws" THEN {} ELSE {body}
    OBVIOUS
  <1>10. MailInv' /\ Waiting(s)' \subseteq Waiting(s) /\ Waiting(o)' \subseteq Waiting(o) \union new
    <2>1. CASE answer = "throws"
      <3>1. UNCHANGED <<box, pushed, sent>>
        BY <1>2, <2>1
      <3> QED BY <1>1, <1>4, <3>1, QuietMail
    <2>2. CASE answer # "throws"
      <3>1. PICK b \in Boxes : b = "moves"
        BY DEF Boxes
      <3>2. Send(s, b, body)
        BY <1>2, <1>6, <1>7, <2>2, <3>1 DEF sendMove
      <3>3. /\ MailInv' /\ Waiting(s)' \subseteq Waiting(s)
            /\ \A t \in Seats : Waiting(t)' \subseteq Waiting(t) \union (IF b = "moves" THEN {body} ELSE {})
        BY <1>1, <1>4, <1>8, <3>2, SentMail
      <3> QED BY <1>9, <2>2, <3>1, <3>3
    <2> QED BY <2>1, <2>2
  <1>11. Passes(s, o, new)
    BY <1>6, <1>8, <1>9, <1>10 DEF Passes
  <1>12. TokenInv'
    <2>1. CASE canISpend(s)
      <3>1. PICK to \in Seats, ends \in BOOLEAN : to = o /\ ends = FALSE
        OBVIOUS
      <3>2. PICK hand : hand = g.hand
        OBVIOUS
      <3>3. transition(s, hand, LockFor(s, to), answer, ends)
        BY <1>1, <1>2, <2>1, <3>1, <3>2 DEF Opponent, LockFor
      <3>4. Empty(new) \/ (to = o /\ ~ends /\ answer # "throws")
        BY <1>9, <3>1 DEF Empty
      <3> QED BY <1>1, <1>3, <1>5, <1>11, <3>3, <3>4, Spends
    <2>2. CASE ~canISpend(s)
      <3>1. answer = "ok" /\ machine' = machine /\ tokens' = tokens
        BY <1>2, <2>2 DEF machineVars
      <3>2. LedgerInv' /\ MachineTyped' /\ StaysOwned(s)
        BY <1>1, <1>5, <3>1 DEF TokenInv, LedgerInv, MachineTyped, StaysOwned, Owned, Spent
      <3>3. HoldsOwn(s)
        BY <2>2, <3>1 DEF HoldsOwn, HolderInv, canISpend
      <3>4. HandedNew(o, new)
        BY <1>6, <1>8, <1>9, <1>10, <2>2 DEF HandedNew
      <3> QED BY <1>1, <1>5, <1>10, <3>1, <3>2, <3>3, <3>4, SeatSteps
    <2> QED BY <2>1, <2>2
  <1> QED BY <1>10, <1>12 DEF MatchInv

LEMMA FollowInv ==
    ASSUME MatchInv, NEW s \in Seats, NEW o \in Seats, o = 1 - s, Follow(s)
    PROVE  MatchInv'
  <1>1. MailInv /\ TokenInv /\ MachineTyped /\ OfferInv(s) /\ o # s
    BY DEF MatchInv, TokenInv, Seats
  <1>2. PICK head, m, g : /\ head = Head(inbox[s].queue) /\ m = head.move /\ AfterMove(s, g, m)
                          /\ IF m.token # <<>> THEN acceptIncomingBeef(s, m.token[1].id, m.token[1].version)
                             ELSE UNCHANGED machine
    BY DEF Follow
  <1>3. tokens' = tokens /\ pc[s] = "betting"
    BY DEF Follow
  <1>4. DOMAIN pc' = Seats /\ pc'[o] = pc[o]
    BY <1>1, <1>2 DEF AfterMove, MachineTyped
  <1>5. /\ MailInv' /\ \A t \in Seats : Waiting(t)' \subseteq Waiting(t)
        /\ head \in Waiting(s) /\ \A w \in Waiting(s)' : w.num # head.num
    BY <1>1, <1>2, FollowMail
  <1>6. CASE m.token = <<>>
    <2>1. UNCHANGED <<tokens, machine>>
      BY <1>2, <1>3, <1>6
    <2>2. \A t \in Seats : pc[t] = "failed" => pc'[t] = "failed"
      BY <1>1, <1>3, <1>4 DEF Seats
    <2> QED BY <1>1, <1>4, <1>5, <2>1, <2>2, KeepsTokens DEF MatchInv
  <1>7. CASE m.token # <<>>
    <2>1. PICK id, v : id = m.token[1].id /\ v = m.token[1].version
      OBVIOUS
    <2>2. /\ Owned(s, id) /\ tokens[id].version = v
          /\ \A w \in Waiting(s)' : w.move.token # <<>> => w.move.token[1].id # id
      BY <1>1, <1>2, <1>5, <1>7, <2>1 DEF OfferInv, Handed
    <2>3. v \in Int
      BY <1>1, <2>2 DEF TokenInv, LedgerInv, Owned
    <2>4. machine' = [machine EXCEPT ![s] = [live |-> Live(id, Protocol(s), v), cellVersion |-> v]]
      BY <1>2, <1>7, <2>1 DEF acceptIncomingBeef
    <2>5. /\ MachineTyped' /\ machine'[o] = machine[o] /\ machine'[s].cellVersion = v
          /\ machine'[s].live = Live(id, Protocol(s), v)
      BY <1>1, <1>4, <2>3, <2>4 DEF MachineTyped
    <2>6. LiveId(s)' = id
      BY <2>5 DEF LiveId, Live
    <2>7. Owned(s, id)' /\ tokens'[id] = tokens[id]
      BY <1>3, <2>2 DEF Owned, Spent
    <2>8. HolderInv(s)'
      BY <2>2, <2>5, <2>6, <2>7 DEF HolderInv
    <2>9. HoldsOwn(s)
      BY <2>2, <2>6, <2>8 DEF HoldsOwn
    <2> QED BY <1>1, <1>3, <1>4, <1>5, <2>5, <2>9, Receives DEF MatchInv
  <1> QED BY <1>6, <1>7

\* A step of a runner without a move.
LEMMA QuietInv ==
    ASSUME MatchInv, NEW s \in Seats, NEW o \in Seats, o = 1 - s,
           \/ SayHello(s)
           \/ Greeted(s)
           \/ Listening(s)
           \/ GiveUp(s)
           \/ StartAsDealer(s)
           \/ StartAsGuest(s)
           \/ Invited(s)
           \/ NextPhase(s)
           \/ AfterFold(s)
           \/ Showdown(s)
           \/ Over(s)
    PROVE  MatchInv'
  <1>1. MailInv /\ TokenInv /\ DOMAIN pc = Seats /\ o # s /\ \A t \in Seats : t = s \/ t = o
    BY DEF MatchInv, TokenInv, MachineTyped, Seats
  <1>2. MailInv' /\ \A t \in Seats : Waiting(t)' \subseteq Waiting(t)
    BY <1>1, RunnerMail
  <1>3. CASE SayHello(s) \/ Greeted(s) \/ Listening(s) \/ GiveUp(s) \/ StartAsGuest(s) \/ Invited(s) \/ Over(s)
    <2>1. /\ UNCHANGED <<tokens, machine>>
          /\ DOMAIN pc' = Seats /\ pc'[o] = pc[o] /\ (pc[s] # "failed" \/ pc'[s] = "failed")
      BY <1>1, <1>3 DEF SayHello, Greeted, Listening, GiveUp, StartAsGuest, Invited, Over, At, machineVars
    <2>2. \A t \in Seats : pc[t] = "failed" => pc'[t] = "failed"
      BY <1>1, <2>1
    <2> QED BY <1>1, <1>2, <2>1, <2>2, KeepsTokens DEF MatchInv
  <1>4. CASE StartAsDealer(s)
    <2>1. PICK hand, answer : createHandToken(s, hand, Protocol(s), answer)
      BY <1>4 DEF StartAsDealer
    <2>2. DOMAIN pc' = Seats /\ pc'[o] = pc[o]
      BY <1>1, <1>4 DEF StartAsDealer, At
    <2> QED BY <1>1, <1>2, <2>1, <2>2, Creates DEF MatchInv
  <1>5. CASE NextPhase(s)
    <2>1. PICK hand, to, answer :
             /\ IF to = s /\ canISpend(s) THEN transition(s, hand, Protocol(s), answer, FALSE)
                ELSE answer = "ok" /\ UNCHANGED machineVars
             /\ pc' = [pc EXCEPT ![s] = IF answer = "throws" THEN "failed" ELSE "betting"]
      BY <1>5 DEF NextPhase
    <2>2. DOMAIN pc' = Seats /\ pc'[o] = pc[o] /\ pc[s] # "failed" /\ (answer = "throws" => pc'[s] = "failed")
      BY <1>1, <1>5, <2>1 DEF NextPhase
    <2>3. CASE to = s /\ canISpend(s)
      <3>1. PICK own \in Seats, ends \in BOOLEAN : own = s /\ ends = FALSE
        OBVIOUS
      <3>2. PICK new : new = {}
        OBVIOUS
      <3>3. transition(s, hand, LockFor(s, own), answer, ends)
        BY <2>1, <2>3, <3>1 DEF LockFor
      <3>4. Passes(s, o, new) /\ Empty(new)
        BY <1>2, <3>2 DEF Passes, Empty
      <3> QED BY <1>1, <1>2, <2>2, <3>3, <3>4, Spends DEF MatchInv
    <2>4. CASE ~(to = s /\ canISpend(s))
      <3>1. UNCHANGED <<tokens, machine>>
        BY <2>1, <2>4 DEF machineVars
      <3>2. \A t \in Seats : pc[t] = "failed" => pc'[t] = "failed"
        BY <1>1, <2>2
      <3> QED BY <1>1, <1>2, <2>2, <3>1, <3>2, KeepsTokens DEF MatchInv
    <2> QED BY <2>3, <2>4
  <1>6. CASE AfterFold(s) \/ Showdown(s)
    <2>1. PICK hand, answer : /\ endHand(s, hand, answer)
                              /\ pc' = [pc EXCEPT ![s] = IF answer = "throws" THEN "failed" ELSE "loop"]
      BY <1>6 DEF AfterFold, Showdown, Resolve
    <2>2. DOMAIN pc' = Seats /\ pc'[o] = pc[o] /\ pc[s] # "failed" /\ (answer = "throws" => pc'[s] = "failed")
      BY <1>1, <1>6, <2>1 DEF AfterFold, Showdown
    <2> QED BY <1>1, <1>2, <2>1, <2>2, EndsHand DEF MatchInv
  <1> QED BY <1>3, <1>4, <1>5, <1>6

LEMMA TransportInv ==
    ASSUME MatchInv, NEW s \in Seats, Transport(s)
    PROVE  MatchInv'
  <1>1. UNCHANGED <<tokens, machine, pc>> /\ ((\E b \in Boxes : Push(s, b)) \/ DrainStep(s) \/ Poll(s))
    BY DEF Transport, machineVars, matchVars
  <1>2. MailInv' /\ \A t \in Seats : Waiting(t)' \subseteq Waiting(t)
    BY <1>1, TransportMail DEF MatchInv
  <1>3. TokenInv'
    BY <1>1, <1>2, KeepsTokens DEF MatchInv, TokenInv, MachineTyped
  <1> QED BY <1>2, <1>3 DEF MatchInv

LEMMA MatchNextInv == MatchInv /\ [Next]_vars => MatchInv'
  <1>1. ASSUME MatchInv, UNCHANGED vars
        PROVE  MatchInv'
    <2>1. UNCHANGED <<box, pushed, sent, inbox, drain, tokens, machine, pc>>
      BY <1>1 DEF vars, transportVars, machineVars, matchVars
    <2>2. MailInv' /\ \A t \in Seats : Waiting(t)' \subseteq Waiting(t)
      BY <1>1, <2>1, InboxStays, ListedStays, QuietMail DEF MatchInv
    <2>3. TokenInv'
      BY <1>1, <2>1, <2>2, KeepsTokens DEF MatchInv, TokenInv, MachineTyped
    <2> QED BY <2>2, <2>3 DEF MatchInv
  <1>2. ASSUME MatchInv, NEW s \in Seats, Runner(s) \/ Transport(s)
        PROVE  MatchInv'
    <2>1. PICK o \in Seats : o = 1 - s
      BY DEF Seats
    <2> QED BY <1>2, <2>1, ActInv, FollowInv, QuietInv, TransportInv DEF Runner
  <1> QED BY <1>1, <1>2 DEF Next

LEMMA MatchInitInv == Init => MatchInv
  <1> SUFFICES ASSUME Init PROVE MatchInv
    OBVIOUS
  <1>1. /\ tokens = <<>> /\ machine = [s \in Seats |-> [live |-> <<>>, cellVersion |-> 0]]
        /\ pc = [s \in Seats |-> "boot"]
    BY DEF Init, MachineInit
  <1>2. /\ box = [s \in Seats |-> {}] /\ pushed = [s \in Seats |-> [b \in Boxes |-> <<>>]]
        /\ drain = [s \in Seats |-> <<>>] /\ sent = [s \in Seats |-> [all |-> 0, moves |-> 0]]
        /\ inbox = [s \in Seats |-> [last |-> -1, queue |-> <<>>, onMove |-> FALSE, onControl |-> "none",
                                     awaits |-> "", got |-> FALSE, dropped |-> FALSE]]
    BY DEF Init, TransportInit, Ends, Seats
  <1>3. \A s \in Seats : Coming(s) = {} /\ Waiting(s) = {}
    <2>1. \A s \in Seats : Coming(s) = {}
      BY <1>2, NothingSeq DEF Coming, Stored, Listed, Boxes
    <2> QED BY <1>2, <2>1, NothingSeq DEF Waiting
  <1>4. MailTyped
    BY <1>2, NothingSeq DEF MailTyped
  <1>5. ASSUME NEW s \in Seats
        PROVE  InboxOK(inbox[s]) /\ inbox[s].last <= sent[1 - s].moves /\ Numbered(s)
    <2>1. InboxOK(inbox[s])
      <3>1. PICK in : in = inbox[s]
        OBVIOUS
      <3>2. /\ DOMAIN in = {"last", "queue", "onMove", "onControl", "awaits", "got", "dropped"}
            /\ in.last = -1 /\ in.queue = <<>>
        BY <1>2, <3>1
      <3>3. IsSeq(in.queue) /\ Len(in.queue) = 0
        BY <3>2, NothingSeq
      <3>4. -1 \in Int /\ 1..0 = {}
        OBVIOUS
      <3> QED BY <3>1, <3>2, <3>3, <3>4 DEF InboxOK
    <2>2. 1 - s \in Seats
      BY DEF Seats
    <2>3. inbox[s].last = -1 /\ sent[1 - s].moves = 0
      BY <1>2, <2>2
    <2> QED BY <1>3, <2>1, <2>3 DEF Numbered
  <1>6. LedgerInv
    BY <1>1, NothingSeq DEF LedgerInv
  <1>7. MachineTyped /\ \A s \in Seats : HolderInv(s) /\ OfferInv(s)
    BY <1>1, <1>3 DEF MachineTyped, HolderInv, OfferInv, canISpend
  <1> QED BY <1>4, <1>5, <1>6, <1>7 DEF MatchInv, MailInv, TokenInv

\* No token is signed for twice and each carries the next version, and one that a seat believes it can sign
\* for is unspent and locked to a key of that seat: to the one it signs with if it locked the token itself,
\* to its identity key if it was handed over.  That holds whatever is played and however showdowns end, for
\* any number of faults and losses (createHandToken, transition, acceptIncomingBeef, endHand, handleIncoming).
THEOREM TokensAlwaysLinear == Spec => []TokensLinear
  <1>1. MatchInv => TokensLinear
    <2> SUFFICES ASSUME MatchInv PROVE TokensLinear
      OBVIOUS
    <2>1. LedgerInv /\ DOMAIN tokens = 1..Len(tokens) /\ \A s \in Seats : HolderInv(s)
      BY DEF MatchInv, TokenInv, LedgerInv, IsSeq
    <2>2. \A s \in Seats : canISpend(s) => tokens[LiveId(s)].lockedTo = KeyOf(s, tokens[LiveId(s)]) /\ ~Spent(LiveId(s))
      BY <2>1 DEF HolderInv, Owned
    <2>3. \A i \in DOMAIN tokens : tokens[i].spends # 0 =>
              /\ tokens[i].version = tokens[tokens[i].spends].version + 1
              /\ \A j \in DOMAIN tokens : tokens[j].spends = tokens[i].spends => j = i
      BY <2>1 DEF LedgerInv
    <2> QED BY <2>2, <2>3 DEF TokensLinear, LiveId
  <1> QED BY <1>1, MatchInitInv, MatchNextInv, PTL DEF Spec
===============================================================================
