--------------------------- MODULE Others_proofs ---------------------------
(***************************************************************************)
(* What the node takes from other nodes and shows of them, proved of the   *)
(* components of MCOthers one by one, for every value of their constants:  *)
(* messages and their answers, names and neighbours, the announces, the    *)
(* inbox, the screens and the panel.                                       *)
(***************************************************************************)
EXTENDS MCOthers, SequenceTheorems, TLAPS

-----------------------------------------------------------------------------
(* The invariant behind MessagesTrue.                                      *)

Row(S)  == [who : S, age : Nat]
Answer  == [to : Senders \cup {NoOne}, kind : {"text", "readings", "none", "admin"}, signal : Readings \cup {NaN},
            asker : Senders \cup {NoOne}, took : Readings \cup {NaN}]
Framed  == ring \in Seq([frame : Frames, rssi : Readings]) /\ drained \in 0 .. kBatch + 1
Queued  == queue \in Seq(Answer) /\ AnswersEarned
Placed  == positions \in Seq([who : Senders, by : Senders]) /\ PositionsProved
Counted ==
  /\ tokens \in 0 .. kCommandBurst /\ due \in 0 .. kCommandBurst /\ filled \in 0 .. kCommandRefill - 1
  /\ seenBy \in Seq(Row(Senders)) /\ past \in Seq(Row(Senders))
  /\ Len(past) <= kCommandBurst + 2
  /\ \A i \in DOMAIN seenBy : seenBy[i].age <= kCommandCooldown
  /\ \A i \in DOMAIN past : past[i].age <= kCommandCooldown + kCommandRefill

\* The answers from the i-th on, and those the budget still allows.
Used(i) == Len(past) - i + 1 + Refilled
\* Since the last refill fell due the burst is all there was, over any refill's
\* length one more.
Spent == \A i \in DOMAIN past :
  /\ past[i].age <= filled => Used(i) <= kCommandBurst
  /\ past[i].age < kCommandRefill => Used(i) <= kCommandBurst + 1

\* Whoever was answered is remembered as late as that, or as many answers were
\* given since as the table has places.
Remembered(i, k) == /\ seenBy[k].who = past[i].who /\ seenBy[k].age <= past[i].age
                    /\ Len(seenBy) - k <= Len(past) - i
Recalled == \A i \in DOMAIN past :
  Len(past) - i >= kSeen \/ \E k \in DOMAIN seenBy : Remembered(i, k)

Apart(i, j) == past[i].age - past[j].age >= kCommandCooldown \/ past[i].age = kCommandCooldown + kCommandRefill
Spaced == \A i, j \in DOMAIN past : i < j /\ past[i].who = past[j].who => Apart(i, j)
BInv == Counted /\ Spent /\ Recalled /\ Spaced
MInv == Framed /\ Queued /\ Placed /\ BInv

-----------------------------------------------------------------------------
(* Lemmas about the tables.                                                *)

LEMMA WithoutRows ==
  ASSUME NEW S, NEW rows \in Seq(S), NEW i \in DOMAIN rows
  PROVE  /\ Without(rows, i) \in Seq(S) /\ Len(Without(rows, i)) = Len(rows) - 1
         /\ \A j \in 1 .. Len(rows) - 1 : Without(rows, i)[j] = rows[IF j < i THEN j ELSE j + 1]
<1>1. Len(rows) \in Nat \ {0} /\ i \in 1 .. Len(rows)
  OBVIOUS
<1>2. \A j \in 1 .. Len(rows) - 1 : rows[IF j < i THEN j ELSE j + 1] \in S
  BY <1>1
<1> QED
  BY <1>1, <1>2 DEF Without

\* A row of another name is still there, no further from the newest than
\* before and one, unless the table was full and it was the oldest.
LEMMA KeptRows ==
  ASSUME NEW S, NEW rows \in Seq(S), NEW x \in S, NEW size \in Nat \ {0}
  PROVE  LET new == Kept(rows, x, size)
         IN  /\ new \in Seq(S) /\ Len(new) \in Nat \ {0} /\ new[Len(new)] = x
             /\ \A j \in DOMAIN new : new[j] = x \/ \E i \in DOMAIN rows : new[j] = rows[i]
             /\ \A i \in DOMAIN rows : rows[i].who # x.who =>
                  \/ Len(rows) - i >= size - 1
                  \/ \E k \in DOMAIN new : new[k] = rows[i] /\ Len(new) - k <= Len(rows) - i + 1
<1> DEFINE i == Slot(rows, x.who, size)
           others == IF i = 0 THEN rows ELSE Without(rows, i)
           new == Append(others, x)
<1>1. /\ i = 0 \/ i \in DOMAIN rows
      /\ i # 0 => rows[i].who = x.who \/ (i = 1 /\ Len(rows) >= size)
  <2>1. CASE \E j \in DOMAIN rows : rows[j].who = x.who
    BY <2>1 DEF Slot
  <2>2. CASE ~ \E j \in DOMAIN rows : rows[j].who = x.who
    BY <2>2 DEF Slot
  <2> QED
    BY <2>1, <2>2
<1> HIDE DEF i
<1>2. others \in Seq(S) /\ Len(rows) \in Nat /\ Len(others) \in Nat
  BY <1>1, WithoutRows
<1>3. /\ new \in Seq(S) /\ Len(new) = Len(others) + 1 /\ new[Len(new)] = x
      /\ \A j \in 1 .. Len(others) : new[j] = others[j]
  BY <1>2
<1>4. \A j \in DOMAIN others : \E k \in DOMAIN rows : others[j] = rows[k]
  <2>1. CASE i = 0
    BY <2>1
  <2>2. CASE i # 0
    <3>1. i \in DOMAIN rows /\ DOMAIN rows = 1 .. Len(rows)
      BY <2>2, <1>1
    <3>2. /\ Len(Without(rows, i)) = Len(rows) - 1 /\ Without(rows, i) \in Seq(S)
          /\ \A j \in 1 .. Len(rows) - 1 : Without(rows, i)[j] = rows[IF j < i THEN j ELSE j + 1]
      BY <3>1, WithoutRows
    <3>3. TAKE j \in DOMAIN others
    <3>4. j \in 1 .. Len(rows) - 1 /\ others[j] = rows[IF j < i THEN j ELSE j + 1]
      BY <2>2, <3>2, <3>3
    <3>5. (IF j < i THEN j ELSE j + 1) \in DOMAIN rows
      BY <3>1, <3>4, <1>2
    <3> QED
      BY <3>4, <3>5
  <2> QED
    BY <2>1, <2>2
<1>5. \A j \in DOMAIN new : new[j] = x \/ \E k \in DOMAIN rows : new[j] = rows[k]
  BY <1>2, <1>3, <1>4
<1>6. ASSUME NEW j \in DOMAIN rows, rows[j].who # x.who, ~ (Len(rows) - j >= size - 1)
      PROVE  \E k \in DOMAIN new : new[k] = rows[j] /\ Len(new) - k <= Len(rows) - j + 1
  <2>0. j \in 1 .. Len(rows)
    OBVIOUS
  <2>1. CASE i = 0
    BY <2>0, <2>1, <1>2, <1>3
  <2>2. CASE i # 0
    <3>1. i # j /\ i \in DOMAIN rows /\ i \in 1 .. Len(rows)
      BY <2>2, <1>1, <1>6
    <3>2. /\ Len(others) = Len(rows) - 1
          /\ \A k \in 1 .. Len(rows) - 1 : others[k] = rows[IF k < i THEN k ELSE k + 1]
      BY <2>2, <3>1, WithoutRows
    <3> HIDE DEF others
    <3> DEFINE k == IF j < i THEN j ELSE j - 1
    <3>3. k \in 1 .. Len(rows) - 1 /\ others[k] = rows[j]
      BY <2>0, <3>1, <3>2, <1>2
    <3>4. k \in DOMAIN new /\ new[k] = rows[j] /\ Len(new) - k <= Len(rows) - j + 1
      BY <2>0, <3>1, <3>2, <3>3, <1>2, <1>3
    <3> QED
      BY <3>4
  <2> QED
    BY <2>1, <2>2
<1>7. Kept(rows, x, size) = new
  BY DEF Kept, i
<1> QED
  BY <1>2, <1>3, <1>5, <1>6, <1>7

-----------------------------------------------------------------------------
(* The budget: time goes by, an answer is given.                           *)

\* Refilled is a number of answers.
LEMMA RefilledTyped == ASSUME Counted PROVE Refilled \in 0 .. kCommandBurst
  BY BudgetAssumption DEF Counted, Refilled

LEMMA BudgetRests == ASSUME BInv, UNCHANGED budget PROVE BInv'
  BY DEF BInv, Counted, Spent, Recalled, Spaced, budget, Used, Refilled, Remembered, Apart

LEMMA AgedRows ==
  ASSUME NEW rows \in Seq(Row(Senders)), NEW cap \in Nat, \A i \in DOMAIN rows : rows[i].age <= cap
  PROVE  /\ Aged(rows, cap) \in Seq(Row(Senders)) /\ Len(Aged(rows, cap)) = Len(rows)
         /\ DOMAIN Aged(rows, cap) = DOMAIN rows
         /\ \A i \in DOMAIN rows :
              /\ Aged(rows, cap)[i].who = rows[i].who /\ rows[i].age \in Nat
              /\ Aged(rows, cap)[i].age = IF rows[i].age < cap THEN rows[i].age + 1 ELSE cap
<1>1. ASSUME NEW r \in Row(Senders), r.age <= cap
      PROVE  LET x == [r EXCEPT !.age = IF @ < cap THEN @ + 1 ELSE @]
             IN  /\ x \in Row(Senders) /\ x.who = r.who /\ r.age \in Nat
                 /\ x.age = IF r.age < cap THEN r.age + 1 ELSE cap
  BY <1>1 DEF Row
<1>2. DOMAIN rows = 1 .. Len(rows) /\ Len(rows) \in Nat /\ \A i \in DOMAIN rows : rows[i] \in Row(Senders)
  OBVIOUS
<1> HIDE DEF Row
<1>3. \A i \in DOMAIN rows : LET x == Aged(rows, cap)[i]
                             IN  /\ x \in Row(Senders) /\ x.who = rows[i].who /\ rows[i].age \in Nat
                                 /\ x.age = IF rows[i].age < cap THEN rows[i].age + 1 ELSE cap
  BY <1>1, <1>2 DEF Aged
<1> DEFINE Older(i) == [rows[i] EXCEPT !.age = IF @ < cap THEN @ + 1 ELSE @]
<1>4. Aged(rows, cap) = [i \in 1 .. Len(rows) |-> Older(i)] /\ \A i \in 1 .. Len(rows) : Older(i) \in Row(Senders)
  BY <1>1, <1>2 DEF Aged
<1> HIDE DEF Older
<1>5. Aged(rows, cap) \in Seq(Row(Senders)) /\ Len(Aged(rows, cap)) = Len(rows) /\ DOMAIN Aged(rows, cap) = DOMAIN rows
  BY <1>2, <1>4
<1> QED
  BY <1>3, <1>5

LEMMA TickKeeps == ASSUME BInv, Tick PROVE BInv'
<1> USE BudgetAssumption
<1>0. /\ Counted /\ Spent /\ Recalled /\ Spaced /\ kCommandCooldown \in Nat /\ kCommandCooldown + kCommandRefill \in Nat
      /\ seenBy' = Aged(seenBy, kCommandCooldown) /\ past' = Aged(past, kCommandCooldown + kCommandRefill)
      /\ tokens' = tokens
  BY DEF BInv, Tick
<1>1. /\ seenBy' \in Seq(Row(Senders)) /\ Len(seenBy') = Len(seenBy) /\ DOMAIN seenBy' = DOMAIN seenBy
      /\ \A k \in DOMAIN seenBy : /\ seenBy'[k].who = seenBy[k].who /\ seenBy[k].age \in Nat
                                  /\ seenBy'[k].age = IF seenBy[k].age < kCommandCooldown THEN seenBy[k].age + 1 ELSE kCommandCooldown
  <2>1. seenBy \in Seq(Row(Senders)) /\ \A i \in DOMAIN seenBy : seenBy[i].age <= kCommandCooldown
    BY <1>0 DEF Counted
  <2>2. /\ Aged(seenBy, kCommandCooldown) \in Seq(Row(Senders))
        /\ Len(Aged(seenBy, kCommandCooldown)) = Len(seenBy)
        /\ DOMAIN Aged(seenBy, kCommandCooldown) = DOMAIN seenBy
        /\ \A k \in DOMAIN seenBy :
             /\ Aged(seenBy, kCommandCooldown)[k].who = seenBy[k].who /\ seenBy[k].age \in Nat
             /\ Aged(seenBy, kCommandCooldown)[k].age
                  = IF seenBy[k].age < kCommandCooldown THEN seenBy[k].age + 1 ELSE kCommandCooldown
    BY <1>0, <2>1, AgedRows
  <2> QED
    BY <1>0, <2>2
<1>2. /\ past' \in Seq(Row(Senders)) /\ Len(past') = Len(past) /\ DOMAIN past' = DOMAIN past /\ Len(past) \in Nat
      /\ DOMAIN past = 1 .. Len(past)
      /\ \A i \in DOMAIN past : /\ past'[i].who = past[i].who /\ past[i].age \in Nat
                                /\ past'[i].age = IF past[i].age < kCommandCooldown + kCommandRefill THEN past[i].age + 1
                                                  ELSE kCommandCooldown + kCommandRefill
  <2> DEFINE cap == kCommandCooldown + kCommandRefill
  <2>1. past \in Seq(Row(Senders)) /\ cap \in Nat /\ past' = Aged(past, cap) /\ \A i \in DOMAIN past : past[i].age <= cap
    BY <1>0 DEF Counted
  <2>2. DOMAIN past = 1 .. Len(past) /\ Len(past) \in Nat
    BY <2>1
  <2> HIDE DEF cap
  <2>3. /\ Aged(past, cap) \in Seq(Row(Senders)) /\ Len(Aged(past, cap)) = Len(past)
        /\ DOMAIN Aged(past, cap) = DOMAIN past
        /\ \A i \in DOMAIN past :
             /\ Aged(past, cap)[i].who = past[i].who /\ past[i].age \in Nat
             /\ Aged(past, cap)[i].age = IF past[i].age < cap THEN past[i].age + 1 ELSE cap
    BY <2>1, AgedRows
  <2> QED
    BY <2>1, <2>2, <2>3 DEF cap
<1>3. Counted'
  <2>1. due' \in 0 .. kCommandBurst /\ filled' \in 0 .. kCommandRefill - 1 /\ tokens' \in 0 .. kCommandBurst
    <3>1. /\ due \in 0 .. kCommandBurst /\ filled \in 0 .. kCommandRefill - 1 /\ tokens' \in 0 .. kCommandBurst
          /\ kCommandBurst \in Nat /\ kCommandRefill \in Nat \ {0}
      BY <1>0 DEF Counted
    <3>2. \/ filled + 1 < kCommandRefill /\ filled' = filled + 1 /\ due' = due
          \/ filled' = 0 /\ due' = IF due < kCommandBurst THEN due + 1 ELSE due
      BY DEF Tick
    <3>3. CASE filled + 1 < kCommandRefill /\ filled' = filled + 1 /\ due' = due
      BY <3>1, <3>3
    <3>4. CASE filled' = 0 /\ due' = IF due < kCommandBurst THEN due + 1 ELSE due
      BY <3>1, <3>4
    <3> QED
      BY <3>2, <3>3, <3>4
  <2>2. \A i \in DOMAIN seenBy' : seenBy'[i].age <= kCommandCooldown
    BY <1>0, <1>1
  <2>3. \A i \in DOMAIN past' : past'[i].age <= kCommandCooldown + kCommandRefill
    BY <1>0, <1>2
  <2> QED
    BY <1>0, <1>1, <1>2, <2>1, <2>2, <2>3 DEF Counted
<1>4. Spent'
  <2>0. /\ kCommandBurst \in Nat /\ kCommandRefill \in Nat /\ kCommandRefill > 0
        /\ tokens \in 0 .. kCommandBurst /\ due \in 0 .. kCommandBurst /\ filled \in 0 .. kCommandRefill - 1
        /\ tokens' = tokens
        /\ IF filled + 1 < kCommandRefill THEN filled' = filled + 1 /\ due' = due
           ELSE filled' = 0 /\ due' = IF due < kCommandBurst THEN due + 1 ELSE due
    BY <1>0 DEF Counted, Tick
  <2> HIDE BudgetAssumption
  <2>1. \/ filled' = filled + 1 /\ Refilled' = Refilled
        \/ filled' = 0 /\ filled = kCommandRefill - 1 /\ Refilled' <= Refilled + 1 /\ Refilled' <= kCommandBurst
    BY <2>0 DEF Refilled
  <2>2. Refilled \in 0 .. kCommandBurst /\ Refilled' \in Nat /\ filled \in 0 .. kCommandRefill - 1
    BY <2>0 DEF Refilled
  <2>3. ASSUME NEW i \in DOMAIN past
        PROVE  /\ past'[i].age <= filled' => Len(past') - i + 1 + Refilled' <= kCommandBurst
               /\ past'[i].age < kCommandRefill => Len(past') - i + 1 + Refilled' <= kCommandBurst + 1
    <3> DEFINE a == past[i].age
               b == past'[i].age
               size == Len(past) - i + 1
               e == Refilled
               f == Refilled'
    <3>1. /\ a <= filled => size + e <= kCommandBurst
          /\ a < kCommandRefill => size + e <= kCommandBurst + 1
      BY <1>0 DEF Spent, Used
    <3>2. /\ size \in Int /\ a \in Nat /\ e \in Nat /\ f \in Nat /\ Len(past') - i + 1 = size
          /\ b = IF a < kCommandCooldown + kCommandRefill THEN a + 1 ELSE kCommandCooldown + kCommandRefill
      BY <1>2, <2>2
    <3>3. \/ filled' = filled + 1 /\ f = e
          \/ filled' = 0 /\ filled = kCommandRefill - 1 /\ f <= e + 1
      BY <2>1
    <3> HIDE DEF a, b, size, e, f
    <3>4. /\ b <= filled' => size + f <= kCommandBurst
          /\ b < kCommandRefill => size + f <= kCommandBurst + 1
      BY <2>0, <2>2, <3>1, <3>2, <3>3, <1>0
    <3> QED
      BY <3>2, <3>4 DEF a, b, size, e, f
  <2> QED
    BY <1>2, <2>3 DEF Spent, Used
<1>5. Recalled'
  <2>1. ASSUME NEW i \in DOMAIN past, NEW k \in DOMAIN seenBy, Remembered(i, k)
        PROVE  Remembered(i, k)'
    <3>1. past[i].age \in Nat /\ seenBy[k].age \in Nat
      BY <1>1, <1>2, <2>1
    <3>2. past[i].age <= kCommandCooldown + kCommandRefill
      BY <1>0 DEF Counted
    <3>3. /\ seenBy'[k].who = past'[i].who /\ Len(seenBy') - k <= Len(past') - i
          /\ seenBy[k].age <= past[i].age
      BY <1>1, <1>2, <2>1 DEF Remembered
    <3>4. /\ seenBy'[k].age = IF seenBy[k].age < kCommandCooldown THEN seenBy[k].age + 1 ELSE kCommandCooldown
          /\ past'[i].age = IF past[i].age < kCommandCooldown + kCommandRefill THEN past[i].age + 1
                            ELSE kCommandCooldown + kCommandRefill
      BY <1>1, <1>2
    <3> DEFINE a == past[i].age
               b == past'[i].age
               c == seenBy[k].age
               e == seenBy'[k].age
    <3>5. /\ a \in Nat /\ c \in Nat /\ c <= a
          /\ e = IF c < kCommandCooldown THEN c + 1 ELSE kCommandCooldown
          /\ b = IF a < kCommandCooldown + kCommandRefill THEN a + 1 ELSE kCommandCooldown + kCommandRefill
      BY <3>1, <3>3, <3>4
    <3> HIDE DEF a, b, c, e
    <3>6. e <= b
      BY <3>5
    <3> QED
      BY <3>3, <3>6 DEF Remembered, b, e
  <2> QED
    BY <1>0, <1>1, <1>2, <2>1 DEF Recalled
<1>6. Spaced'
  <2>1. ASSUME NEW i \in DOMAIN past, NEW j \in DOMAIN past, i < j, past[i].who = past[j].who
        PROVE  Apart(i, j)'
    <3>1. Apart(i, j)
      BY <1>0, <2>1 DEF Spaced
    <3> DEFINE cap == kCommandCooldown + kCommandRefill
               a == past[i].age
               b == past'[i].age
               c == past[j].age
               e == past'[j].age
    <3>2. /\ a \in Nat /\ c \in Nat /\ c <= cap
          /\ b = IF a < cap THEN a + 1 ELSE cap
          /\ e = IF c < cap THEN c + 1 ELSE cap
          /\ a - c >= kCommandCooldown \/ a = cap
      BY <1>0, <1>2, <2>1, <3>1 DEF Apart, Counted
    <3> HIDE DEF a, b, c, e
    <3>3. b - e >= kCommandCooldown \/ b = cap
      BY <3>2
    <3> QED
      BY <3>3 DEF Apart, b, e
  <2> QED
    BY <1>2, <2>1 DEF Spaced
<1> QED
  BY <1>3, <1>4, <1>5, <1>6 DEF BInv

LEMMA NotedKeeps ==
  ASSUME BInv, NEW who \in Senders, mayAnswerCommand(who), noteCommandAnswered(who), due' = 0, filled' = filled
  PROVE  BInv'
<1> DEFINE x == [who |-> who, age |-> 0]
           size == Len(past)
           over == IF size + 1 > kCommandBurst + 2 THEN 1 ELSE 0
<1>0. /\ Counted /\ Spent /\ Recalled /\ Spaced
      /\ kCommandBurst \in Nat \ {0} /\ kCommandRefill \in Nat \ {0} /\ kCommandCooldown \in Nat \ {0}
         /\ kSeen \in Nat \ {0}
      /\ kCommandCooldown <= kCommandRefill /\ kCommandBurst <= kSeen
  BY BudgetAssumption DEF BInv
<1>1. /\ Refilled \in 1 .. kCommandBurst /\ tokens' = Refilled - 1 /\ Refilled' = Refilled - 1
      /\ filled \in 0 .. kCommandRefill - 1
  <2>1. Refilled \in 0 .. kCommandBurst /\ Refilled > 0
    BY <1>0, RefilledTyped DEF mayAnswerCommand
  <2>2. tokens' = Refilled - 1
    BY <2>1 DEF noteCommandAnswered
  <2> HIDE DEF x, size, over
  <2>3. filled \in 0 .. kCommandRefill - 1
    BY <1>0 DEF Counted
  <2>4. Refilled' = IF tokens' + 0 > kCommandBurst THEN kCommandBurst ELSE tokens' + 0
    BY DEF Refilled
  <2> QED
    BY <1>0, <2>1, <2>2, <2>3, <2>4
<1>2. /\ past \in Seq(Row(Senders)) /\ size \in Nat /\ DOMAIN past = 1 .. size /\ x \in Row(Senders)
      /\ seenBy \in Seq(Row(Senders)) /\ size <= kCommandBurst + 2
      /\ \A i \in DOMAIN past : past[i].age \in Nat /\ past[i].age <= kCommandCooldown + kCommandRefill
      /\ \A k \in DOMAIN seenBy : seenBy[k].age \in Nat /\ seenBy[k].age <= kCommandCooldown
  <2>1. /\ past \in Seq(Row(Senders)) /\ seenBy \in Seq(Row(Senders)) /\ size <= kCommandBurst + 2
        /\ \A k \in DOMAIN seenBy : seenBy[k].age <= kCommandCooldown
        /\ \A i \in DOMAIN past : past[i].age <= kCommandCooldown + kCommandRefill
    BY <1>0 DEF Counted
  <2>2. /\ size \in Nat /\ DOMAIN past = 1 .. size
        /\ \A i \in DOMAIN past : past[i] \in Row(Senders)
        /\ \A k \in DOMAIN seenBy : seenBy[k] \in Row(Senders)
    BY <2>1
  <2>3. x \in Row(Senders) /\ \A r \in Row(Senders) : r.age \in Nat
    BY DEF Row
  <2> QED
    BY <2>1, <2>2, <2>3
<1>3. /\ past' \in Seq(Row(Senders)) /\ Len(past') = size + 1 - over /\ DOMAIN past' = 1 .. size + 1 - over
      /\ \A i \in 1 .. size + 1 - over : past'[i] = IF i + over = size + 1 THEN x ELSE past[i + over]
  <2> DEFINE all == Append(past, x)
  <2>1. /\ all \in Seq(Row(Senders)) /\ Len(all) = size + 1 /\ all[size + 1] = x
        /\ \A i \in 1 .. size : all[i] = past[i]
    BY <1>2
  <2>2. past' = IF Len(all) > kCommandBurst + 2 THEN Tail(all) ELSE all
    BY DEF noteCommandAnswered
  <2> HIDE DEF all
  <2>3. past' = IF over = 1 THEN Tail(all) ELSE all
    BY <2>1, <2>2
  <2>4. over \in {0, 1}
    OBVIOUS
  <2> HIDE DEF size, over, x
  <2>5. CASE over = 0
    BY <1>2, <2>1, <2>3, <2>5
  <2>6. CASE over = 1
    <3>1. past' = Tail(all) /\ past' \in Seq(Row(Senders)) /\ Len(past') = size /\ DOMAIN past' = 1 .. size
          /\ \A i \in 1 .. size : past'[i] = all[i + 1]
      BY <1>2, <2>1, <2>3, <2>6
    <3> QED
      BY <1>2, <2>1, <2>6, <3>1
  <2> QED
    BY <2>4, <2>5, <2>6
<1>4. /\ seenBy' \in Seq(Row(Senders)) /\ Len(seenBy') \in Nat \ {0} /\ seenBy'[Len(seenBy')] = x
      /\ \A j \in DOMAIN seenBy' : seenBy'[j] = x \/ \E i \in DOMAIN seenBy : seenBy'[j] = seenBy[i]
      /\ \A i \in DOMAIN seenBy : seenBy[i].who # who =>
           \/ Len(seenBy) - i >= kSeen - 1
           \/ \E k \in DOMAIN seenBy' : seenBy'[k] = seenBy[i] /\ Len(seenBy') - k <= Len(seenBy) - i + 1
  <2>1. x.who = who /\ seenBy' = Kept(seenBy, x, kSeen)
    BY DEF noteCommandAnswered
  <2>2. seenBy \in Seq(Row(Senders)) /\ x \in Row(Senders) /\ kSeen \in Nat \ {0}
    BY <1>0, <1>2
  <2> HIDE DEF x, size, over
  <2> DEFINE new == Kept(seenBy, x, kSeen)
  <2>3. /\ new \in Seq(Row(Senders)) /\ Len(new) \in Nat \ {0} /\ new[Len(new)] = x
        /\ \A j \in DOMAIN new : new[j] = x \/ \E i \in DOMAIN seenBy : new[j] = seenBy[i]
        /\ \A i \in DOMAIN seenBy : seenBy[i].who # x.who =>
             \/ Len(seenBy) - i >= kSeen - 1
             \/ \E k \in DOMAIN new : new[k] = seenBy[i] /\ Len(new) - k <= Len(seenBy) - i + 1
    BY <2>2, KeptRows
  <2>4. new = seenBy'
    BY <2>1
  <2> HIDE DEF new
  <2> QED
    BY <2>1, <2>3, <2>4
\* Where an answer of past' was in past; what is in it there.
<1>5. \A i \in DOMAIN past' : /\ i + over \in 1 .. size + 1 /\ Len(past') - i = size + 1 - (i + over)
                              /\ i + over # size + 1 => i + over \in DOMAIN past /\ past'[i] = past[i + over]
                              /\ i + over = size + 1 => past'[i] = x
  BY <1>2, <1>3
<1> HIDE DEF over
<1>6. Counted'
  <2>1. \A k \in DOMAIN seenBy' : seenBy'[k].age <= kCommandCooldown
    BY <1>0, <1>2, <1>4
  <2>2. \A i \in DOMAIN past' : past'[i].age <= kCommandCooldown + kCommandRefill
    <3>1. TAKE i \in DOMAIN past'
    <3>2. past'[i] = x \/ \E j \in DOMAIN past : past'[i] = past[j]
      BY <3>1, <1>2, <1>5
    <3> QED
      BY <1>0, <1>2, <3>2
  <2>3. tokens' \in 0 .. kCommandBurst /\ due' \in 0 .. kCommandBurst /\ filled' \in 0 .. kCommandRefill - 1
    BY <1>0, <1>1
  <2>4. Len(past') <= kCommandBurst + 2
    BY <1>0, <1>2, <1>3 DEF over
  <2> QED
    BY <1>3, <1>4, <2>1, <2>2, <2>3, <2>4 DEF Counted
<1>7. Spent'
  <2>1. ASSUME NEW i \in DOMAIN past'
        PROVE  /\ past'[i].age <= filled' => Len(past') - i + 1 + Refilled' <= kCommandBurst
               /\ past'[i].age < kCommandRefill => Len(past') - i + 1 + Refilled' <= kCommandBurst + 1
    <3>1. CASE i + over = size + 1
      BY <3>1, <1>0, <1>1, <1>2, <1>5
    <3>2. CASE i + over # size + 1
      <4>1. /\ past'[i].age <= filled => size - (i + over) + 1 + Refilled <= kCommandBurst
            /\ past'[i].age < kCommandRefill => size - (i + over) + 1 + Refilled <= kCommandBurst + 1
        BY <3>2, <1>0, <1>5 DEF Spent, Used
      <4>2. Len(past') - i + 1 + Refilled' = size - (i + over) + 1 + Refilled
        BY <1>1, <1>2, <1>5
      <4> QED
        BY <4>1, <4>2
    <3> QED
      BY <3>1, <3>2
  <2> QED
    BY <2>1 DEF Spent, Used
<1>8. Recalled'
  <2>1. ASSUME NEW i \in DOMAIN past', ~ (Len(past') - i >= kSeen)
        PROVE  \E k \in DOMAIN seenBy' : Remembered(i, k)'
    <3>1. CASE past'[i].who = who
      <4>1. Len(seenBy') \in DOMAIN seenBy' /\ seenBy'[Len(seenBy')].who = who /\ seenBy'[Len(seenBy')].age = 0
        BY <1>4
      <4>2. past'[i].age \in Nat /\ Len(past') - i >= 0
        BY <1>2, <1>3, <1>5
      <4>3. Remembered(i, Len(seenBy))'
        BY <3>1, <4>1, <4>2, <1>4 DEF Remembered
      <4> QED
        BY <4>1, <4>3
    <3>2. CASE past'[i].who # who
      <4>1. i + over # size + 1
        BY <3>2, <1>5
      <4>2. /\ i + over \in DOMAIN past /\ past'[i] = past[i + over] /\ Len(past') - i = size - (i + over) + 1
            /\ ~ (size - (i + over) >= kSeen)
        BY <4>1, <2>1, <1>0, <1>2, <1>5
      <4>3. PICK k \in DOMAIN seenBy : Remembered(i + over, k)
        BY <4>2, <1>0 DEF Recalled
      <4>4. /\ seenBy[k].who = past'[i].who /\ seenBy[k].age <= past'[i].age
            /\ Len(seenBy) - k <= size - (i + over)
        BY <4>2, <4>3 DEF Remembered
      <4>5. ~ (Len(seenBy) - k >= kSeen - 1)
        BY <4>2, <4>4, <2>1, <1>0, <1>2
      <4>6. PICK l \in DOMAIN seenBy' : seenBy'[l] = seenBy[k] /\ Len(seenBy') - l <= Len(seenBy) - k + 1
        BY <3>2, <4>4, <4>5, <1>4
      <4>7. Remembered(i, l)'
        BY <4>2, <4>4, <4>6, <1>2, <1>4 DEF Remembered
      <4> QED
        BY <4>7
    <3> QED
      BY <3>1, <3>2
  <2> QED
    BY <2>1 DEF Recalled
<1>9. Spaced'
  <2>1. ASSUME NEW i \in DOMAIN past', NEW j \in DOMAIN past', i < j, past'[i].who = past'[j].who
        PROVE  Apart(i, j)'
    <3>1. i + over # size + 1 /\ i + over < j + over
      BY <2>1, <1>2, <1>3, <1>5
    <3>2. CASE j + over # size + 1
      BY <2>1, <3>1, <3>2, <1>0, <1>5 DEF Spaced, Apart
    <3>3. CASE j + over = size + 1
      <4>1. past[i + over].who = who /\ past'[i] = past[i + over] /\ i + over \in DOMAIN past /\ past'[j].age = 0
        BY <2>1, <3>1, <3>3, <1>5
      <4>2. ~ (past[i + over].age < kCommandCooldown)
        <5>1. SUFFICES ASSUME past[i + over].age < kCommandCooldown PROVE FALSE
          OBVIOUS
        <5>2. size - (i + over) + 1 + Refilled <= kCommandBurst + 1
          <6>1. past[i + over].age < kCommandRefill
            BY <4>1, <5>1, <1>0, <1>2
          <6> QED
            BY <4>1, <6>1, <1>0 DEF Spent, Used
        <5>3. ~ (size - (i + over) >= kSeen)
          <6>1. i + over \in Int /\ size \in Int
            BY <4>1, <1>2
          <6> QED
            BY <5>2, <6>1, <1>0, <1>1
        <5>4. PICK k \in DOMAIN seenBy : Remembered(i + over, k)
          BY <4>1, <5>3, <1>0 DEF Recalled
        <5>5. seenBy[k].who = who /\ seenBy[k].age < kCommandCooldown
          <6>1. seenBy[k].who = past[i + over].who /\ seenBy[k].age <= past[i + over].age
            BY <5>4 DEF Remembered
          <6>2. seenBy[k].age \in Nat /\ past[i + over].age \in Nat /\ kCommandCooldown \in Nat
            BY <4>1, <1>0, <1>2
          <6> QED
            BY <4>1, <5>1, <6>1, <6>2
        <5> QED
          BY <5>5 DEF mayAnswerCommand, commandCooldownActive
      <4>3. past'[i].age - past'[j].age >= kCommandCooldown
        BY <4>1, <4>2, <1>0, <1>2
      <4> QED
        BY <4>3 DEF Apart
    <3> QED
      BY <3>2, <3>3
  <2> QED
    BY <2>1 DEF Spaced
<1> QED
  BY <1>6, <1>7, <1>8, <1>9 DEF BInv

\* A message is answered by its own reading, if at all.
LEMMA AnswersKeep ==
  ASSUME BInv, Queued, NEW m \in Message, NEW signal \in Readings \cup {NaN},
         signal = IF Resting THEN NaN ELSE Head(ring).rssi, Answers(m, signal)
  PROVE  BInv' /\ Queued'
<1>1. CASE UNCHANGED <<budget, queue>>
  BY <1>1, BudgetRests DEF Queued, AnswersEarned
<1>2. CASE due' = 0 /\ filled' = filled /\ tokens' = Refilled /\ UNCHANGED <<seenBy, past, queue>>
  <2>1. Refilled \in 0 .. kCommandBurst
    BY RefilledTyped DEF BInv
  <2>2. Refilled' = IF tokens' + 0 > kCommandBurst THEN kCommandBurst ELSE tokens' + 0
    BY <1>2 DEF Refilled
  <2>3. Refilled' = Refilled /\ tokens' \in 0 .. kCommandBurst /\ due' \in 0 .. kCommandBurst
    BY <1>2, <2>1, <2>2, BudgetAssumption
  <2> QED
    BY <1>2, <2>3 DEF BInv, Counted, Spent, Used, Recalled, Remembered, Spaced, Apart, Queued, AnswersEarned
<1>3. CASE /\ due' = 0 /\ filled' = filled /\ Verified(m) /\ mayAnswerCommand(m.from) /\ noteCommandAnswered(m.from)
           /\ queue' = Append(queue, [to |-> m.from, kind |-> answers(Head(Asks(m))), signal |-> signal,
                                      asker |-> m.signer, took |-> IF Resting THEN NaN ELSE Head(ring).rssi])
  <2> DEFINE x == [to |-> m.from, kind |-> answers(Head(Asks(m))), signal |-> signal,
                   asker |-> m.signer, took |-> IF Resting THEN NaN ELSE Head(ring).rssi]
  <2>1. m.from \in Senders /\ m.signer = m.from
    BY <1>3, SendersAssumption DEF Verified, Signs
  <2>2. answers(Head(Asks(m))) \in {"text", "readings", "none", "admin"}
    BY DEF answers
  <2>3. x \in Answer /\ x.asker = x.to /\ x.signal = x.took
    BY <2>1, <2>2 DEF Answer
  <2>4. BInv'
    BY <1>3, <2>1, NotedKeeps
  <2> HIDE DEF x
  <2>5. /\ queue \in Seq(Answer) /\ queue' = Append(queue, x)
        /\ \A i \in DOMAIN queue : queue[i].to # NoOne => queue[i].asker = queue[i].to /\ queue[i].signal = queue[i].took
    BY <1>3 DEF Queued, AnswersEarned, x
  <2>6. /\ queue' \in Seq(Answer) /\ DOMAIN queue' = 1 .. Len(queue) + 1 /\ DOMAIN queue = 1 .. Len(queue)
           /\ Len(queue) \in Nat
        /\ queue'[Len(queue) + 1] = x /\ \A i \in DOMAIN queue : queue'[i] = queue[i]
    BY <2>3, <2>5
  <2>7. \A i \in DOMAIN queue' : queue'[i].to # NoOne => queue'[i].asker = queue'[i].to /\ queue'[i].signal = queue'[i].took
    BY <2>3, <2>5, <2>6
  <2> QED
    BY <2>4, <2>6, <2>7 DEF Queued, AnswersEarned
<1> QED
  BY <1>1, <1>2, <1>3 DEF Answers, budget

\* What is kept of a message, and what is answered to it.
LEMMA MessageKeeps ==
  ASSUME BInv, Queued, Placed, NEW m \in Message, NEW signal \in Readings \cup {NaN},
         signal = IF Resting THEN NaN ELSE Head(ring).rssi, handleLxmfMessage(m, signal)
  PROVE  BInv' /\ Queued' /\ Placed'
<1>1. BInv' /\ Queued'
  BY AnswersKeep, BudgetRests DEF handleLxmfMessage, Queued, AnswersEarned
<1>2. CASE UNCHANGED positions
  BY <1>1, <1>2 DEF Placed, PositionsProved
<1>3. CASE Verified(m) /\ seen(m.from, m.signer)
  <2> DEFINE x == [who |-> m.from, by |-> m.signer]
  <2>1. x \in [who : Senders, by : Senders] /\ x.by = x.who
    BY <1>3, SendersAssumption DEF Verified, Signs
  <2>2. positions' = Kept(positions, x, kMaxPositions) /\ positions \in Seq([who : Senders, by : Senders])
    BY <1>3 DEF seen, Placed
  <2> DEFINE P == [who : Senders, by : Senders]
  <2>3. positions \in Seq(P) /\ x \in P /\ x.who = m.from /\ kMaxPositions \in Nat \ {0}
    BY <2>1, <2>2, PositionsAssumption
  <2> HIDE DEF x, P
  <2>4. /\ positions' \in Seq(P)
        /\ \A j \in DOMAIN positions' : positions'[j] = x \/ \E i \in DOMAIN positions : positions'[j] = positions[i]
    BY <2>2, <2>3, KeptRows
  <2>5. \A j \in DOMAIN positions' : positions'[j].by = positions'[j].who
    BY <2>1, <2>4 DEF Placed, PositionsProved
  <2> QED
    BY <1>1, <2>4, <2>5 DEF Placed, PositionsProved, P
<1> QED
  BY <1>1, <1>2, <1>3 DEF handleLxmfMessage

-----------------------------------------------------------------------------
(* For every table, burst and refill: what MessagesTrue says always holds.  *)

LEMMA MInvStarts == ASSUME Init PROVE MInv
<1>1. Framed /\ Queued /\ Placed
  BY BatchAssumption DEF Init, Framed, Queued, Placed, AnswersEarned, PositionsProved
<1>2. Counted /\ Spent /\ Recalled /\ Spaced
  BY BudgetAssumption DEF Init, Counted, Spent, Recalled, Spaced
<1> QED
  BY <1>1, <1>2 DEF MInv, BInv

LEMMA MInvSteps == ASSUME MInv, [Next]_vars PROVE MInv'
<1>0. Framed /\ Queued /\ Placed /\ BInv /\ kBatch \in Nat \ {0}
  BY BatchAssumption DEF MInv
<1>1. CASE UNCHANGED <<budget, queue, positions>> /\ Framed'
  BY <1>0, <1>1, BudgetRests DEF MInv, Queued, AnswersEarned, Placed, PositionsProved
<1>2. ASSUME NEW f \in Frames, NEW r \in Readings, Post(f, r) PROVE MInv'
  <2>1. Framed'
    BY <1>0, <1>2 DEF Post, Framed
  <2> QED
    BY <1>1, <1>2, <2>1 DEF Post
<1>3. CASE StartPass \/ EndPass
  <2>1. Framed'
    BY <1>0, <1>3 DEF StartPass, EndPass, Framed
  <2> QED
    BY <1>1, <1>3, <2>1 DEF StartPass, EndPass
<1>4. CASE Receive
  <2> DEFINE f == Head(ring)
  <2>1. /\ f \in [frame : Frames, rssi : Readings] /\ ring' = Tail(ring)
           /\ Tail(ring) \in Seq([frame : Frames, rssi : Readings])
        /\ drained \in 0 .. kBatch - 1
    <3> DEFINE S == [frame : Frames, rssi : Readings]
    <3>1. ring \in Seq(S) /\ ring # << >> /\ ring' = Tail(ring) /\ drained < kBatch /\ drained \in 0 .. kBatch + 1
      BY <1>0, <1>4 DEF Receive, Framed
    <3> HIDE DEF S
    <3>2. Head(ring) \in S /\ Tail(ring) \in Seq(S)
      BY <3>1
    <3>3. drained \in 0 .. kBatch - 1
      BY <1>0, <3>1
    <3> QED
      BY <3>1, <3>2, <3>3 DEF S
  <2>2. Framed'
    BY <1>0, <1>4, <2>1 DEF Receive, Framed
  <2>3. ~Resting
    BY <1>0, <2>1 DEF Resting
  <2>4. CASE UNCHANGED <<budget, queue, positions>>
    BY <1>1, <2>2, <2>4
  <2>5. CASE f.frame.is = "message" /\ handleLxmfMessage(f.frame.message, f.rssi)
    <3>1. f.frame.message \in Message /\ f.rssi \in Readings \cup {NaN}
      BY <2>1, <2>5 DEF Message
    <3>2. f.rssi = IF Resting THEN NaN ELSE Head(ring).rssi
      BY <2>3
    <3> QED
      BY <1>0, <2>2, <2>5, <3>1, <3>2, MessageKeeps DEF MInv
  <2>6. f.frame.is \in {"announce", "identify", "message", "short"}
    BY <2>1, FramesAssumption
  <2>7. \/ UNCHANGED <<budget, queue, positions>>
        \/ handle_incoming(f.frame, reading') /\ reading' = IF f.frame.is = "short" THEN reading ELSE f.rssi
    BY <1>4 DEF Receive
  <2>8. ASSUME handle_incoming(f.frame, reading'), f.frame.is # "message" PROVE UNCHANGED <<budget, queue, positions>>
    BY <2>6, <2>8 DEF handle_incoming, Announces, onLxmfIdentified
  <2>9. ASSUME handle_incoming(f.frame, reading'), f.frame.is = "message" PROVE handleLxmfMessage(f.frame.message, reading')
    BY <2>9 DEF handle_incoming
  <2> QED
    BY <2>4, <2>5, <2>7, <2>8, <2>9
<1>5. ASSUME NEW m \in Transfers, onLxmfResourceConcluded(m) PROVE MInv'
  <2>1. m \in Message /\ NaN \in Readings \cup {NaN} /\ NaN = IF Resting THEN NaN ELSE Head(ring).rssi
    BY <1>5 DEF Message, onLxmfResourceConcluded
  <2>2. Framed'
    BY <1>0, <1>5 DEF onLxmfResourceConcluded, Framed
  <2> QED
    BY <1>0, <1>5, <2>1, <2>2, MessageKeeps DEF MInv, onLxmfResourceConcluded
<1>6. CASE \E who \in Senders : Forget(who)
  <2>1. Framed'
    BY <1>0, <1>6 DEF Forget, Framed
  <2> QED
    BY <1>1, <1>6, <2>1 DEF Forget
<1>7. CASE queueLxmfReply
  <2> DEFINE x == [to |-> NoOne, kind |-> "admin", signal |-> NaN, asker |-> NoOne, took |-> NaN]
  <2>1. x \in Answer /\ x.to = NoOne
    BY DEF Answer
  <2> HIDE DEF x
  <2>2. queue' = Append(queue, x) /\ UNCHANGED <<budget, positions>>
    BY <1>7 DEF queueLxmfReply, x
  <2>3. /\ queue' \in Seq(Answer) /\ DOMAIN queue' = 1 .. Len(queue) + 1 /\ DOMAIN queue = 1 .. Len(queue)
        /\ Len(queue) \in Nat /\ queue'[Len(queue) + 1] = x /\ \A i \in DOMAIN queue : queue'[i] = queue[i]
    BY <1>0, <2>1, <2>2 DEF Queued
  <2>4. Queued'
    BY <1>0, <2>1, <2>3 DEF Queued, AnswersEarned
  <2>5. Framed'
    BY <1>0, <1>7 DEF queueLxmfReply, Framed
  <2> QED
    BY <1>0, <2>2, <2>4, <2>5, BudgetRests DEF MInv, Placed, PositionsProved
<1>8. CASE TakeReply
  <2>1. /\ queue' = Tail(queue) /\ queue # << >> /\ queue \in Seq(Answer) /\ UNCHANGED <<budget, positions>>
        /\ \A i \in DOMAIN queue : queue[i].to # NoOne => queue[i].asker = queue[i].to /\ queue[i].signal = queue[i].took
    BY <1>0, <1>8 DEF TakeReply, Queued, AnswersEarned
  <2>2. /\ queue' \in Seq(Answer) /\ DOMAIN queue' = 1 .. Len(queue) - 1 /\ DOMAIN queue = 1 .. Len(queue)
        /\ Len(queue) \in Nat /\ \A i \in DOMAIN queue' : queue'[i] = queue[i + 1]
    BY <2>1
  <2>3. Queued'
    BY <2>1, <2>2 DEF Queued, AnswersEarned
  <2>4. Framed'
    BY <1>0, <1>8 DEF TakeReply, Framed
  <2> QED
    BY <1>0, <2>1, <2>3, <2>4, BudgetRests DEF MInv, Placed, PositionsProved
<1>9. CASE Tick
  <2>1. Framed' /\ Queued' /\ Placed'
    BY <1>0, <1>9 DEF Tick, Framed, Queued, AnswersEarned, Placed, PositionsProved
  <2> QED
    BY <1>0, <1>9, <2>1, TickKeeps DEF MInv
<1>10. CASE UNCHANGED vars
  <2>1. Framed'
    BY <1>0, <1>10 DEF vars, Framed
  <2> QED
    BY <1>1, <1>10, <2>1 DEF vars
<1> QED
  BY <1>2, <1>3, <1>4, <1>5, <1>6, <1>7, <1>8, <1>9, <1>10 DEF Next

\* What the invariant says of the answers, for the reader: the burst and one
\* more within a refill's length, and a pause between two to one sender.
LEMMA InBudget == ASSUME MInv PROVE MessagesTrue
<1>0. Counted /\ Spent /\ Spaced /\ AnswersEarned /\ PositionsProved
  BY DEF MInv, BInv, Queued, Placed
<1>1. ASSUME Len(past) = kCommandBurst + 2 PROVE past[1].age >= kCommandRefill
  <2>1. kCommandBurst \in Nat /\ kCommandRefill \in Nat /\ Refilled \in Nat
    BY <1>0, RefilledTyped, BudgetAssumption
  <2>2. past \in Seq(Row(Senders)) /\ 1 \in DOMAIN past
    BY <1>0, <1>1, <2>1 DEF Counted
  <2>3. past[1].age \in Nat
    <3>1. past[1] \in Row(Senders)
      BY <2>2
    <3> QED
      BY <3>1 DEF Row
  <2>4. past[1].age < kCommandRefill => Len(past) - 1 + 1 + Refilled <= kCommandBurst + 1
    BY <1>0, <2>2 DEF Spent, Used
  <2>5. past[1].age < kCommandRefill => kCommandBurst + 2 + Refilled <= kCommandBurst + 1
    BY <1>1, <2>1, <2>4
  <2> QED
    BY <2>1, <2>3, <2>5
<1>2. Budgeted
  BY <1>0, <1>1 DEF Budgeted, Spaced, Apart
<1> QED
  BY <1>0, <1>2 DEF MessagesTrue

\* Of RnsTransport.cpp and LxmfCommands.h: however the frames, the transfers and
\* the time between them fall, an answer goes to the sender that proved itself
\* and carries that frame's reading, positions are kept for such senders only,
\* and the answers stay in budget though the table forgets whom it answered.
THEOREM MessagesAlwaysTrue == Spec => []MessagesTrue
<1>1. Init => MInv
  BY MInvStarts
<1>2. MInv /\ [Next]_vars => MInv'
  BY MInvSteps
<1>3. MInv => MessagesTrue
  BY InBudget
<1> QED
  BY <1>1, <1>2, <1>3, PTL DEF Spec

-----------------------------------------------------------------------------
(* Names: the table of neighbours and its history, then the names in the   *)
(* cache, the file and the table of Reticulum.                             *)

\* The slots in use are the first ones; each says how many were heard since, and
\* that is its place in the list of the newest, which has each once.
Hashes == {e.hash : e \in Heard} \cup {NoOne}
TableInv ==
  /\ DOMAIN recent = 1 .. Len(recent) /\ Len(recent) \in 0 .. MAX_NEIGHBORS
  /\ n \in [N!Slots -> [hash : Hashes, since : Nat]]
  /\ \A i \in N!Slots : n[i].hash # NoOne <=> i <= Len(recent)
  /\ \A i \in N!Slots : i <= Len(recent) =>
       n[i].since + 1 \in 1 .. Len(recent) /\ recent[n[i].since + 1] = n[i].hash
  /\ \A k \in 1 .. Len(recent) : \E i \in N!Slots : i <= Len(recent) /\ n[i].since = k - 1
  /\ \A k, l \in 1 .. Len(recent) : recent[k] = recent[l] => k = l
  /\ \A i, j \in N!Slots : i <= Len(recent) /\ j <= Len(recent) /\ n[i].since = n[j].since => i = j

LEMMA TableInit == N!Init => TableInv
<1> SUFFICES ASSUME N!Init PROVE TableInv
  OBVIOUS
<1>1. recent = << >> /\ Len(recent) = 0 /\ DOMAIN recent = 1 .. 0 /\ n = [i \in N!Slots |-> [hash |-> NoOne, since |-> 0]]
  BY DEF N!Init
<1> QED
  BY <1>1, NamesAssumption DEF TableInv, N!Slots, Hashes

\* Where a hash that is heard goes, and what moves back for it.
LEMMA SlotIs ==
  ASSUME TableInv, NEW h, h # NoOne
  PROVE  /\ N!slotOf(h) \in N!Slots
         /\ N!upTo(h) \in 1 .. MAX_NEIGHBORS
         /\ \/ N!slotOf(h) <= Len(recent) /\ n[N!slotOf(h)].hash = h /\ n[N!slotOf(h)].since = N!upTo(h) - 1
               /\ N!upTo(h) <= Len(recent)
            \/ N!slotOf(h) = Len(recent) + 1 /\ n[N!slotOf(h)].hash = NoOne /\ N!upTo(h) = Len(recent) + 1
               /\ \A i \in N!Slots : n[i].hash # h
            \/ Len(recent) = MAX_NEIGHBORS /\ n[N!slotOf(h)].since = MAX_NEIGHBORS - 1 /\ N!upTo(h) = MAX_NEIGHBORS
               /\ N!slotOf(h) <= Len(recent) /\ \A i \in N!Slots : n[i].hash # h
         /\ (\E i \in N!Slots : n[i].hash = h) \/ \A k \in 1 .. Len(recent) : recent[k] # h
<1> DEFINE L == Len(recent)
<1>0. L \in 0 .. MAX_NEIGHBORS /\ MAX_NEIGHBORS \in Nat \ {0} /\ L \in Nat
  BY NamesAssumption DEF TableInv
<1>1. (\E i \in N!Slots : n[i].hash = h) <=> \E k \in DOMAIN recent : recent[k] = h
  BY <1>0 DEF TableInv
<1>2. CASE \E i \in N!Slots : n[i].hash = h
  <2>1. N!slotOf(h) \in N!Slots /\ n[N!slotOf(h)].hash = h
    BY <1>2 DEF N!slotOf
  <2>2. N!upTo(h) \in 1 .. L /\ recent[N!upTo(h)] = h
    BY <1>1, <1>2 DEF N!upTo, TableInv
  <2>3. N!slotOf(h) <= L /\ n[N!slotOf(h)].since + 1 \in 1 .. L /\ recent[n[N!slotOf(h)].since + 1] = h
        /\ n[N!slotOf(h)].since \in Nat
    BY <2>1 DEF TableInv
  <2>4. n[N!slotOf(h)].since + 1 = N!upTo(h)
    BY <2>2, <2>3 DEF TableInv
  <2> QED
    BY <1>0, <1>2, <2>1, <2>2, <2>3, <2>4 DEF N!Slots
<1>3. CASE ~(\E i \in N!Slots : n[i].hash = h) /\ L < MAX_NEIGHBORS
  <2>1. L + 1 \in N!Slots /\ n[L + 1].hash = NoOne /\ \A j \in N!Slots : j < L + 1 => n[j].hash # NoOne
    BY <1>0, <1>3 DEF TableInv, N!Slots
  <2> DEFINE P(i) == n[i].hash = NoOne /\ \A j \in N!Slots : j < i => n[j].hash # NoOne
  <2>2. N!slotOf(h) = CHOOSE i \in N!Slots : P(i)
    BY <1>3, <2>1 DEF N!slotOf
  <2>3. N!slotOf(h) \in N!Slots /\ P(N!slotOf(h))
    BY <2>1, <2>2
  <2>4. N!slotOf(h) = L + 1
    BY <1>0, <2>1, <2>3 DEF N!Slots
  <2>5. N!upTo(h) = L + 1
    BY <1>1, <1>3 DEF N!upTo
  <2> QED
    BY <1>0, <1>1, <1>3, <2>1, <2>4, <2>5 DEF TableInv, N!Slots
<1>4. CASE ~(\E i \in N!Slots : n[i].hash = h) /\ L = MAX_NEIGHBORS
  <2> DEFINE P(i) == \A j \in N!Slots : n[i].since >= n[j].since
  <2>1. \A i \in N!Slots : n[i].hash # NoOne /\ i <= L
    BY <1>0, <1>4 DEF TableInv, N!Slots
  <2>2. N!slotOf(h) = CHOOSE i \in N!Slots : P(i)
    BY <1>4, <2>1 DEF N!slotOf
  <2>3. PICK m \in N!Slots : m <= L /\ n[m].since = L - 1
    BY <1>0, <1>4 DEF TableInv
  <2>4. \A j \in N!Slots : n[j].since \in Nat /\ n[j].since <= L - 1
    BY <1>0, <2>1 DEF TableInv
  <2>5. P(m)
    BY <2>3, <2>4
  <2>6. N!slotOf(h) \in N!Slots /\ P(N!slotOf(h))
    BY <2>2, <2>3, <2>5
  <2>7. n[N!slotOf(h)].since = L - 1
    BY <1>0, <2>3, <2>4, <2>6
  <2>8. N!upTo(h) = L
    BY <1>0, <1>1, <1>4 DEF N!upTo
  <2>9. \A k \in 1 .. L : recent[k] # h
    BY <1>1, <1>4 DEF TableInv
  <2> QED
    BY <1>0, <1>4, <2>1, <2>6, <2>7, <2>8, <2>9
<1> QED
  BY <1>0, <1>2, <1>3, <1>4

\* The same, as the places it leaves: what is at the place that is vacated goes.
LEMMA PlaceIs ==
  ASSUME TableInv, NEW h, h # NoOne, NEW L, L = Len(recent), NEW s, s = N!slotOf(h), NEW u, u = N!upTo(h)
  PROVE  /\ s \in N!Slots /\ u \in 1 .. MAX_NEIGHBORS /\ u <= L + 1 /\ s <= L + 1
         /\ L \in Nat /\ L <= MAX_NEIGHBORS /\ MAX_NEIGHBORS \in Nat
         /\ s <= L => u <= L /\ n[s].since = u - 1
         /\ s = L + 1 => u = L + 1 /\ n[s].hash # h
         /\ \A i \in N!Slots : i <= L /\ i # s => n[i].since # u - 1
         /\ \A k \in 1 .. L : k # u => recent[k] # h
         /\ \A i \in N!Slots : i <= L /\ n[s].hash # h => n[i].since <= u - 1
<1>1. L \in 0 .. MAX_NEIGHBORS /\ L \in Nat /\ MAX_NEIGHBORS \in Nat \ {0}
  BY NamesAssumption DEF TableInv
<1>2. s \in N!Slots /\ u \in 1 .. MAX_NEIGHBORS
  BY SlotIs
<1>3. \A i \in N!Slots : i <= L => n[i].since + 1 \in 1 .. L /\ n[i].since \in Nat /\ recent[n[i].since + 1] = n[i].hash
  BY DEF TableInv
<1>4. CASE s <= L /\ n[s].hash = h /\ n[s].since = u - 1 /\ u <= L
  <2>1. recent[u] = h /\ u \in 1 .. L
    BY <1>1, <1>2, <1>3, <1>4
  <2>2. \A k \in 1 .. L : k # u => recent[k] # h
    BY <2>1 DEF TableInv
  <2>3. \A i \in N!Slots : i <= L /\ i # s => n[i].since # u - 1
    BY <1>2, <1>4 DEF TableInv
  <2> QED
    BY <1>1, <1>2, <1>4, <2>2, <2>3 DEF N!Slots
<1>5. CASE s = L + 1 /\ n[s].hash = NoOne /\ u = L + 1 /\ \A i \in N!Slots : n[i].hash # h
  <2>1. \A k \in 1 .. L : recent[k] # h
    BY <1>5, SlotIs
  <2> QED
    BY <1>1, <1>2, <1>3, <1>5, <2>1 DEF N!Slots
<1>6. CASE L = MAX_NEIGHBORS /\ n[s].since = MAX_NEIGHBORS - 1 /\ u = MAX_NEIGHBORS /\ s <= L
      /\ \A i \in N!Slots : n[i].hash # h
  <2>1. \A k \in 1 .. L : recent[k] # h
    BY <1>6, SlotIs
  <2>2. \A i \in N!Slots : i <= L /\ i # s => n[i].since # u - 1
    BY <1>2, <1>6 DEF TableInv
  <2> QED
    BY <1>1, <1>2, <1>3, <1>6, <2>1, <2>2 DEF N!Slots
<1> QED
  BY <1>4, <1>5, <1>6, SlotIs

LEMMA SeenKeeps ==
  ASSUME TableInv, NEW h \in Hashes, h # NoOne, N!seen(h)
  PROVE  TableInv'
<1> DEFINE L == Len(recent)
           s == N!slotOf(h)
           u == N!upTo(h)
           M == IF u > L THEN u ELSE L
<1>0. /\ s \in N!Slots /\ u \in 1 .. MAX_NEIGHBORS /\ u <= L + 1 /\ s <= L + 1
      /\ L \in Nat /\ L <= MAX_NEIGHBORS /\ MAX_NEIGHBORS \in Nat
      /\ s <= L => u <= L /\ n[s].since = u - 1
      /\ s = L + 1 => u = L + 1 /\ n[s].hash # h
      /\ \A i \in N!Slots : i <= L /\ i # s => n[i].since # u - 1
      /\ \A k \in 1 .. L : k # u => recent[k] # h
      /\ \A i \in N!Slots : i <= L /\ n[s].hash # h => n[i].since <= u - 1
  BY PlaceIs
<1>1. recent' = [k \in 1 .. M |-> IF k = 1 THEN h ELSE IF k <= u THEN recent[k - 1] ELSE recent[k]]
  BY DEF N!seen
<1>2. /\ n' = [i \in N!Slots |-> IF i = s THEN [hash |-> h, since |-> 0]
                             ELSE IF n[i].since < n[s].since \/ n[s].hash # h
                                  THEN [n[i] EXCEPT !.since = IF n[i].hash = NoOne THEN 0 ELSE @ + 1] ELSE n[i]]
  BY DEF N!seen
<1> HIDE DEF s, u
<1>3. s \in Nat /\ u \in Nat /\ M \in Nat /\ M <= MAX_NEIGHBORS /\ L <= M /\ u <= M /\ s <= M /\ 1 <= M /\ 1 <= u
      /\ (M = L \/ (M = L + 1 /\ s = L + 1))
  BY <1>0 DEF N!Slots
<1> HIDE DEF L
<1>4. \A i \in N!Slots : n[i].since \in Nat /\ n[i].hash \in Hashes /\ (n[i].hash # NoOne <=> i <= L)
  BY DEF TableInv, L
<1>5. \A i \in N!Slots : i <= L => n[i].since + 1 \in 1 .. L /\ recent[n[i].since + 1] = n[i].hash
  BY DEF TableInv, L
<1>6. DOMAIN recent' = 1 .. M /\ Len(recent') = M
  BY <1>1, <1>3
<1>7. \A i \in N!Slots : i # s /\ i <= L =>
        n'[i].hash = n[i].hash /\ n'[i].since = IF n[i].since < u - 1 THEN n[i].since + 1 ELSE n[i].since
  <2> SUFFICES ASSUME NEW i \in N!Slots, i # s, i <= L
               PROVE  n'[i].hash = n[i].hash /\ n'[i].since = IF n[i].since < u - 1 THEN n[i].since + 1 ELSE n[i].since
    OBVIOUS
  <2>1. n'[i] = IF n[i].since < n[s].since \/ n[s].hash # h
                THEN [n[i] EXCEPT !.since = IF n[i].hash = NoOne THEN 0 ELSE @ + 1] ELSE n[i]
    BY <1>2
  <2>2. n[i] \in [hash : Hashes, since : Nat] /\ n[i].hash # NoOne /\ n[i].since \in Nat /\ n[s].since \in Nat
    BY <1>0, <1>4 DEF TableInv
  <2>3. n[i].since # u - 1 /\ (n[s].hash # h => n[i].since <= u - 1)
    BY <1>0
  <2>4. s <= L \/ s = L + 1
    BY <1>0, <1>3
  <2>5. (n[i].since < n[s].since \/ n[s].hash # h) <=> n[i].since < u - 1
    BY <1>0, <1>3, <2>2, <2>3, <2>4
  <2>6. CASE n[i].since < u - 1
    <3>1. n'[i] = [n[i] EXCEPT !.since = n[i].since + 1]
      BY <2>1, <2>2, <2>5, <2>6
    <3> QED
      BY <2>2, <2>6, <3>1
  <2>7. CASE ~(n[i].since < u - 1)
    BY <2>1, <2>5, <2>7
  <2> QED
    BY <2>6, <2>7
<1>8. \A i \in N!Slots : i # s /\ ~(i <= L) => n'[i].hash = NoOne
  <2> SUFFICES ASSUME NEW i \in N!Slots, i # s, ~(i <= L)
               PROVE  n'[i].hash = NoOne
    OBVIOUS
  <2>1. n[i] \in [hash : Hashes, since : Nat] /\ n[i].hash = NoOne
    BY <1>4 DEF TableInv
  <2>2. n'[i] = n[i] \/ n'[i] = [n[i] EXCEPT !.since = 0]
    BY <1>2, <2>1
  <2> QED
    BY <2>1, <2>2
<1>9. n'[s] = [hash |-> h, since |-> 0] /\ DOMAIN n' = N!Slots /\ n'[s].hash = h /\ n'[s].since = 0
  BY <1>0, <1>2
<1>10. \A i \in N!Slots : i # s /\ i <= L => n'[i].since \in Nat /\ 1 <= n'[i].since /\ n'[i].since + 1 <= M
                                     /\ recent'[n'[i].since + 1] = n'[i].hash /\ n'[i].hash = n[i].hash
  <2> SUFFICES ASSUME NEW i \in N!Slots, i # s, i <= L
               PROVE  n'[i].since \in Nat /\ 1 <= n'[i].since /\ n'[i].since + 1 <= M
                      /\ recent'[n'[i].since + 1] = n'[i].hash /\ n'[i].hash = n[i].hash
    OBVIOUS
  <2> DEFINE place == n[i].since
  <2>1. place \in Nat /\ place + 1 <= L /\ place # u - 1 /\ recent[place + 1] = n[i].hash
    BY <1>0, <1>4, <1>5
  <2>2. n'[i].hash = n[i].hash /\ n'[i].since = IF place < u - 1 THEN place + 1 ELSE place
    BY <1>7
  <2> HIDE DEF place
  <2>3. CASE place < u - 1
    <3>1. recent'[place + 2] = recent[place + 1]
      BY <1>0, <1>1, <1>3, <2>1, <2>3
    <3> QED
      BY <1>0, <1>3, <2>1, <2>2, <2>3, <3>1
  <2>4. CASE place > u - 1
    <3>1. recent'[place + 1] = recent[place + 1]
      BY <1>0, <1>1, <1>3, <2>1, <2>4
    <3> QED
      BY <1>0, <1>3, <2>1, <2>2, <2>4, <3>1
  <2> QED
    BY <1>3, <2>1, <2>3, <2>4
<1>11. \A i \in N!Slots : n'[i].hash # NoOne <=> i <= M
  BY <1>0, <1>3, <1>4, <1>7, <1>8, <1>9 DEF N!Slots
<1>12. \A k \in 1 .. M : \E i \in N!Slots : i <= M /\ n'[i].since = k - 1
  <2> SUFFICES ASSUME NEW k \in 1 .. M
               PROVE  \E i \in N!Slots : i <= M /\ n'[i].since = k - 1
    OBVIOUS
  <2>0. \A m \in 1 .. L : \E i \in N!Slots : i <= L /\ n[i].since = m - 1
    BY DEF TableInv, L
  <2>1. CASE k = 1
    BY <1>0, <1>3, <1>9, <2>1
  <2>2. CASE k # 1 /\ k <= u
    <3>1. k - 1 \in 1 .. L
      BY <1>0, <1>3, <2>2
    <3>2. PICK i \in N!Slots : i <= L /\ n[i].since = (k - 1) - 1
      BY <2>0, <3>1
    <3>3. i # s
      BY <1>0, <1>3, <2>2, <3>2
    <3>4. n'[i].since = k - 1
      BY <1>3, <1>7, <2>2, <3>1, <3>2, <3>3
    <3> QED
      BY <1>0, <1>3, <3>2, <3>4 DEF N!Slots
  <2>3. CASE k > u
    <3>1. k \in 1 .. L
      BY <1>0, <1>3, <2>3
    <3>2. PICK i \in N!Slots : i <= L /\ n[i].since = k - 1
      BY <2>0, <3>1
    <3>3. i # s
      BY <1>0, <1>3, <2>3, <3>2
    <3>4. n'[i].since = k - 1
      BY <1>3, <1>7, <2>3, <3>1, <3>2, <3>3
    <3> QED
      BY <1>0, <1>3, <3>2, <3>4 DEF N!Slots
  <2> QED
    BY <1>3, <2>1, <2>2, <2>3
<1>13. \A k, l \in 1 .. M : recent'[k] = recent'[l] => k = l
  <2> DEFINE g(k) == IF k <= u THEN k - 1 ELSE k
  <2>1. \A k \in 2 .. M : g(k) \in 1 .. L /\ g(k) # u /\ recent'[k] = recent[g(k)] /\ recent[g(k)] # h
    <3> SUFFICES ASSUME NEW k \in 2 .. M
                 PROVE  g(k) \in 1 .. L /\ g(k) # u /\ recent'[k] = recent[g(k)] /\ recent[g(k)] # h
      OBVIOUS
    <3>1. g(k) \in 1 .. L /\ g(k) # u
      BY <1>0, <1>3
    <3>2. recent'[k] = recent[g(k)]
      BY <1>1, <1>3
    <3> QED
      BY <1>0, <3>1, <3>2
  <2>2. \A k, l \in 2 .. M : g(k) = g(l) => k = l
    BY <1>3
  <2>3. \A a, b \in 1 .. L : recent[a] = recent[b] => a = b
    BY DEF TableInv, L
  <2>4. recent'[1] = h
    BY <1>1, <1>3
  <2> HIDE DEF g
  <2>5. \A k \in 1 .. M : k = 1 \/ k \in 2 .. M
    BY <1>3
  <2> QED
    BY <2>1, <2>2, <2>3, <2>4, <2>5
<1>14. \A i, j \in N!Slots : i <= M /\ j <= M /\ n'[i].since = n'[j].since => i = j
  <2>1. \A i \in N!Slots : i <= M => i = s \/ i <= L
    BY <1>0, <1>3 DEF N!Slots
  <2>2. \A i \in N!Slots : i <= L /\ i # s => n'[i].since # 0 /\ n[i].since \in Nat /\ n[i].since # u - 1
                       /\ n'[i].since = IF n[i].since < u - 1 THEN n[i].since + 1 ELSE n[i].since
    BY <1>0, <1>4, <1>7, <1>10
  <2>3. \A i, j \in N!Slots : i <= L /\ j <= L /\ n[i].since = n[j].since => i = j
    BY DEF TableInv, L
  <2>4. n'[s].since = 0
    BY <1>9
  <2> SUFFICES ASSUME NEW i \in N!Slots, NEW j \in N!Slots, i <= M, j <= M, n'[i].since = n'[j].since PROVE i = j
    OBVIOUS
  <2>5. CASE i = s \/ j = s
    BY <2>1, <2>2, <2>4, <2>5
  <2>6. CASE i # s /\ j # s
    <3>1. n[i].since = n[j].since
      BY <1>3, <2>1, <2>2, <2>6
    <3> QED
      BY <2>1, <2>3, <2>6, <3>1
  <2> QED
    BY <2>5, <2>6
<1>15. \A i \in N!Slots : i <= M => n'[i].since + 1 \in 1 .. M /\ n'[i].since \in Nat
         /\ recent'[n'[i].since + 1] = n'[i].hash
  <2> SUFFICES ASSUME NEW i \in N!Slots, i <= M
               PROVE n'[i].since + 1 \in 1 .. M /\ n'[i].since \in Nat /\ recent'[n'[i].since + 1] = n'[i].hash
    OBVIOUS
  <2>1. CASE i = s
    <3>1. n'[s].since = 0 /\ n'[s].hash = h /\ recent'[1] = h
      BY <1>1, <1>3, <1>9
    <3> QED
      BY <1>3, <2>1, <3>1
  <2>2. CASE i # s
    <3>1. i <= L
      BY <1>0, <1>3, <2>2 DEF N!Slots
    <3> QED
      BY <1>3, <1>10, <2>2, <3>1
  <2> QED
    BY <2>1, <2>2
<1>16. n' \in [N!Slots -> [hash : Hashes, since : Nat]]
  <2> SUFFICES ASSUME NEW i \in N!Slots
               PROVE  (IF i = s THEN [hash |-> h, since |-> 0]
                       ELSE IF n[i].since < n[s].since \/ n[s].hash # h
                            THEN [n[i] EXCEPT !.since = IF n[i].hash = NoOne THEN 0 ELSE @ + 1] ELSE n[i])
                      \in [hash : Hashes, since : Nat]
    BY <1>2
  <2>1. n[i] \in [hash : Hashes, since : Nat]
    BY DEF TableInv
  <2> QED
    BY <2>1
<1> HIDE DEF M
<1> QED
  BY <1>3, <1>6, <1>9, <1>11, <1>12, <1>13, <1>14, <1>15, <1>16 DEF TableInv

LEMMA TableSaysNewest == TableInv => N!TableNewest
<1> SUFFICES ASSUME TableInv PROVE N!TableNewest
  OBVIOUS
<1>1. N!ToSet(recent) = {recent[k] : k \in 1 .. Len(recent)}
  BY DEF TableInv, N!ToSet
<1>2. \A i \in N!Slots : n[i].hash # NoOne => n[i].hash \in N!ToSet(recent)
  BY <1>1 DEF TableInv
<1>3. \A k \in 1 .. Len(recent) : \E i \in N!Slots : n[i].hash = recent[k] /\ n[i].hash # NoOne
  <2> SUFFICES ASSUME NEW k \in 1 .. Len(recent) PROVE \E i \in N!Slots : n[i].hash = recent[k] /\ n[i].hash # NoOne
    OBVIOUS
  <2>1. PICK i \in N!Slots : i <= Len(recent) /\ n[i].since = k - 1
    BY DEF TableInv
  <2>2. n[i].since + 1 = k
    BY <2>1
  <2> QED
    BY <2>1, <2>2 DEF TableInv
<1>4. \A i, j \in N!Slots : n[i].hash = n[j].hash /\ n[i].hash # NoOne => i = j
  BY DEF TableInv
<1> QED
  BY <1>1, <1>2, <1>3, <1>4 DEF N!TableNewest

-----------------------------------------------------------------------------
\* What is remembered, of each hash one name.
Lists == {l \in Seq(Heard) : Len(l) <= kMax /\ \A i, j \in DOMAIN l : l[i].hash = l[j].hash => i = j}

Anything == Heard \cup {[hash |-> NoOne, name |-> NoOne]}
OfRns == [at : {"idle", "load", "read", "remember", "open", "copy", "close"}, what : Anything, scratch : Lists]
OfUi == [at : {"idle", "read", "remove", "restart"}, what : Anything, scratch : Lists]

KeptTypes ==
  /\ sCache \in Lists /\ file \in Lists /\ sNext \in 0 .. kMax - 1
  /\ rns \in OfRns /\ ui \in OfUi
  /\ rns.at # "idle" => rns.what \in Heard
  /\ raced \in BOOLEAN /\ behind \in BOOLEAN /\ sLoaded \in BOOLEAN

\* Whoever reads the file reads what it holds until the memory is filled; what is
\* being written is the memory; the memory is the file's when nobody writes it.
KeptInv ==
  /\ KeptTypes
  /\ rns.at \in {"remember", "open", "copy", "close"} \/ ui.at = "remove" => sLoaded
  /\ rns.at = "read" /\ ~sLoaded => rns.scratch = file
  /\ ui.at = "read" /\ ~sLoaded => ui.scratch = file
  /\ rns.at = "close" /\ ~raced => rns.scratch = sCache
  /\ rns.at \in {"idle", "load", "read", "remember"} /\ ui.at # "remove" /\ sLoaded /\ ~behind /\ ~raced => file = sCache
  /\ N!StaysErased

LEMMA NoNames == << >> \in Lists /\ N!ToSet(<< >>) = {}
<1>1. << >> \in Seq(Heard) /\ Len(<< >>) = 0 /\ DOMAIN << >> = {}
  OBVIOUS
<1> QED
  BY <1>1, NamesAssumption DEF Lists, N!ToSet

\* What a name that is heard makes of the memory: it comes last, takes the place
\* of another, or that of the name the hash had.
LEMMA ComesLast ==
  ASSUME NEW l \in Lists, NEW e \in Heard, Len(l) < kMax, \A i \in DOMAIN l : l[i].hash # e.hash
  PROVE  Append(l, e) \in Lists /\ N!ToSet(Append(l, e)) \subseteq N!ToSet(l) \cup {e}
<1> DEFINE a == Append(l, e)
           m == Len(l)
<1>1. l \in Seq(Heard) /\ m \in Nat /\ DOMAIN l = 1 .. m /\ kMax \in Nat
      /\ \A i, j \in 1 .. m : l[i].hash = l[j].hash => i = j
  BY NamesAssumption DEF Lists
<1>2. a \in Seq(Heard) /\ Len(a) = m + 1 /\ DOMAIN a = 1 .. m + 1 /\ a[m + 1] = e
      /\ \A i \in 1 .. m : a[i] = l[i]
  BY <1>1, AppendProperties, LenProperties
<1> HIDE DEF a, m
<1>3. \A i \in 1 .. m + 1 : i = m + 1 \/ i \in 1 .. m
  BY <1>1
<1>4. \A i \in 1 .. m : l[i].hash # e.hash
  BY <1>1
<1>5. \A i, j \in 1 .. m + 1 : a[i].hash = a[j].hash => i = j
  BY <1>1, <1>2, <1>3, <1>4
<1>6. m + 1 <= kMax
  BY <1>1 DEF m
<1>7. a \in Lists
  BY <1>2, <1>5, <1>6 DEF Lists
<1>8. N!ToSet(a) \subseteq N!ToSet(l) \cup {e}
  BY <1>1, <1>2, <1>3 DEF N!ToSet
<1> QED
  BY <1>7, <1>8 DEF a

LEMMA TakesPlace ==
  ASSUME NEW l \in Lists, NEW e \in Heard, NEW k \in 1 .. Len(l), \A i \in DOMAIN l : i # k => l[i].hash # e.hash
  PROVE  [l EXCEPT ![k] = e] \in Lists /\ N!ToSet([l EXCEPT ![k] = e]) \subseteq N!ToSet(l) \cup {e}
<1> DEFINE a == [l EXCEPT ![k] = e]
           m == Len(l)
<1>1. l \in Seq(Heard) /\ m \in Nat /\ DOMAIN l = 1 .. m /\ m <= kMax
      /\ \A i, j \in 1 .. m : l[i].hash = l[j].hash => i = j
  BY DEF Lists
<1>2. a \in Seq(Heard) /\ Len(a) = m /\ DOMAIN a = 1 .. m
      /\ \A i \in 1 .. m : a[i] = IF i = k THEN e ELSE l[i]
  BY <1>1, ExceptSeq, LenProperties
<1> HIDE DEF a, m
<1>3. \A i \in 1 .. m : i # k => l[i].hash # e.hash
  BY <1>1
<1>4. \A i, j \in 1 .. m : a[i].hash = a[j].hash => i = j
  BY <1>1, <1>2, <1>3
<1>5. a \in Lists
  BY <1>1, <1>2, <1>4 DEF Lists
<1>6. N!ToSet(a) \subseteq N!ToSet(l) \cup {e}
  BY <1>1, <1>2 DEF N!ToSet
<1> QED
  BY <1>5, <1>6 DEF a

LEMMA Renamed ==
  ASSUME NEW l \in Lists, NEW e \in Heard, \E i \in DOMAIN l : l[i].hash = e.hash,
         NEW c \in [DOMAIN l -> Heard], \A i \in DOMAIN l : c[i] = IF l[i].hash = e.hash THEN e ELSE l[i]
  PROVE  c \in Lists /\ N!ToSet(c) \subseteq N!ToSet(l) \cup {e}
<1>1. PICK k \in DOMAIN l : l[k].hash = e.hash
  OBVIOUS
<1>2. l \in Seq(Heard) /\ Len(l) \in Nat /\ DOMAIN l = 1 .. Len(l)
      /\ \A i, j \in 1 .. Len(l) : l[i].hash = l[j].hash => i = j
  BY DEF Lists
<1>3. \A i \in DOMAIN l : l[i].hash = e.hash <=> i = k
  BY <1>1, <1>2
<1>4. c = [l EXCEPT ![k] = e]
  <2>1. l = [i \in DOMAIN l |-> l[i]]
    BY <1>2, LenProperties
  <2> QED
    BY <1>1, <1>3, <2>1
<1>5. \A i \in DOMAIN l : i # k => l[i].hash # e.hash
  BY <1>1, <1>2
<1>6. k \in 1 .. Len(l)
  BY <1>1, <1>2
<1>7. [l EXCEPT ![k] = e] \in Lists /\ N!ToSet([l EXCEPT ![k] = e]) \subseteq N!ToSet(l) \cup {e}
  BY <1>5, <1>6, TakesPlace
<1> QED
  BY <1>4, <1>7

LEMMA RememberMakes ==
  ASSUME KeptTypes, N!remember, NEW e \in Heard, e = rns.what
  PROVE  sCache' \in Lists /\ N!ToSet(sCache') \subseteq N!ToSet(sCache) \cup {e} /\ sNext' \in 0 .. kMax - 1
<1>1. sCache \in Lists /\ sNext \in 0 .. kMax - 1 /\ kMax \in Nat \ {0}
  BY NamesAssumption DEF KeptTypes
<1>2. Len(sCache) \in Nat /\ Len(sCache) <= kMax /\ DOMAIN sCache = 1 .. Len(sCache)
  BY <1>1 DEF Lists
<1>3. CASE N!At(e.hash) = {} /\ Len(sCache) < kMax /\ sCache' = Append(sCache, e) /\ sNext' = sNext
  <2>1. \A i \in DOMAIN sCache : sCache[i].hash # e.hash
    BY <1>3 DEF N!At
  <2> QED
    BY <1>1, <1>3, <2>1, ComesLast
<1>4. CASE N!At(e.hash) = {} /\ Len(sCache) = kMax /\ sCache' = [sCache EXCEPT ![sNext + 1] = e]
           /\ sNext' = (sNext + 1) % kMax
  <2>1. \A i \in DOMAIN sCache : sCache[i].hash # e.hash
    BY <1>4 DEF N!At
  <2>2. sNext + 1 \in 1 .. Len(sCache)
    BY <1>1, <1>4
  <2>3. sCache' \in Lists /\ N!ToSet(sCache') \subseteq N!ToSet(sCache) \cup {e}
    BY <1>1, <1>4, <2>1, <2>2, TakesPlace
  <2>4. sNext' \in 0 .. kMax - 1
    BY <1>1, <1>4
  <2> QED
    BY <2>3, <2>4
<1>5. CASE N!At(e.hash) # {} /\ sCache' = [i \in DOMAIN sCache |-> IF i \in N!At(e.hash) THEN e ELSE sCache[i]]
           /\ sNext' = sNext
  <2>1. N!At(e.hash) = {i \in DOMAIN sCache : sCache[i].hash = e.hash}
    BY DEF N!At
  <2>2. /\ sCache' \in [DOMAIN sCache -> Heard]
        /\ \A i \in DOMAIN sCache : sCache'[i] = IF sCache[i].hash = e.hash THEN e ELSE sCache[i]
        /\ \E i \in DOMAIN sCache : sCache[i].hash = e.hash
    <3>1. \A i \in DOMAIN sCache : sCache[i] \in Heard
      BY <1>1, <1>2 DEF Lists
    <3> QED
      BY <1>5, <2>1, <3>1
  <2>3. sCache' \in Lists /\ N!ToSet(sCache') \subseteq N!ToSet(sCache) \cup {e}
    BY <1>1, <1>5, <2>1, <2>2, Renamed
  <2> QED
    BY <1>1, <1>5, <2>3
<1> QED
  BY <1>3, <1>4, <1>5 DEF N!remember

LEMMA IdleIs ==
  /\ N!Idle \in OfRns /\ N!Idle \in OfUi /\ N!Idle.at = "idle" /\ N!Idle.scratch = << >>
  /\ \A a \in {"remove", "restart"} : [N!Idle EXCEPT !.at = a] \in OfUi /\ [N!Idle EXCEPT !.at = a].at = a
BY NoNames DEF N!Idle, OfRns, OfUi, Anything

LEMMA KeptInit == N!Init => KeptInv
<1> SUFFICES ASSUME N!Init PROVE KeptInv
  OBVIOUS
<1>1. sCache = << >> /\ file = << >> /\ sNext = 0 /\ ~sLoaded /\ rns = N!Idle /\ ui = N!Idle /\ gone = {}
      /\ ~raced /\ ~behind
      /\ raced \in BOOLEAN /\ behind \in BOOLEAN /\ sLoaded \in BOOLEAN
  BY DEF N!Init
<1>2. KeptTypes
  BY <1>1, NoNames, IdleIs, NamesAssumption DEF KeptTypes
<1>3. N!StaysErased
  BY <1>1, NoNames DEF N!StaysErased
<1> QED
  BY <1>1, <1>2, <1>3, IdleIs DEF KeptInv

\* Where a task goes, and what it holds.
LEMMA RnsGoes ==
  ASSUME rns \in OfRns, NEW a \in {"idle", "load", "read", "remember", "open", "copy", "close"},
         rns' = [rns EXCEPT !.at = a]
  PROVE  rns' \in OfRns /\ rns'.at = a /\ rns'.what = rns.what /\ rns'.scratch = rns.scratch
BY DEF OfRns

LEMMA RnsTakes ==
  ASSUME rns \in OfRns, NEW a \in {"idle", "load", "read", "remember", "open", "copy", "close"}, NEW l \in Lists,
         rns' = [rns EXCEPT !.at = a, !.scratch = l]
  PROVE  rns' \in OfRns /\ rns'.at = a /\ rns'.what = rns.what /\ rns'.scratch = l
BY DEF OfRns

LEMMA UiTakes ==
  ASSUME ui \in OfUi, NEW l \in Lists, ui' = [ui EXCEPT !.at = "read", !.scratch = l]
  PROVE  ui' \in OfUi /\ ui'.at = "read" /\ ui'.scratch = l
BY DEF OfUi

LEMMA KeptNext == KeptInv /\ [N!Next]_N!vars => KeptInv'
<1> SUFFICES ASSUME KeptInv, [N!Next]_N!vars PROVE KeptInv'
  OBVIOUS
<1>a. KeptTypes /\ N!StaysErased /\ rns \in OfRns /\ ui \in OfUi
  BY DEF KeptInv, KeptTypes
<1>b. rns \in OfRns /\ sCache \in Lists /\ file \in Lists /\ rns.scratch \in Lists
  BY DEF KeptInv, KeptTypes, OfRns
<1>1. ASSUME NEW e \in Heard, N!received_announce(e)
      PROVE  KeptInv'
  <2>1. rns' = [at |-> "load", what |-> e, scratch |-> << >>] /\ rns.at = "idle"
        /\ UNCHANGED <<N!names, file, ui, gone, raced, faults, behind>>
    BY <1>1 DEF N!received_announce
  <2>2. rns' \in OfRns /\ rns'.at = "load" /\ rns'.what = e
    BY <2>1, NoNames DEF OfRns, Anything
  <2> QED
    BY <2>1, <2>2 DEF KeptInv, KeptTypes, N!StaysErased, N!names
<1>2. CASE N!loadRns
  <2>0. UNCHANGED <<file, ui, gone, raced, behind>>
    BY <1>2 DEF N!loadRns
  <2>1. CASE rns.at = "load" /\ sLoaded
    <3>1. rns' = [rns EXCEPT !.at = "remember"] /\ UNCHANGED <<sCache, sNext, sLoaded>>
      BY <1>2, <2>1 DEF N!loadRns, N!Loads, N!names
    <3>2. rns' \in OfRns /\ rns'.at = "remember" /\ rns'.what = rns.what
      BY <1>b, <3>1, RnsGoes
    <3>3. N!StaysErased'
      BY <1>a, <2>0, <3>1 DEF N!StaysErased
    <3>4. KeptTypes'
      BY <1>a, <2>0, <2>1, <3>1, <3>2 DEF KeptInv, KeptTypes
    <3> QED
      BY <2>0, <2>1, <3>1, <3>2, <3>3, <3>4 DEF KeptInv
  <2>2. CASE rns.at = "load" /\ ~sLoaded
    <3>1. rns' = [rns EXCEPT !.at = "read", !.scratch = file] /\ UNCHANGED <<sCache, sNext, sLoaded>>
      BY <1>2, <2>2 DEF N!loadRns, N!Loads, N!names
    <3>2. rns' \in OfRns /\ rns'.at = "read" /\ rns'.what = rns.what /\ rns'.scratch = file
      BY <1>b, <3>1, RnsTakes
    <3>3. N!StaysErased'
      BY <1>a, <2>0, <3>1 DEF N!StaysErased
    <3>4. KeptTypes'
      BY <1>a, <2>0, <2>2, <3>1, <3>2 DEF KeptInv, KeptTypes
    <3> QED
      BY <2>0, <2>2, <3>1, <3>2, <3>3, <3>4 DEF KeptInv
  <2>3. CASE rns.at = "read"
    <3>1. rns' = [rns EXCEPT !.at = "remember", !.scratch = << >>] /\ N!Published(rns)
      BY <1>2, <2>3 DEF N!loadRns
    <3>2. rns' \in OfRns /\ rns'.at = "remember" /\ rns'.what = rns.what
      BY <1>b, <3>1, RnsTakes, NoNames
    <3>3. CASE sLoaded
      <4>1. UNCHANGED <<sCache, sNext, sLoaded>>
        BY <3>1, <3>3 DEF N!Published, N!names
      <4>2. N!StaysErased'
        BY <1>a, <2>0, <4>1 DEF N!StaysErased
      <4>3. KeptTypes'
        BY <1>a, <2>0, <2>3, <3>2, <4>1 DEF KeptInv, KeptTypes
      <4> QED
        BY <2>0, <2>3, <3>2, <3>3, <4>1, <4>2, <4>3 DEF KeptInv
    <3>4. CASE ~sLoaded
      <4>1. sLoaded' = TRUE /\ sCache' = file /\ sNext' = Len(file) % kMax /\ ui.at # "remove"
        BY <2>3, <3>1, <3>4 DEF N!Published, KeptInv
      <4>2. sNext' \in 0 .. kMax - 1
        BY <1>a, <4>1, NamesAssumption DEF KeptTypes, Lists
      <4> QED
        BY <2>0, <2>3, <3>2, <4>1, <4>2 DEF KeptInv, KeptTypes, N!StaysErased
    <3> QED
      BY <3>3, <3>4
  <2> QED
    BY <1>2, <2>1, <2>2, <2>3 DEF N!loadRns
<1>3. CASE N!remember
  <2>1. rns.at = "remember" /\ rns.what \in Heard /\ sLoaded /\ sLoaded' = sLoaded
        /\ rns' = (IF sCache' # sCache THEN [rns EXCEPT !.at = "open"] ELSE N!Idle)
        /\ gone' = gone \ {rns.what} /\ UNCHANGED <<file, ui, raced, behind>>
    BY <1>3 DEF N!remember, KeptInv, KeptTypes
  <2>2. sCache' \in Lists /\ N!ToSet(sCache') \subseteq N!ToSet(sCache) \cup {rns.what} /\ sNext' \in 0 .. kMax - 1
    BY <1>3, <1>a, <2>1, RememberMakes
  <2>3. N!StaysErased'
    BY <1>a, <2>1, <2>2 DEF N!StaysErased
  <2>4. CASE sCache' # sCache
    <3>1. rns' \in OfRns /\ rns'.at = "open" /\ rns'.what = rns.what
      BY <1>b, <2>1, <2>4, RnsGoes
    <3> QED
      BY <2>1, <2>2, <2>3, <3>1 DEF KeptInv, KeptTypes
  <2>5. CASE sCache' = sCache
    BY <2>1, <2>2, <2>3, <2>5, IdleIs DEF KeptInv, KeptTypes
  <2> QED
    BY <2>4, <2>5
<1>4. CASE N!openSave
  <2>1. rns.at = "open" /\ UNCHANGED <<N!names, file, ui, gone, raced>>
        /\ \/ rns' = [rns EXCEPT !.at = "copy"] /\ behind' = behind
           \/ rns' = N!Idle /\ behind' = TRUE
    BY <1>4 DEF N!openSave
  <2>2. rns' \in OfRns /\ ((rns'.at = "copy" /\ rns'.what = rns.what
        /\ behind' = behind) \/ (rns'.at = "idle" /\ behind' = TRUE))
    <3>1. CASE rns' = [rns EXCEPT !.at = "copy"] /\ behind' = behind
      <4>1. rns' \in OfRns /\ rns'.at = "copy" /\ rns'.what = rns.what
        BY <1>b, <3>1, RnsGoes
      <4> QED
        BY <3>1, <4>1
    <3>2. CASE rns' = N!Idle /\ behind' = TRUE
      BY <3>2, IdleIs
    <3> QED
      BY <2>1, <3>1, <3>2
  <2>3. UNCHANGED <<sCache, sNext, sLoaded>>
    BY <2>1 DEF N!names
  <2>4. KeptTypes'
    BY <1>a, <2>1, <2>2, <2>3 DEF KeptInv, KeptTypes
  <2>5. N!StaysErased'
    BY <1>a, <2>1, <2>3 DEF N!StaysErased
  <2> QED
    BY <2>1, <2>2, <2>3, <2>4, <2>5 DEF KeptInv
<1>5. CASE N!copySave
  <2>1. rns.at = "copy" /\ rns' = [rns EXCEPT !.at = "close", !.scratch = sCache]
        /\ UNCHANGED <<N!names, file, ui, gone, raced, behind>>
    BY <1>5 DEF N!copySave
  <2>2. rns' \in OfRns /\ rns'.at = "close" /\ rns'.what = rns.what /\ rns'.scratch = sCache
    BY <1>b, <2>1, RnsTakes
  <2> QED
    BY <2>1, <2>2 DEF KeptInv, KeptTypes, N!StaysErased, N!names
<1>6. CASE N!closeSave
  <2>1. rns.at = "close" /\ file' = rns.scratch /\ rns' = N!Idle /\ behind' = FALSE
        /\ UNCHANGED <<N!names, ui, gone, raced>>
    BY <1>6 DEF N!closeSave
  <2>2. rns' \in OfRns /\ rns'.at = "idle" /\ file' \in Lists
    BY <1>b, <2>1, IdleIs
  <2>3. ~raced => file' = sCache
    BY <2>1 DEF KeptInv
  <2>4. N!StaysErased'
    BY <1>a, <2>1, <2>3 DEF N!StaysErased, N!names
  <2> QED
    BY <2>1, <2>2, <2>3, <2>4 DEF KeptInv, KeptTypes, N!names
<1>7. CASE \E e \in Heard : N!peerLabel(e.hash)
  <2>1. ui' = [ui EXCEPT !.at = "read", !.scratch = file] /\ ui.at = "idle" /\ ~sLoaded
        /\ UNCHANGED <<N!names, file, rns, gone, raced, behind>>
    BY <1>7 DEF N!peerLabel, N!Loads
  <2>2. ui' \in OfUi /\ ui'.at = "read" /\ ui'.scratch = file
    BY <1>a, <1>b, <2>1, UiTakes
  <2> QED
    BY <2>1, <2>2 DEF KeptInv, KeptTypes, N!StaysErased, N!names
<1>8. CASE N!lookup
  <2>1. ui.at = "read" /\ N!Published(ui) /\ ui' = N!Idle /\ UNCHANGED <<file, rns, gone, raced, behind>>
    BY <1>8 DEF N!lookup
  <2>2. ui' \in OfUi /\ ui'.at = "idle"
    BY <2>1, IdleIs
  <2>3. CASE sLoaded
    BY <2>1, <2>2, <2>3 DEF KeptInv, KeptTypes, N!StaysErased, N!names, N!Published
  <2>4. CASE ~sLoaded
    <3>1. sLoaded' = TRUE /\ sCache' = file /\ sNext' = Len(file) % kMax
      BY <2>1, <2>4 DEF N!Published, KeptInv
    <3>2. sNext' \in 0 .. kMax - 1
      BY <1>a, <3>1, NamesAssumption DEF KeptTypes, Lists
    <3> QED
      BY <2>1, <2>2, <2>4, <3>1, <3>2 DEF KeptInv, KeptTypes, N!StaysErased
  <2> QED
    BY <2>3, <2>4
<1>9. CASE N!wipe
  <2>1. /\ ui.at = "idle" /\ ui' = [N!Idle EXCEPT !.at = "remove"]
        /\ sCache' = << >> /\ sNext' = 0 /\ sLoaded' = TRUE
        /\ raced' = (raced \/ rns.at \in {"copy", "close"})
        /\ UNCHANGED <<file, rns, behind>>
    BY <1>9 DEF N!wipe
  <2>2. ui' \in OfUi /\ ui'.at = "remove"
    BY <2>1, IdleIs
  <2>3. KeptTypes'
    BY <1>a, <2>1, <2>2, NoNames, NamesAssumption DEF KeptTypes
  <2>4. N!StaysErased'
    BY <2>1, <2>2, NoNames DEF N!StaysErased
  <2> QED
    BY <2>1, <2>2, <2>3, <2>4 DEF KeptInv
<1>10. CASE N!removeFile
  <2>1. /\ ui.at = "remove" /\ ui' = [N!Idle EXCEPT !.at = "restart"]
        /\ file' = << >> \/ (file' = file /\ rns.at \in {"copy", "close"})
        /\ raced' = (raced \/ rns.at \in {"copy", "close"})
        /\ behind' = (sCache # << >>)
        /\ UNCHANGED <<N!names, rns, gone>>
    BY <1>10 DEF N!removeFile
  <2>2. ui' \in OfUi /\ ui'.at = "restart" /\ sLoaded
    BY <2>1, IdleIs DEF KeptInv
  <2>3. KeptTypes'
    BY <1>a, <2>1, <2>2, NoNames DEF KeptTypes, N!names
  <2>4. N!StaysErased'
    BY <1>a, <2>1, <2>2, NoNames DEF N!StaysErased, N!names
  <2> QED
    BY <2>1, <2>2, <2>3, <2>4 DEF KeptInv, N!names
<1>11. CASE N!Restart
  <2>1. /\ sCache' = << >> /\ sNext' = 0 /\ sLoaded' = FALSE
        /\ rns' = N!Idle /\ ui' = N!Idle /\ behind' = FALSE
        /\ gone' = (IF ui.at = "remove" THEN {} ELSE gone)
        /\ UNCHANGED <<file, raced>>
    BY <1>11 DEF N!Restart
  <2>4. rns' \in OfRns /\ ui' \in OfUi /\ rns'.at = "idle"
    BY <2>1, IdleIs
  <2>5. sCache' \in Lists /\ sNext' \in 0 .. kMax - 1
    BY <2>1, NoNames, NamesAssumption
  <2>2. KeptTypes'
    BY <1>a, <2>1, <2>4, <2>5 DEF KeptTypes
  <2>3. N!StaysErased'
    BY <1>a, <2>1, NoNames DEF N!StaysErased
  <2> QED
    BY <2>1, <2>2, <2>3, IdleIs DEF KeptInv
<1>12. CASE UNCHANGED N!vars
  BY <1>12 DEF N!vars, N!names, KeptInv, KeptTypes, N!StaysErased
<1> QED
  BY <1>1, <1>2, <1>3, <1>4, <1>5, <1>6, <1>7, <1>8, <1>9, <1>10, <1>11, <1>12 DEF N!Next, N!Transport, N!Glass

LEMMA TableNext == TableInv /\ [N!Next]_N!vars => TableInv'
<1> SUFFICES ASSUME TableInv, [N!Next]_N!vars PROVE TableInv'
  OBVIOUS
<1>1. ASSUME NEW e \in Heard, N!received_announce(e)
      PROVE  TableInv'
  <2>1. e.hash \in Hashes /\ e.hash # NoOne /\ N!seen(e.hash)
    BY <1>1, NamesAssumption DEF N!received_announce, Hashes
  <2> QED
    BY <2>1, SeenKeeps
<1>2. CASE UNCHANGED N!table
  BY <1>2 DEF N!table, TableInv
<1>3. CASE N!Restart
  <2>1. recent' = << >> /\ Len(recent') = 0 /\ DOMAIN recent' = 1 .. 0
        /\ n' = [i \in N!Slots |-> [hash |-> NoOne, since |-> 0]]
    BY <1>3 DEF N!Restart
  <2> QED
    BY <2>1, NamesAssumption DEF TableInv, N!Slots, Hashes
<1> QED
  BY <1>1, <1>2, <1>3
     DEF N!Next, N!Transport, N!Glass, N!vars, N!loadRns, N!remember, N!openSave, N!copySave, N!closeSave,
          N!peerLabel, N!lookup, N!wipe, N!removeFile

\* Of PeerNames.cpp and Neighbors.cpp: however announces, saves, lookups, a
\* wipe and restarts fall, the table has those heard last, what was saved is in
\* the file, and a name that was erased comes back from no copy.
THEOREM NamesAlwaysTrue == N!Spec => []NamesTrue
<1>1. KeptInv => N!NamesKept /\ N!StaysErased
  BY DEF KeptInv, KeptTypes, N!NamesKept, Lists
<1> QED
  BY <1>1, TableInit, KeptInit, TableNext, KeptNext, TableSaysNewest, PTL DEF N!Spec, NamesTrue
-----------------------------------------------------------------------------
(* Announces: the clock goes round at W, so a booking is placed by its      *)
(* distance from now.                                                      *)

Time == 0 .. W - 1
\* How far ahead a time is, less than nothing when it is past.
Until(t) == A!Signed(t, now)

ATypes ==
  /\ {now, announcesSNext, sFloor} \subseteq Time
  /\ interval \in Intervals \cup {0} /\ sBookedFor \in Intervals \cup {0}
  /\ up \in 0 .. W /\ off \in 0 .. MaxOff

\* The next announce is overdue by no more than announces were off, and no
\* further ahead than what it was booked for, or the start, allow.
Booking ==
  /\ 0 - off <= Until(announcesSNext)
  /\ Until(announcesSNext) <= BootDelay \/ (sBookedFor # 0 /\ Until(announcesSNext) <= sBookedFor + Spread)
Floored == up <= LastPeer => Until(sFloor) = BootDelay - up

\* Whatever the interval is changed to, what the last pass booked is ahead; what
\* it was booked for is known from the first pass with announces on.
Ahead == at = "up" /\ passed /\ off = 0 /\ sBookedFor # 0 =>
           Until(announcesSNext) \in 1 .. (sBookedFor + Spread) \cup 1 .. BootDelay
Unbooked ==
  /\ at \in {"off", "second", "keyed"} => sBookedFor = 0
  /\ at = "up" /\ ~passed /\ off = 0 => sBookedFor = 0

BookInv == ATypes /\ (at = "up" => Booking /\ Floored) /\ Ahead /\ Unbooked

-----------------------------------------------------------------------------
LEMMA AOneTurn ==
  /\ \A x \in Int : x % W \in Time
  /\ \A x \in Time : x % W = x
  /\ \A x \in W .. 2 * W - 1 : x % W = x - W
  /\ \A x \in -W .. -1 : x % W = x + W
BY ClockAssumption DEF Time

LEMMA Half == W \div 2 \in Nat /\ 2 * (W \div 2) <= W /\ W <= 2 * (W \div 2) + 1
BY ClockAssumption

LEMMA ASignedOf ==
  ASSUME NEW x \in Time, NEW y \in Time
  PROVE  /\ A!Signed(x, y) \in Int
         /\ A!Signed(x, y) < W \div 2 /\ A!Signed(x, y) >= W \div 2 - W
         /\ \/ x = y + A!Signed(x, y)
            \/ x = y + A!Signed(x, y) + W
            \/ x = y + A!Signed(x, y) - W
<1> DEFINE gap == (x - y) % W
<1>1. /\ gap \in Time
      /\ x - y >= 0 => gap = x - y
      /\ x - y < 0 => gap = x - y + W
  <2>1. x - y \in Int
    BY DEF Time
  <2>2. x - y >= 0 => x - y \in Time
    BY ClockAssumption DEF Time
  <2>3. x - y < 0 => x - y \in -W .. -1
    BY ClockAssumption DEF Time
  <2> QED
    BY <2>1, <2>2, <2>3, AOneTurn
<1>2. A!Signed(x, y) = IF gap < W \div 2 THEN gap ELSE gap - W
  BY DEF A!Signed
<1> HIDE DEF gap
<1> QED
  BY <1>1, <1>2, Half, ClockAssumption DEF Time

\* A distance of less than half a turn is determined by where it leads.
LEMMA ASignedIs ==
  ASSUME NEW x \in Time, NEW y \in Time, NEW e \in Int,
         0 - (W \div 2) <= e, e < W \div 2,
         x = y + e \/ x = y + e + W \/ x = y + e - W
  PROVE  A!Signed(x, y) = e
<1> DEFINE s == A!Signed(x, y)
<1>1. /\ s \in Int
      /\ s < W \div 2 /\ s >= W \div 2 - W
      /\ x = y + s \/ x = y + s + W \/ x = y + s - W
  BY ASignedOf
<1> HIDE DEF s
<1>2. s - e < W /\ e - s < W
  BY <1>1, Half, ClockAssumption
<1>3. s = e \/ s = e + W \/ s = e - W \/ s = e + 2 * W \/ s = e - 2 * W
  BY <1>1, ClockAssumption DEF Time
<1>4. s = e
  BY <1>1, <1>2, <1>3, Half, ClockAssumption
<1> QED
  BY <1>4 DEF s

\* A time so much ahead is at that distance.
LEMMA AAhead ==
  ASSUME NEW y \in Time, NEW k \in Int, 0 - (W \div 2) <= k, k < W \div 2
  PROVE  (y + k) % W \in Time /\ A!Signed((y + k) % W, y) = k
<1> DEFINE z == y + k
           r == z % W
<1>1. r \in Time /\ (r = z \/ r = z - W \/ r = z + W)
  <2>1. z \in Time \/ z \in W .. 2 * W - 1 \/ z \in -W .. -1
    BY Half, ClockAssumption DEF Time
  <2>2. z \in Int
    BY DEF Time
  <2> HIDE DEF z
  <2> QED
    BY <2>1, <2>2, AOneTurn
<1> HIDE DEF r
<1>2. A!Signed(r, y) = k
  BY <1>1, ASignedIs, ClockAssumption DEF Time
<1> QED
  BY <1>1, <1>2 DEF r

\* Distances subtract.
LEMMA ABetween ==
  ASSUME NEW x \in Time, NEW y \in Time, NEW z \in Time,
         0 - (W \div 2) <= A!Signed(x, z) - A!Signed(y, z), A!Signed(x, z) - A!Signed(y, z) < W \div 2
  PROVE  A!Signed(x, y) = A!Signed(x, z) - A!Signed(y, z)
<1> DEFINE e == A!Signed(x, z)  f == A!Signed(y, z)
<1>1. /\ e \in Int /\ (x = z + e \/ x = z + e + W \/ x = z + e - W)
      /\ f \in Int /\ (y = z + f \/ y = z + f + W \/ y = z + f - W)
      /\ 0 - (W \div 2) <= e - f /\ e - f < W \div 2
  BY ASignedOf
<1> HIDE DEF e, f
<1>2. x = y + (e - f) \/ x = y + (e - f) + W \/ x = y + (e - f) - W
      \/ x = y + (e - f) + 2 * W \/ x = y + (e - f) - 2 * W
  BY <1>1, ClockAssumption DEF Time
<1>3. x = y + (e - f) \/ x = y + (e - f) + W \/ x = y + (e - f) - W
  BY <1>1, <1>2, Half, ClockAssumption DEF Time
<1>4. e - f \in Int
  BY <1>1
<1>5. A!Signed(x, y) = e - f
  BY <1>1, <1>3, <1>4, ASignedIs
<1> QED
  BY <1>5 DEF e, f

LEMMA AHere == ASSUME NEW y \in Time PROVE A!Signed(y, y) = 0
BY ASignedIs, Half, HorizonAssumption, ClockAssumption DEF Time
-----------------------------------------------------------------------------
LEMMA BookInit == A!Init => BookInv
<1>1. W \in Nat \ {0} /\ MaxOff \in Nat
  BY ClockAssumption
<1> QED
  BY <1>1 DEF A!Init, BookInv, ATypes, Time, Ahead, Unbooked

LEMMA StartBooks ==
  ASSUME BookInv, A!start
  PROVE  BookInv'
<1> DEFINE t == (now + BootDelay) % W
<1>1. /\ at = "keyed" /\ at' = "up" /\ sFloor' = t /\ announcesSNext' = t /\ up' = 0 /\ passed' = FALSE
      /\ UNCHANGED <<now, off, interval, sBookedFor>>
  BY DEF A!start
<1>2. t \in Time /\ A!Signed(t, now) = BootDelay
  <2>1. now \in Time
    BY DEF BookInv, ATypes
  <2>2. BootDelay \in Int /\ 0 - (W \div 2) <= BootDelay /\ BootDelay < W \div 2
    BY HorizonAssumption, ClockAssumption, Half
  <2> QED
    BY <2>1, <2>2, AAhead
<1> HIDE DEF t
<1>3. Until(announcesSNext)' = BootDelay /\ Until(sFloor)' = BootDelay
  BY <1>1, <1>2 DEF Until, A!Signed
<1>4. Booking' /\ Floored'
  BY <1>1, <1>3, ClockAssumption DEF Booking, Floored, BookInv, ATypes
<1>5. ATypes'
  BY <1>1, <1>2, ClockAssumption DEF BookInv, ATypes
<1> QED
  BY <1>1, <1>4, <1>5 DEF BookInv, Ahead, Unbooked

LEMMA CutBooks ==
  ASSUME BookInv, A!PowerCut
  PROVE  BookInv'
BY ClockAssumption DEF A!PowerCut, BookInv, ATypes, Time, Ahead, Unbooked

LEMMA SoonBooks ==
  ASSUME BookInv, A!announceSoon
  PROVE  BookInv'
<1> DEFINE soon == (now + PeerDelay) % W
           when == IF A!Signed(soon, sFloor) < 0 THEN sFloor ELSE soon
           e == Until(announcesSNext)
<1>1. /\ at = "up" /\ ~passed /\ up <= LastPeer
      /\ announcesSNext' = IF A!Signed(when, announcesSNext) < 0 THEN when ELSE announcesSNext
      /\ UNCHANGED <<at, now, passed, up, off, interval, sFloor, sBookedFor>>
  BY DEF A!announceSoon, A!clock
<1>2. ATypes /\ Booking /\ Until(sFloor) = BootDelay - up /\ up \in Nat /\ off \in 0 .. MaxOff
  BY <1>1, ClockAssumption DEF BookInv, Floored, ATypes
<1>3. soon \in Time /\ Until(soon) = PeerDelay
  <2>1. now \in Time
    BY <1>2 DEF ATypes
  <2>2. PeerDelay \in Int /\ 0 - (W \div 2) <= PeerDelay /\ PeerDelay < W \div 2
    BY HorizonAssumption, ClockAssumption, Half
  <2> QED
    BY <2>1, <2>2, AAhead DEF Until
<1> HIDE DEF soon
<1>4. A!Signed(soon, sFloor) = PeerDelay - (BootDelay - up)
  <2>1. 0 - (W \div 2) <= PeerDelay - (BootDelay - up) /\ PeerDelay - (BootDelay - up) < W \div 2
    BY <1>1, <1>2, HorizonAssumption, ClockAssumption, Half
  <2> QED
    BY <1>2, <1>3, <2>1, ABetween DEF ATypes, Until
<1>5. /\ when \in Time /\ 0 <= Until(when)
      /\ Until(when) = PeerDelay \/ Until(when) <= BootDelay
      /\ Until(when) \in Int
  BY <1>2, <1>3, <1>4, ClockAssumption DEF ATypes
<1> HIDE DEF when
<1>6. e \in Int /\ e < W \div 2 /\ 0 - off <= e
  BY <1>2, ASignedOf DEF ATypes, Until, Booking
<1>7. A!Signed(when, announcesSNext) = Until(when) - e
  <2>1. 0 - (W \div 2) <= Until(when) - e /\ Until(when) - e < W \div 2
    BY <1>2, <1>5, <1>6, HorizonAssumption, ClockAssumption, Half
  <2> QED
    BY <1>2, <1>5, <2>1, ABetween DEF ATypes, Until
<1>8. /\ announcesSNext' \in Time /\ Until(announcesSNext') \in Int
      /\ 0 - off <= Until(announcesSNext') /\ Until(announcesSNext') <= e
  BY <1>1, <1>2, <1>5, <1>6, <1>7 DEF ATypes
<1>9. Until(announcesSNext)' = Until(announcesSNext') /\ Until(sFloor)' = Until(sFloor)
  BY <1>1 DEF Until, A!Signed
<1>10. Booking'
  BY <1>1, <1>2, <1>6, <1>8, <1>9, ClockAssumption DEF Booking, ATypes
<1> QED
  BY <1>1, <1>2, <1>8, <1>9, <1>10 DEF BookInv, ATypes, Floored, Ahead, Unbooked

\* What a pass finds booked, when announces are on.
LEMMA BookedIs ==
  ASSUME ATypes, Booking, interval # 0
  PROVE  /\ A!Booked \in Time
         /\ Until(A!Booked) \in Int /\ 0 - off <= Until(A!Booked)
         /\ Until(A!Booked) <= interval + Spread \/ Until(A!Booked) <= BootDelay
<1> DEFINE latest == (now + interval) % W
           e == Until(announcesSNext)
<1>1. /\ interval \in Intervals /\ interval \in Nat /\ Spread \in Nat
      /\ off \in 0 .. MaxOff /\ MaxOff \in Nat
      /\ interval + Spread < W \div 2 /\ interval + MaxOff <= W \div 2
  BY HorizonAssumption, ClockAssumption DEF ATypes
<1>2. e \in Int /\ e < W \div 2 /\ 0 - off <= e
  BY ASignedOf DEF ATypes, Until, Booking
<1>3. CASE interval # sBookedFor
  <2>1. latest \in Time /\ Until(latest) = interval
    BY <1>1, AAhead, Half DEF ATypes, Until
  <2> HIDE DEF latest
  <2>2. A!Signed(announcesSNext, latest) = e - interval
    <3>1. 0 - (W \div 2) <= e - interval /\ e - interval < W \div 2
      BY <1>1, <1>2, Half
    <3> QED
      BY <2>1, <3>1, ABetween DEF ATypes, Until
  <2>3. A!Booked = IF e - interval > 0 THEN latest ELSE announcesSNext
    BY <1>3, <2>2 DEF A!Booked, A!clampAnnounceTo, latest
  <2> QED
    BY <1>1, <1>2, <2>1, <2>3 DEF ATypes
<1>4. CASE interval = sBookedFor
  BY <1>2, <1>4 DEF A!Booked, Booking, ATypes
<1> QED
  BY <1>3, <1>4

\* Overdue or not is read right.
LEMMA DueIs ==
  ASSUME ATypes, NEW t \in Time, 0 - MaxOff <= Until(t)
  PROVE  (A!Signed(now, t) >= 0) <=> (Until(t) <= 0)
<1>1. now \in Time /\ A!Signed(now, now) = 0
  BY AHere DEF ATypes
<1>2. Until(t) \in Int /\ Until(t) < W \div 2
  BY <1>1, ASignedOf DEF Until
<1>3. 0 - (W \div 2) <= 0 - Until(t) /\ 0 - Until(t) < W \div 2
  BY <1>2, HorizonAssumption, ClockAssumption, Half
<1>4. A!Signed(now, t) = 0 - Until(t)
  BY <1>1, <1>3, ABetween DEF Until
<1> QED
  BY <1>2, <1>4

\* What an announce books.
LEMMA NextIs ==
  ASSUME ATypes, NEW t \in A!nextAnnounceAt
  PROVE  /\ t \in Time
         /\ interval = 0 => Until(t) = 0
         /\ interval # 0 => Until(t) \in 1 .. interval + Spread
<1>1. CASE interval = 0
  BY <1>1, AHere DEF A!nextAnnounceAt, ATypes, Until
<1>2. CASE interval # 0
  <2>1. PICK jitter \in (0 - Spread) .. Spread : t = (now + interval + jitter) % W
    BY <1>2 DEF A!nextAnnounceAt
  <2> DEFINE k == interval + jitter
  <2>2. /\ interval \in Intervals /\ interval \in Nat /\ Spread \in Nat
        /\ Spread < interval /\ interval + Spread < W \div 2
    BY <1>2, HorizonAssumption, ClockAssumption DEF ATypes
  <2>3. /\ k \in 1 .. interval + Spread /\ k \in Int
        /\ 0 - (W \div 2) <= k /\ k < W \div 2 /\ now \in Time /\ now \in Int
    BY <2>1, <2>2, Half, ClockAssumption DEF ATypes, Time
  <2>4. t = (now + k) % W
    <3>1. now + interval + jitter = now + k
      BY <2>1, <2>2, <2>3
    <3> QED
      BY <2>1, <3>1
  <2> HIDE DEF k
  <2>5. t \in Time /\ Until(t) = k
    BY <2>3, <2>4, AAhead DEF Until
  <2> QED
    BY <1>2, <2>3, <2>5
<1> QED
  BY <1>1, <1>2

LEMMA PassBooks ==
  ASSUME BookInv, A!loop
  PROVE  BookInv'
<1>1. /\ at = "up" /\ ~passed /\ passed'
      /\ sBookedFor' = IF interval # 0 THEN interval ELSE sBookedFor
      /\ off' = IF interval # 0 THEN 0 ELSE off
      /\ UNCHANGED <<at, now, up, interval, sFloor>>
      /\ IF A!Forced \/ (interval # 0 /\ A!Signed(now, A!Booked) >= 0)
         THEN announcesSNext' \in A!nextAnnounceAt ELSE announcesSNext' = A!Booked
  BY DEF A!loop, A!Announce
<1>2. ATypes /\ Booking /\ Floored /\ off \in 0 .. MaxOff /\ BootDelay \in Nat /\ Spread \in Nat
  BY <1>1, ClockAssumption DEF BookInv, ATypes
<1>3. Until(announcesSNext') = Until(announcesSNext)' /\ Until(sFloor)' = Until(sFloor)
  BY <1>1 DEF Until, A!Signed
<1>4. ASSUME interval # 0
      PROVE  /\ announcesSNext' \in Time
             /\ Until(announcesSNext') \in 1 .. interval + Spread \cup 1 .. BootDelay
  <2>1. CASE announcesSNext' \in A!nextAnnounceAt
    BY <1>2, <1>4, <2>1, NextIs
  <2>2. CASE announcesSNext' = A!Booked /\ ~(A!Signed(now, A!Booked) >= 0)
    <3>1. /\ A!Booked \in Time
          /\ Until(A!Booked) \in Int /\ 0 - MaxOff <= Until(A!Booked)
          /\ Until(A!Booked) <= interval + Spread \/ Until(A!Booked) <= BootDelay
      BY <1>2, <1>4, BookedIs, ClockAssumption
    <3>2. Until(A!Booked) > 0
      BY <1>2, <2>2, <3>1, DueIs
    <3> QED
      BY <1>2, <2>2, <3>1, <3>2, ClockAssumption DEF ATypes
  <2> QED
    BY <1>1, <1>4, <2>1, <2>2
<1>5. ASSUME interval = 0
      PROVE  /\ announcesSNext' \in Time
             /\ announcesSNext' = announcesSNext \/ Until(announcesSNext') = 0
  <2>1. CASE announcesSNext' \in A!nextAnnounceAt
    BY <1>2, <1>5, <2>1, NextIs
  <2>2. CASE announcesSNext' = A!Booked
    BY <1>2, <1>5, <2>2 DEF A!Booked, ATypes
  <2> QED
    BY <1>1, <1>5, <2>1, <2>2
<1>6. ATypes'
  BY <1>1, <1>2, <1>4, <1>5, ClockAssumption DEF ATypes
<1>7. Booking'
  <2>1. CASE interval # 0
    <3>1. /\ Until(announcesSNext') \in Int /\ 0 < Until(announcesSNext')
          /\ Until(announcesSNext') <= BootDelay \/ Until(announcesSNext') <= interval + Spread
          /\ interval \in Nat
      BY <1>2, <1>4, <2>1, ClockAssumption DEF ATypes
    <3> QED
      BY <1>1, <1>3, <2>1, <3>1 DEF Booking
  <2>2. CASE interval = 0
    BY <1>1, <1>2, <1>3, <1>5, <2>2 DEF Booking
  <2> QED
    BY <2>1, <2>2
<1>8. Ahead' /\ Unbooked'
  BY <1>1, <1>2, <1>3, <1>4 DEF Ahead, Unbooked, BookInv
<1> QED
  BY <1>1, <1>2, <1>3, <1>6, <1>7, <1>8 DEF BookInv, Floored

LEMMA TickBooks ==
  ASSUME BookInv, A!Tick
  PROVE  BookInv'
<1>1. /\ at = "up" /\ passed' = FALSE /\ off < MaxOff /\ off' = off + 1
      /\ now' = (now + 1) % W /\ up' = IF up < W THEN up + 1 ELSE up
      /\ UNCHANGED <<at, interval, announcesSNext, sFloor, sBookedFor>>
  BY DEF A!Tick, A!schedule
<1>2. ATypes /\ Booking /\ Floored /\ off \in 0 .. MaxOff /\ MaxOff \in Nat /\ up \in 0 .. W
  BY <1>1, ClockAssumption DEF BookInv, ATypes
<1>3. now' \in Time /\ A!Signed(now', now) = 1
  BY <1>1, <1>2, AAhead, HorizonAssumption, ClockAssumption, Half DEF ATypes
<1>4. ASSUME NEW t \in Time, 0 - (W \div 2) < Until(t)
      PROVE  A!Signed(t, now') = Until(t) - 1
  <2>1. Until(t) \in Int /\ Until(t) < W \div 2
    BY <1>2, <1>4, ASignedOf DEF Until, ATypes
  <2> QED
    BY <1>2, <1>3, <1>4, <2>1, ABetween, Half DEF Until, ATypes
<1>5. Booking'
  <2>1. Until(announcesSNext) \in Int /\ 0 - (W \div 2) < Until(announcesSNext)
    BY <1>1, <1>2, ASignedOf, HorizonAssumption, ClockAssumption, Half DEF Booking, Until, ATypes
  <2>2. Until(announcesSNext)' = Until(announcesSNext) - 1
    BY <1>1, <1>2, <1>4, <2>1 DEF Until, A!Signed, ATypes
  <2> QED
    BY <1>1, <1>2, <2>1, <2>2, ClockAssumption DEF Booking, ATypes
<1>6. Floored'
  <2>1. SUFFICES ASSUME up' <= LastPeer
                 PROVE  Until(sFloor)' = BootDelay - up'
    BY DEF Floored
  <2>2. up < W /\ up <= LastPeer /\ up' = up + 1
    BY <1>1, <1>2, <2>1, HorizonAssumption, ClockAssumption, Half
  <2>3. Until(sFloor) = BootDelay - up /\ 0 - (W \div 2) < Until(sFloor)
    BY <1>2, <2>2, HorizonAssumption, ClockAssumption, Half DEF Floored
  <2>4. Until(sFloor)' = Until(sFloor) - 1
    BY <1>1, <1>2, <1>4, <2>3 DEF Until, A!Signed, ATypes
  <2> QED
    BY <1>2, <2>2, <2>3, <2>4, ClockAssumption
<1> QED
  BY <1>1, <1>2, <1>3, <1>5, <1>6, ClockAssumption DEF BookInv, ATypes, Ahead, Unbooked

LEMMA OthersBook ==
  ASSUME BookInv, [A!Next]_A!vars, ~A!start, ~A!PowerCut, ~A!announceSoon, ~A!loop, ~A!Tick
  PROVE  BookInv'
<1>1. CASE UNCHANGED <<at, now, passed, up, off, announcesSNext, sFloor, sBookedFor, interval>>
  BY <1>1 DEF BookInv, ATypes, Booking, Floored, Until, A!Signed, Ahead, Unbooked
<1>2. CASE \E i \in Intervals \cup {0} : A!SetInterval(i)
  <2>1. /\ interval' \in Intervals \cup {0}
        /\ UNCHANGED <<at, now, passed, up, off, announcesSNext, sFloor, sBookedFor>>
    BY <1>2 DEF A!SetInterval, A!clock, A!schedule
  <2>2. Until(announcesSNext)' = Until(announcesSNext) /\ Until(sFloor)' = Until(sFloor)
    BY <2>1 DEF Until, A!Signed
  <2> QED
    BY <2>1, <2>2 DEF BookInv, ATypes, Booking, Floored, Ahead, Unbooked
<1>3. CASE A!begin \/ A!putSeed \/ A!destroy
  BY <1>3 DEF A!begin, A!putSeed, A!destroy, A!clock, A!schedule, BookInv, ATypes, Ahead, Unbooked
<1>4. CASE A!announceNow \/ UNCHANGED A!vars
  BY <1>1, <1>4 DEF A!vars, A!clock, A!schedule, A!announceNow
<1> QED
  BY <1>2, <1>3, <1>4 DEF A!Next

LEMMA BookNext == BookInv /\ [A!Next]_A!vars => BookInv'
BY StartBooks, CutBooks, SoonBooks, PassBooks, TickBooks, OthersBook

\* The address: what others know is the pair on flash, which is the one in use.
AddressInv ==
  /\ boots \in Nat
  /\ \A k \in told : k = A!flash /\ xPrv # 0 /\ edSeed # 0
  /\ at = "off" => key = <<0, 0>>
  /\ at = "second" => told = {} /\ xPrv # 0 /\ key = <<xPrv, xPrv>>
  /\ at \in {"keyed", "up"} => key = A!flash /\ xPrv # 0 /\ edSeed # 0
  /\ at \in {"off", "second", "keyed", "up", "erased"}
  /\ at = "erased" => told = {}

LEMMA AddressNext == AddressInv /\ [A!Next]_A!vars => AddressInv'
<1> SUFFICES ASSUME AddressInv, [A!Next]_A!vars PROVE AddressInv'
  OBVIOUS
<1> USE DEF AddressInv, A!flash
<1>1. CASE A!begin
  BY <1>1 DEF A!begin, A!stats
<1>2. CASE A!putSeed
  BY <1>2 DEF A!putSeed, A!stats
<1>3. CASE A!start
  BY <1>3 DEF A!start, A!stats
<1>4. CASE A!destroy
  BY <1>4 DEF A!destroy
<1>5. CASE A!PowerCut
  BY <1>5 DEF A!PowerCut
<1>6. CASE A!loop
  BY <1>6 DEF A!loop, A!Announce, A!stats
<1>7. CASE UNCHANGED <<told, A!flash, at, key, boots>>
  BY <1>7
<1>8. CASE (\E i \in Intervals \cup {0} : A!SetInterval(i)) \/ A!announceNow \/ A!announceSoon \/ A!Tick \/ UNCHANGED A!vars
  BY <1>7, <1>8 DEF A!SetInterval, A!announceNow, A!announceSoon, A!Tick, A!stats, A!vars
<1> QED
  BY <1>1, <1>2, <1>3, <1>4, <1>5, <1>6, <1>8 DEF A!Next

\* Of RnsAnnounce.h and RnsTransport.cpp: on a clock that wraps, with intervals
\* set, announces asked for and restarts at any point, the next announce is
\* booked and no further off than it may be, and it is signed by the address
\* that others were told.
THEOREM AnnouncesStand == A!Spec => []Announced
<1>1. A!Init => BookInv /\ AddressInv
  BY BookInit DEF A!Init, AddressInv
<1>2. BookInv => A!BookedAhead
  BY DEF BookInv, Ahead, A!BookedAhead, Until
<1>3. AddressInv => A!SameAddress
  BY DEF AddressInv, A!SameAddress
<1> QED
  BY <1>1, <1>2, <1>3, BookNext, AddressNext, PTL DEF A!Spec, Announced

-----------------------------------------------------------------------------
(* Inbox: the ring on the file and its numbers, and what is remembered of  *)
(* what was taken.                                                         *)

\* A record is in the slot of its number, less than a turn behind the newest,
\* and whatever was written since is still there.
Filed(k) ==
  /\ inboxRing[k].seq \in 1 .. newest /\ inboxRing[k].seq > newest - InboxSlots /\ I!Slot(inboxRing[k].seq) = k
  /\ \A t \in inboxRing[k].seq .. newest : inboxRing[I!Slot(t)].seq = t
RingInv ==
  /\ newest \in Nat /\ inboxRing \in [0 .. InboxSlots - 1 -> [seq : Nat, msg : Letters \cup {"none"}]]
  /\ \A k \in 0 .. InboxSlots - 1 : inboxRing[k].seq # 0 => Filed(k)
LEMMA WholeTurns ==
  ASSUME NEW q \in Int, InboxSlots * q > 0 - InboxSlots, InboxSlots * q < InboxSlots
  PROVE  q = 0
<1>0. InboxSlots \in Nat \ {0}
  BY InboxAssumption
<1>1. q >= 1 => InboxSlots * q >= InboxSlots
  BY <1>0
<1>2. q <= -1 => InboxSlots * q <= 0 - InboxSlots
  BY <1>0
<1>3. InboxSlots * q \in Int
  BY <1>0
<1> QED
  BY <1>0, <1>1, <1>2, <1>3

\* Two numbers less than a turn apart have slots of their own; a turn later the
\* slot is the same.
LEMMA SlotsTurn ==
  ASSUME NEW s \in Nat \ {0}, NEW t \in Nat, s < t
  PROVE  /\ I!Slot(s) \in 0 .. InboxSlots - 1 /\ I!Slot(t) \in 0 .. InboxSlots - 1
         /\ t - s < InboxSlots => I!Slot(s) # I!Slot(t)
         /\ t - s = InboxSlots => I!Slot(s) = I!Slot(t)
<1> DEFINE a == (s - 1) \div InboxSlots  b == (t - 1) \div InboxSlots
<1>0. InboxSlots \in Nat \ {0}
  BY InboxAssumption
<1>1. /\ s - 1 \in Nat /\ t - 1 \in Nat
      /\ a \in Nat /\ b \in Nat /\ I!Slot(s) \in 0 .. InboxSlots - 1 /\ I!Slot(t) \in 0 .. InboxSlots - 1
      /\ s - 1 = InboxSlots * a + I!Slot(s) /\ t - 1 = InboxSlots * b + I!Slot(t)
  BY <1>0 DEF I!Slot
<1> HIDE DEF a, b
<1>2. ASSUME t - s < InboxSlots, I!Slot(s) = I!Slot(t) PROVE FALSE
  <2>1. t - s = InboxSlots * (b - a) /\ b - a \in Int
    BY <1>0, <1>1, <1>2
  <2>2. b - a = 0
    BY <1>0, <1>2, <2>1, WholeTurns
  <2> QED
    BY <1>0, <2>1, <2>2
<1>3. ASSUME t - s = InboxSlots PROVE I!Slot(s) = I!Slot(t)
  <2>1. InboxSlots * (b - a - 1) = I!Slot(s) - I!Slot(t) /\ b - a - 1 \in Int
    BY <1>0, <1>1, <1>3
  <2>2. b - a - 1 = 0
    BY <1>0, <1>1, <2>1, WholeTurns
  <2> QED
    BY <1>0, <1>1, <2>1, <2>2
<1> QED
  BY <1>1, <1>2, <1>3

LEMMA RingInit == I!Init => RingInv
<1> SUFFICES ASSUME I!Init PROVE RingInv
  OBVIOUS
<1>1. newest = 0 /\ inboxRing = [k \in 0 .. InboxSlots - 1 |-> I!Empty] /\ I!Empty.seq = 0
      /\ I!Empty \in [seq : Nat, msg : Letters \cup {"none"}]
  BY DEF I!Init, I!Empty
<1> QED
  BY <1>1 DEF RingInv

\* A record that is less than a turn behind the next number is not in its slot,
\* nor is anything written since.
LEMMA OutOfTheWay ==
  ASSUME RingInv, NEW k \in 0 .. InboxSlots - 1, k # I!Slot(newest + 1), inboxRing[k].seq # 0
  PROVE  /\ inboxRing[k].seq \in 1 .. newest /\ inboxRing[k].seq > newest + 1 - InboxSlots
         /\ I!Slot(inboxRing[k].seq) = k
         /\ \A t \in inboxRing[k].seq .. newest : I!Slot(t) # I!Slot(newest + 1)
              /\ I!Slot(t) \in 0 .. InboxSlots - 1 /\ inboxRing[I!Slot(t)].seq = t
<1>0. InboxSlots \in Nat \ {0} /\ newest \in Nat /\ Filed(k) /\ newest + 1 \in Nat
  BY InboxAssumption DEF RingInv
<1> DEFINE s == inboxRing[k].seq
<1>1. s \in Nat \ {0} /\ s <= newest /\ s > newest - InboxSlots /\ I!Slot(s) = k
  BY <1>0 DEF Filed
<1>2. newest + 1 - s # InboxSlots
  BY <1>0, <1>1, SlotsTurn
<1>3. s > newest + 1 - InboxSlots
  BY <1>0, <1>1, <1>2
<1>4. ASSUME NEW t \in s .. newest PROVE I!Slot(t) # I!Slot(newest + 1) /\ I!Slot(t) \in 0 .. InboxSlots - 1
                                         /\ inboxRing[I!Slot(t)].seq = t
  <2>1. t \in Nat \ {0} /\ t < newest + 1 /\ newest + 1 - t < InboxSlots
    BY <1>0, <1>1, <1>3, <1>4
  <2> QED
    BY <1>0, <1>4, <2>1, SlotsTurn DEF Filed
<1> QED
  BY <1>0, <1>1, <1>3, <1>4

\* One is written: the slot of the next number, and the number with it.
LEMMA WriteFiles ==
  ASSUME RingInv, NEW m \in Letters, newest' = newest + 1,
         inboxRing' = [inboxRing EXCEPT ![I!Slot(newest + 1)] = [seq |-> newest + 1, msg |-> m]]
  PROVE  RingInv'
<1>0. InboxSlots \in Nat \ {0} /\ newest \in Nat /\ newest + 1 \in Nat
  BY InboxAssumption DEF RingInv
<1>1. I!Slot(newest + 1) \in 0 .. InboxSlots - 1
  BY <1>0, SlotsTurn DEF I!Slot
<1>2. inboxRing'[I!Slot(newest + 1)].seq = newest + 1
      /\ \A j \in 0 .. InboxSlots - 1 : j # I!Slot(newest + 1) => inboxRing'[j] = inboxRing[j]
  BY <1>1 DEF RingInv
<1>3. inboxRing' \in [0 .. InboxSlots - 1 -> [seq : Nat, msg : Letters \cup {"none"}]] /\ newest' \in Nat
  BY <1>0, <1>1 DEF RingInv
<1>4. ASSUME NEW k \in 0 .. InboxSlots - 1, inboxRing'[k].seq # 0 PROVE Filed(k)'
  <2>1. CASE k = I!Slot(newest + 1)
    BY <1>0, <1>2, <2>1 DEF Filed, I!Slot
  <2>2. CASE k # I!Slot(newest + 1)
    <3>1. inboxRing'[k].seq = inboxRing[k].seq /\ inboxRing[k].seq # 0
      BY <1>2, <1>4, <2>2
    <3>2. /\ inboxRing[k].seq \in 1 .. newest /\ inboxRing[k].seq > newest + 1 - InboxSlots
          /\ I!Slot(inboxRing[k].seq) = k
          /\ \A t \in inboxRing[k].seq .. newest : I!Slot(t) # I!Slot(newest + 1)
               /\ I!Slot(t) \in 0 .. InboxSlots - 1 /\ inboxRing[I!Slot(t)].seq = t
      BY <2>2, <3>1, OutOfTheWay
    <3>3. \A t \in inboxRing[k].seq .. newest + 1 : inboxRing'[I!Slot(t)].seq = t
      BY <1>0, <1>2, <3>2
    <3> QED
      BY <1>0, <3>1, <3>2, <3>3 DEF Filed, I!Slot
  <2> QED
    BY <2>1, <2>2
<1> QED
  BY <1>3, <1>4 DEF RingInv

\* A write that fails half way takes the record that was the oldest.
LEMMA FailureFiles ==
  ASSUME RingInv, newest' = newest, inboxRing' = [inboxRing EXCEPT ![I!Slot(newest + 1)] = I!Empty]
  PROVE  RingInv'
<1>0. InboxSlots \in Nat \ {0} /\ newest \in Nat /\ newest + 1 \in Nat
  BY InboxAssumption DEF RingInv
<1>1. I!Slot(newest + 1) \in 0 .. InboxSlots - 1 /\ I!Empty.seq = 0 /\ I!Empty \in [seq : Nat, msg : Letters \cup {"none"}]
  BY <1>0, SlotsTurn DEF I!Slot, I!Empty
<1>2. inboxRing'[I!Slot(newest + 1)].seq = 0
      /\ \A j \in 0 .. InboxSlots - 1 : j # I!Slot(newest + 1) => inboxRing'[j] = inboxRing[j]
  BY <1>1 DEF RingInv
<1>3. inboxRing' \in [0 .. InboxSlots - 1 -> [seq : Nat, msg : Letters \cup {"none"}]]
  BY <1>0, <1>1 DEF RingInv
<1>4. ASSUME NEW k \in 0 .. InboxSlots - 1, inboxRing'[k].seq # 0 PROVE Filed(k)'
  <2>1. k # I!Slot(newest + 1) /\ inboxRing'[k].seq = inboxRing[k].seq /\ inboxRing[k].seq # 0
    BY <1>2, <1>4
  <2>2. /\ inboxRing[k].seq \in 1 .. newest /\ inboxRing[k].seq > newest + 1 - InboxSlots
        /\ I!Slot(inboxRing[k].seq) = k
        /\ \A t \in inboxRing[k].seq .. newest : I!Slot(t) # I!Slot(newest + 1)
             /\ I!Slot(t) \in 0 .. InboxSlots - 1 /\ inboxRing[I!Slot(t)].seq = t
    BY <2>1, OutOfTheWay
  <2>3. \A t \in inboxRing[k].seq .. newest : inboxRing'[I!Slot(t)].seq = t
    BY <1>2, <2>2
  <2> QED
    BY <1>0, <2>1, <2>2, <2>3 DEF Filed, I!Slot
<1> QED
  BY <1>0, <1>3, <1>4 DEF RingInv

LEMMA HighestIs ==
  ASSUME NEW S, NEW x \in S, x \in Nat, \A y \in S : y \in Nat /\ y <= x
  PROVE  I!Max(S) = x
<1>1. I!Max(S) \in S /\ \A y \in S : I!Max(S) >= y
  BY DEF I!Max
<1>2. I!Max(S) \in Nat /\ I!Max(S) <= x /\ I!Max(S) >= x
  BY <1>1
<1> QED
  BY <1>2

\* begin() takes the highest number in the file: the newest, if any is there.
LEMMA RestartFiles ==
  ASSUME RingInv, inboxRing' = inboxRing, newest' = I!Max({inboxRing[k].seq : k \in DOMAIN inboxRing})
  PROVE  RingInv'
<1> DEFINE Dom == 0 .. InboxSlots - 1
<1>0. InboxSlots \in Nat \ {0} /\ newest \in Nat /\ DOMAIN inboxRing = Dom /\ Dom # {} /\ 0 \in Dom
  BY InboxAssumption DEF RingInv
<1> DEFINE X == {inboxRing[k].seq : k \in Dom}
<1>1. CASE \A k \in Dom : inboxRing[k].seq = 0
  <2>1. X = {0}
    BY <1>0, <1>1
  <2>2. I!Max({0}) = 0
    BY DEF I!Max
  <2>3. newest' = I!Max(X)
    BY <1>0
  <2>4. newest' = 0
    BY <2>1, <2>2, <2>3
  <2> QED
    BY <1>1, <2>4 DEF RingInv
<1>2. CASE \E k \in Dom : inboxRing[k].seq # 0
  <2>1. PICK k \in Dom : inboxRing[k].seq # 0
    BY <1>2
  <2>2. newest \in 1 .. newest /\ newest \in inboxRing[k].seq .. newest /\ inboxRing[I!Slot(newest)].seq = newest
    BY <1>0, <2>1 DEF RingInv, Filed
  <2>3. I!Slot(newest) \in Dom
    BY <1>0, <2>2 DEF I!Slot
  <2>4. newest \in X /\ \A x \in X : x \in Nat /\ x <= newest
    BY <1>0, <2>2, <2>3 DEF RingInv, Filed
  <2>5. I!Max(X) = newest
    BY <1>0, <2>4, HighestIs
  <2>6. newest' = newest
    BY <1>0, <2>5
  <2> QED
    BY <2>6 DEF RingInv, Filed, I!Slot
<1> QED
  BY <1>1, <1>2

\* The end u of a list s of at most room, once m has come.
EndsWith(room, s, m, u) ==
  /\ u \in Seq(Letters) /\ u[Len(u)] = m /\ Len(u) = (IF Len(s) < room THEN Len(s) + 1 ELSE room)
  /\ \A i \in 1 .. Len(u) - 1 : u[i] = s[Len(s) - Len(u) + 1 + i]

LEMMA LastTakes ==
  ASSUME NEW room \in Nat \ {0}, NEW s \in Seq(Letters), Len(s) <= room, NEW m \in Letters
  PROVE  EndsWith(room, s, m, I!LastOf(room, s, m))
<1>1. CASE Len(s) < room
  <2>1. I!LastOf(room, s, m) = Append(s, m)
    BY <1>1 DEF I!LastOf
  <2>2. /\ Append(s, m) \in Seq(Letters) /\ Len(Append(s, m)) = Len(s) + 1 /\ Append(s, m)[Len(s) + 1] = m
        /\ \A i \in 1 .. Len(s) : Append(s, m)[i] = s[i]
    BY AppendProperties
  <2> QED
    BY <1>1, <2>1, <2>2 DEF EndsWith
<1>2. CASE ~(Len(s) < room)
  <2>0. Len(s) = room /\ s # << >>
    BY <1>2
  <2> DEFINE u == Tail(s)
  <2>1. u \in Seq(Letters) /\ Len(u) = room - 1 /\ \A i \in 1 .. room - 1 : u[i] = s[i + 1]
    BY <2>0
  <2>2. I!LastOf(room, s, m) = Append(u, m)
    BY <1>2 DEF I!LastOf
  <2> HIDE DEF u
  <2>3. /\ Append(u, m) \in Seq(Letters) /\ Len(Append(u, m)) = Len(u) + 1 /\ Append(u, m)[Len(u) + 1] = m
        /\ \A i \in 1 .. Len(u) : Append(u, m)[i] = u[i]
    BY <2>1, AppendProperties
  <2> QED
    BY <2>0, <2>1, <2>2, <2>3, <1>2 DEF EndsWith
<1> QED
  BY <1>1, <1>2

\* What is remembered stays the end of what was taken, and that has none twice.
EndOf(t, r) ==
  /\ Len(t) <= RecentMax + 1 /\ Len(r) = (IF Len(t) <= RecentMax THEN Len(t) ELSE RecentMax)
  /\ \A i \in 1 .. Len(r) : r[i] = t[Len(t) - Len(r) + i]
  /\ \A i, j \in 1 .. Len(t) : t[i] = t[j] => i = j

TakenInv == {inboxQueue, taken, inboxRecent} \subseteq Seq(Letters) /\ EndOf(taken, inboxRecent)

LEMMA StaysTheEnd ==
  ASSUME NEW t \in Seq(Letters), NEW r \in Seq(Letters), EndOf(t, r),
         NEW m \in Letters, \A i \in 1 .. Len(r) : r[i] # m
  PROVE  EndOf(I!LastOf(RecentMax + 1, t, m), I!LastOf(RecentMax, r, m))
<1> DEFINE R == RecentMax  t1 == I!LastOf(R + 1, t, m)  r1 == I!LastOf(R, r, m)
           lt == Len(t)  lr == Len(r)  lt1 == Len(t1)  lr1 == Len(r1)
<1>0. R \in Nat \ {0} /\ R + 1 \in Nat \ {0} /\ lt \in Nat /\ lr \in Nat /\ lt <= R + 1 /\ lr <= R
      /\ lr = (IF lt <= R THEN lt ELSE R)
  BY InboxAssumption DEF EndOf
<1>a. EndsWith(R + 1, t, m, t1) /\ EndsWith(R, r, m, r1)
  BY <1>0, LastTakes
<1>1. /\ t1 \in Seq(Letters) /\ t1[lt1] = m /\ lt1 = (IF lt < R + 1 THEN lt + 1 ELSE R + 1)
      /\ \A i \in 1 .. lt1 - 1 : t1[i] = t[lt - lt1 + 1 + i]
  BY <1>a DEF EndsWith
<1>2. /\ r1 \in Seq(Letters) /\ r1[lr1] = m /\ lr1 = (IF lr < R THEN lr + 1 ELSE R)
      /\ \A i \in 1 .. lr1 - 1 : r1[i] = r[lr - lr1 + 1 + i]
  BY <1>a DEF EndsWith
<1>3. /\ \A i \in 1 .. lr : r[i] = t[lt - lr + i] /\ r[i] # m
      /\ \A i, j \in 1 .. lt : t[i] = t[j] => i = j
  BY DEF EndOf
<1> HIDE DEF R, t1, r1, lt, lr, lt1, lr1
<1>b. lt1 = (IF lt < R + 1 THEN lt + 1 ELSE R + 1) /\ lr1 = (IF lr < R THEN lr + 1 ELSE R)
  BY <1>1, <1>2
<1>4. lt1 <= R + 1 /\ lr1 = (IF lt1 <= R THEN lt1 ELSE R) /\ lt1 \in Nat \ {0} /\ lr1 \in Nat \ {0}
  BY <1>0, <1>b
<1>5. ASSUME NEW i \in 1 .. lr1 PROVE r1[i] = t1[lt1 - lr1 + i]
  <2>1. CASE i = lr1
    <3>1. lt1 - lr1 + i = lt1
      BY <1>4, <2>1
    <3> QED
      BY <1>1, <1>2, <2>1, <3>1
  <2>2. CASE i # lr1
    <3>1. /\ i \in 1 .. lr1 - 1 /\ lr - lr1 + 1 + i \in 1 .. lr
          /\ lt1 - lr1 + i \in 1 .. lt1 - 1
      <4>1. i \in 1 .. lr1 - 1
        BY <1>4, <2>2
      <4>2. lr \in Nat /\ (lr1 = lr \/ lr1 = lr + 1) /\ lr1 <= lt1
        BY <1>0, <1>b, <1>4
      <4>3. lr1 \in Nat \ {0} /\ lt1 \in Nat \ {0}
        BY <1>4
      <4>4. lt1 - lr1 + i \in 1 .. lt1 - 1
        BY <4>1, <4>2, <4>3
      <4>5. lr - lr1 + 1 + i \in 1 .. lr
        <5>1. CASE lr1 = lr
          BY <4>1, <4>2, <5>1
        <5>2. CASE lr1 = lr + 1
          BY <4>1, <4>2, <5>2
        <5> QED
          BY <4>2, <5>1, <5>2
      <4> QED
        BY <4>1, <4>4, <4>5
    <3>2. r1[i] = t[lt - lr + (lr - lr1 + 1 + i)]
      BY <1>2, <1>3, <3>1
    <3>3. t1[lt1 - lr1 + i] = t[lt - lt1 + 1 + (lt1 - lr1 + i)]
      BY <1>1, <3>1
    <3>4. lt - lr + (lr - lr1 + 1 + i) = lt - lt1 + 1 + (lt1 - lr1 + i)
      BY <1>0, <1>4, <3>1
    <3> QED
      BY <3>2, <3>3, <3>4
  <2> QED
    BY <2>1, <2>2
<1>6. ASSUME NEW i \in 1 .. lt1 - 1 PROVE t1[i] # m /\ lt - lt1 + 1 + i \in 1 .. lt
  <2>1. /\ lt - lt1 + 1 + i \in 1 .. lt
        /\ lt - lt1 + 1 + i - (lt - lr) \in 1 .. lr
        /\ lt - lr + (lt - lt1 + 1 + i - (lt - lr)) = lt - lt1 + 1 + i
    BY <1>0, <1>b
  <2>2. t1[i] = r[lt - lt1 + 1 + i - (lt - lr)]
    <3>1. t1[i] = t[lt - lt1 + 1 + i]
      BY <1>1
    <3>2. \A k \in 1 .. lr : r[k] = t[lt - lr + k]
      BY <1>3
    <3> QED
      BY <2>1, <3>1, <3>2
  <2> QED
    BY <1>3, <2>1, <2>2
<1>7. ASSUME NEW i \in 1 .. lt1, NEW j \in 1 .. lt1, t1[i] = t1[j] PROVE i = j
  <2>0. t1[lt1] = m /\ \A k \in 1 .. lt1 : k # lt1 => t1[k] # m
    <3>1. \A k \in 1 .. lt1 : k # lt1 => k \in 1 .. lt1 - 1
      BY <1>4
    <3> QED
      BY <1>1, <1>6, <3>1
  <2>1. CASE i = lt1 \/ j = lt1
    BY <1>7, <2>0, <2>1
  <2>2. CASE i # lt1 /\ j # lt1
    <3>1. i \in 1 .. lt1 - 1 /\ j \in 1 .. lt1 - 1
      BY <1>4, <2>2
    <3>2. lt - lt1 + 1 + i = lt - lt1 + 1 + j
      <4>1. t1[i] = t[lt - lt1 + 1 + i] /\ t1[j] = t[lt - lt1 + 1 + j]
        BY <1>1, <3>1
      <4>2. lt - lt1 + 1 + i \in 1 .. lt /\ lt - lt1 + 1 + j \in 1 .. lt
        BY <1>6, <3>1
      <4>3. \A k, l \in 1 .. lt : t[k] = t[l] => k = l
        BY <1>3
      <4> QED
        BY <1>7, <4>1, <4>2, <4>3
    <3> QED
      BY <1>0, <1>4, <3>1, <3>2
  <2> QED
    BY <2>1, <2>2
<1>8. EndOf(t1, r1)
  BY <1>4, <1>5, <1>7 DEF EndOf, lt1, lr1, R
<1> QED
  BY <1>8 DEF t1, r1, R

LEMMA TakenInit == I!Init => TakenInv
<1> SUFFICES ASSUME I!Init PROVE TakenInv
  OBVIOUS
<1>1. inboxQueue = << >> /\ inboxRecent = << >> /\ taken = << >> /\ << >> \in Seq(Letters) /\ Len(<< >>) = 0
      /\ DOMAIN << >> = {}
  BY DEF I!Init
<1> QED
  BY <1>1, InboxAssumption DEF TakenInv, EndOf

LEMMA NoteTakes == ASSUME TakenInv, NEW m \in Letters, I!Note(m) PROVE TakenInv'
<1>1. CASE UNCHANGED <<inboxQueue, taken, inboxRecent>>
  BY <1>1 DEF TakenInv
<1>2. CASE ~I!Seen(m) /\ inboxQueue' = Append(inboxQueue, m) /\ inboxRecent' = I!LastOf(RecentMax, inboxRecent, m)
           /\ taken' = I!LastOf(RecentMax + 1, taken, m)
  <2>1. RecentMax \in Nat \ {0} /\ RecentMax + 1 \in Nat \ {0} /\ inboxQueue \in Seq(Letters)
        /\ taken \in Seq(Letters) /\ inboxRecent \in Seq(Letters) /\ EndOf(taken, inboxRecent)
    BY InboxAssumption DEF TakenInv
  <2>2. Len(inboxRecent) \in Nat /\ Len(inboxRecent) <= RecentMax /\ Len(taken) <= RecentMax + 1
    BY <2>1 DEF EndOf
  <2>3. \A i \in 1 .. Len(inboxRecent) : inboxRecent[i] # m
    BY <1>2, <2>1 DEF I!Seen, I!Range
  <2>4. EndOf(taken', inboxRecent')
    BY <1>2, <2>1, <2>3, StaysTheEnd
  <2>5. I!LastOf(RecentMax, inboxRecent, m) \in Seq(Letters) /\ I!LastOf(RecentMax + 1, taken, m) \in Seq(Letters)
    BY <2>1, <2>2, LastTakes DEF EndsWith
  <2>6. Append(inboxQueue, m) \in Seq(Letters)
    BY <2>1
  <2>7. {inboxQueue', taken', inboxRecent'} \subseteq Seq(Letters)
    BY <1>2, <2>5, <2>6
  <2> QED
    BY <2>4, <2>7 DEF TakenInv
<1> QED
  BY <1>1, <1>2 DEF I!Note

LEMMA TakenNext == TakenInv /\ [I!Next]_I!vars => TakenInv'
<1> SUFFICES ASSUME TakenInv, [I!Next]_I!vars PROVE TakenInv'
  OBVIOUS
<1>1. CASE \E m \in Letters : I!Note(m)
  BY <1>1, NoteTakes
<1>2. CASE inboxQueue # << >> /\ inboxQueue' = Tail(inboxQueue) /\ UNCHANGED <<taken, inboxRecent>>
  BY <1>2 DEF TakenInv, EndOf
<1>3. CASE I!Restart
  <2>1. inboxQueue' = << >> /\ inboxRecent' = << >> /\ taken' = << >> /\ << >> \in Seq(Letters)
        /\ Len(<< >>) = 0 /\ DOMAIN << >> = {}
    BY <1>3 DEF I!Restart
  <2> QED
    BY <2>1, InboxAssumption DEF TakenInv, EndOf
<1>4. CASE UNCHANGED <<inboxQueue, taken, inboxRecent>>
  BY <1>4 DEF TakenInv, EndOf
<1> QED
  BY <1>1, <1>2, <1>3, <1>4 DEF I!Next, I!vars, I!ram, I!Refill, I!Poll, I!PollFails, I!Wipe

LEMMA RingNext == RingInv /\ TakenInv /\ [I!Next]_I!vars => RingInv'
<1> SUFFICES ASSUME RingInv, TakenInv, [I!Next]_I!vars PROVE RingInv'
  OBVIOUS
<1>0. \A q \in Seq(Letters) : q # << >> => Head(q) \in Letters
  OBVIOUS
<1>1. CASE I!Poll
  <2>1. Head(inboxQueue) \in Letters
    BY <1>0, <1>1 DEF I!Poll, TakenInv
  <2>2. newest' = newest + 1 /\ inboxRing' = [inboxRing EXCEPT ![I!Slot(newest + 1)] = [seq |-> newest + 1, msg |-> Head(inboxQueue)]]
    BY <1>1 DEF I!Poll, I!Written
  <2> QED
    BY <2>1, <2>2, WriteFiles
<1>2. CASE I!PollFails
  <2>1. newest' = newest /\ (inboxRing' = inboxRing \/ inboxRing' = [inboxRing EXCEPT ![I!Slot(newest + 1)] = I!Empty])
    BY <1>2 DEF I!PollFails
  <2>2. CASE inboxRing' = inboxRing
    BY <2>1, <2>2 DEF RingInv, Filed
  <2> QED
    BY <2>1, <2>2, FailureFiles
<1>3. CASE I!Restart
  BY <1>3, RestartFiles DEF I!Restart
<1>4. CASE UNCHANGED <<inboxRing, newest>>
  BY <1>4 DEF RingInv, Filed
<1>5. CASE \E s \in {Writer(m) : m \in Letters} : I!Wipe(s)
  BY <1>5, InboxAssumption DEF I!Wipe
<1> QED
  BY <1>1, <1>2, <1>3, <1>4, <1>5 DEF I!Next, I!vars, I!Note, I!Refill

\* Of LxmfInbox.cpp: for a ring and a memory of any size, whatever writes fail
\* and wherever it restarts, as long as nothing is erased every message in the
\* file is on the pages, and none is taken twice within what is remembered.
THEOREM InboxBuriesNone == I!Spec => []NothingBuried
<1>1. RingInv => I!NothingBuried
  <2> SUFFICES ASSUME RingInv PROVE {inboxRing[k].seq : k \in DOMAIN inboxRing} \ {0} = I!PageSeqs
    BY DEF I!NothingBuried
  <2>0. DOMAIN inboxRing = 0 .. InboxSlots - 1 /\ InboxSlots \in Nat \ {0} /\ newest \in Nat
    BY InboxAssumption DEF RingInv
  <2>1. ASSUME NEW k \in 0 .. InboxSlots - 1, inboxRing[k].seq # 0 PROVE inboxRing[k].seq \in I!PageSeqs
    <3>1. Filed(k)
      BY <2>1 DEF RingInv
    <3> QED
      BY <2>0, <3>1 DEF Filed, I!PageSeqs, I!Readable, I!InRing
  <2>2. ASSUME NEW s \in I!PageSeqs PROVE s # 0 /\ \E k \in 0 .. InboxSlots - 1 : inboxRing[k].seq = s
    <3>1. s \in 1 .. newest /\ I!Readable(s)
      BY <2>0 DEF I!PageSeqs
    <3>2. I!Slot(s) \in 0 .. InboxSlots - 1
      BY <2>0, <3>1 DEF I!Slot
    <3> QED
      BY <3>1, <3>2 DEF I!Readable
  <2> QED
    BY <2>0, <2>1, <2>2
<1>2. TakenInv => I!RepeatsApart
  BY DEF TakenInv, EndOf, I!RepeatsApart
<1> QED
  BY <1>1, <1>2, RingInit, TakenInit, RingNext, TakenNext, PTL DEF I!Spec, NothingBuried

-----------------------------------------------------------------------------
(* Shell: where a screen may lie on the others, and which of a kind the    *)
(* statics of that kind point at.                                          *)

Kinds == {"none", "home", "list", "thread", "quick", "mesh", "detail", "dial", "plot"}
Screens == [kind : Kinds, peer : Senders \cup {"none"}, own : BOOLEAN]

\* Where a screen can be among those on top of each other, and what the statics
\* of its kind say of it. A dial is reached by one way only, so there is one.
Sits(s, i, bearing, dest) ==
  /\ s \in Screens /\ s.kind # "none"
  /\ s.kind = "home" <=> i = 1
  /\ s.kind = "mesh" => i = 2
  /\ s.kind = "detail" => i = 3
  /\ s.kind = "dial" => i = 4 /\ bearing = s.peer
  /\ s.kind \in {"dial", "plot"} => s.own
  /\ s.kind \in {"thread", "quick"} /\ s.own => dest = s.peer
Lies(s, i) == Sits(s, i, sBearingHash, sThreadDest)
Rivals(s, t) == s.kind = t.kind /\ s.own /\ t.own
Pile ==
  /\ stack \in Seq(Screens) /\ Len(stack) \in Nat /\ DOMAIN stack = 1 .. Len(stack)
  /\ \A i \in 1 .. Len(stack) : Lies(stack[i], i)
  /\ Lies(active, Len(stack) + 1) /\ dying \in Screens
  /\ \A i, j \in 1 .. Len(stack) : Rivals(stack[i], stack[j]) => i = j
  /\ \A i \in 1 .. Len(stack) : ~Rivals(stack[i], active)
Bound ==
  /\ kb \in {"none", "screen", "box"}
  /\ kb = "screen" => active.kind = "thread"
  /\ kb = "box" => box
  /\ alert \in Senders \cup {"none", G!System}
ShellInv == Pile /\ Bound

\* Who is disowned stays what it is, and owns nothing.
LEMMA DisownedIs ==
  ASSUME NEW s \in Screens, NEW kinds
  PROVE  /\ G!Disowned(s, kinds) \in Screens
         /\ G!Disowned(s, kinds).kind = s.kind /\ G!Disowned(s, kinds).peer = s.peer
         /\ G!Disowned(s, kinds).own => s.own /\ s.kind \notin kinds
         /\ s.kind \notin kinds => G!Disowned(s, kinds) = s
<1>1. CASE s.kind \in kinds
  <2>1. G!Disowned(s, kinds) = [s EXCEPT !.own = FALSE]
    BY <1>1 DEF G!Disowned
  <2> QED
    BY <1>1, <2>1 DEF Screens
<1>2. CASE s.kind \notin kinds
  BY <1>2 DEF G!Disowned
<1> QED
  BY <1>1, <1>2

LEMMA StackedIs ==
  ASSUME NEW scrs \in Seq(Screens), NEW kinds
  PROVE  /\ G!Stacked(scrs, kinds) \in Seq(Screens) /\ Len(G!Stacked(scrs, kinds)) = Len(scrs)
         /\ \A i \in 1 .. Len(scrs) : G!Stacked(scrs, kinds)[i] = G!Disowned(scrs[i], kinds)
<1>1. Len(scrs) \in Nat /\ DOMAIN scrs = 1 .. Len(scrs) /\ \A i \in 1 .. Len(scrs) : scrs[i] \in Screens
  OBVIOUS
<1>2. \A i \in 1 .. Len(scrs) : G!Disowned(scrs[i], kinds) \in Screens
  BY <1>1, DisownedIs
<1>3. G!Stacked(scrs, kinds) = [i \in 1 .. Len(scrs) |-> G!Disowned(scrs[i], kinds)]
  BY <1>1 DEF G!Stacked
<1> QED
  BY <1>1, <1>2, <1>3

\* A screen that is disowned, with the statics changed, is where it was.
LEMMA StaysPlaced ==
  ASSUME NEW s, NEW i \in Nat, NEW kinds, NEW b, NEW dst, NEW bearing, NEW dest, Sits(s, i, b, dst),
         s.kind \in {"dial", "plot"} => s.kind \notin kinds,
         dest = dst \/ {"thread", "quick"} \subseteq kinds,
         bearing = b \/ s.kind # "dial"
  PROVE  Sits(G!Disowned(s, kinds), i, bearing, dest)
<1>1. s \in Screens
  BY DEF Sits
<1> QED
  BY <1>1, DisownedIs DEF Sits

\* What may be disowned without blinding the dial or the plot there is.
Harmless(kinds) ==
  /\ \A i \in 1 .. Len(stack) : stack[i].kind \in {"dial", "plot"} => stack[i].kind \notin kinds
  /\ active.kind \in {"dial", "plot"} => active.kind \notin kinds
  /\ sThreadDest' = sThreadDest \/ {"thread", "quick"} \subseteq kinds
  /\ sBearingHash' = sBearingHash \/ (active.kind # "dial" /\ \A i \in 1 .. Len(stack) : stack[i].kind # "dial")

LEMMA PileStays ==
  ASSUME Pile, NEW kinds, Harmless(kinds), stack' = G!Stacked(stack, kinds), active' = G!Disowned(active, kinds), dying' \in Screens
  PROVE  Pile'
<1> DEFINE L == Len(stack)
<1>0. L \in Nat /\ active \in Screens /\ stack \in Seq(Screens) /\ \A i \in 1 .. L : stack[i] \in Screens
  BY DEF Pile, Lies, Sits
<1>1. stack' \in Seq(Screens) /\ Len(stack') = L /\ DOMAIN stack' = 1 .. L
      /\ \A i \in 1 .. L : stack'[i] = G!Disowned(stack[i], kinds)
  BY <1>0, StackedIs
<1>2. ASSUME NEW i \in 1 .. L PROVE Lies(stack[i], i)'
  <2>1. Lies(stack[i], i) /\ i \in Nat
    BY <1>0 DEF Pile
  <2>2. stack'[i] = G!Disowned(stack[i], kinds)
    BY <1>1
  <2> QED
    BY <2>1, <2>2, StaysPlaced DEF Harmless, Lies
<1>3. Lies(active, L + 1)'
  <2>1. Lies(active, L + 1) /\ L + 1 \in Nat
    BY <1>0 DEF Pile
  <2> QED
    BY <1>1, <2>1, StaysPlaced DEF Harmless, Lies
<1>4. \A i, j \in 1 .. L : Rivals(stack'[i], stack'[j]) => i = j
  BY <1>0, <1>1, DisownedIs DEF Pile, Rivals
<1>5. \A i \in 1 .. L : ~Rivals(stack'[i], active')
  BY <1>0, <1>1, DisownedIs DEF Pile, Rivals
<1> QED
  BY <1>0, <1>1, <1>2, <1>3, <1>4, <1>5 DEF Pile

\* A page comes over what is there, once those of its kind are disowned.
LEMMA PileGrows ==
  ASSUME Pile, NEW kinds, Harmless(kinds), NEW s, s.kind \in kinds,
         Sits(s, Len(stack) + 2, sBearingHash', sThreadDest'),
         stack' = Append(G!Stacked(stack, kinds), G!Disowned(active, kinds)), active' = s, dying' \in Screens
  PROVE  Pile'
<1> DEFINE L == Len(stack)
<1>0. L \in Nat /\ active \in Screens /\ stack \in Seq(Screens) /\ \A i \in 1 .. L : stack[i] \in Screens
  BY DEF Pile, Lies, Sits
<1> DEFINE below == G!Stacked(stack, kinds)  left == G!Disowned(active, kinds)
<1>1. below \in Seq(Screens) /\ Len(below) = L /\ \A i \in 1 .. L : below[i] = G!Disowned(stack[i], kinds)
  BY <1>0, StackedIs
<1>2. left \in Screens /\ left.kind = active.kind /\ (left.own => active.own /\ active.kind \notin kinds)
  BY <1>0, DisownedIs
<1>3. stack' = Append(below, left)
  OBVIOUS
<1> HIDE DEF below, left
<1>4. /\ stack' \in Seq(Screens) /\ Len(stack') = L + 1 /\ DOMAIN stack' = 1 .. L + 1
      /\ stack'[L + 1] = left /\ \A i \in 1 .. L : stack'[i] = G!Disowned(stack[i], kinds)
  BY <1>0, <1>1, <1>2, <1>3, AppendProperties
<1>5. ASSUME NEW i \in 1 .. L + 1 PROVE Lies(stack[i], i)'
  <2>1. CASE i \in 1 .. L
    <3>1. Lies(stack[i], i) /\ i \in Nat /\ stack'[i] = G!Disowned(stack[i], kinds)
      BY <1>0, <1>4, <2>1 DEF Pile
    <3> QED
      BY <2>1, <3>1, StaysPlaced DEF Harmless, Lies
  <2>2. CASE i = L + 1
    <3>1. Sits(active, L + 1, sBearingHash, sThreadDest) /\ L + 1 \in Nat
      BY <1>0 DEF Pile, Lies
    <3>2. stack'[i] = G!Disowned(active, kinds)
      BY <1>4, <2>2 DEF left
    <3>3. Sits(G!Disowned(active, kinds), L + 1, sBearingHash', sThreadDest')
      BY <3>1, StaysPlaced DEF Harmless
    <3>4. Sits(stack'[i], i, sBearingHash', sThreadDest')
      BY <2>2, <3>2, <3>3
    <3> QED
      BY <3>4 DEF Lies
  <2>3. i \in 1 .. L \/ i = L + 1
    BY <1>0
  <2> QED
    BY <2>1, <2>2, <2>3
<1>6. Lies(active, Len(stack) + 1)'
  BY <1>0, <1>4 DEF Lies
<1>7. ASSUME NEW i \in 1 .. L + 1, NEW j \in 1 .. L + 1, Rivals(stack'[i], stack'[j]) PROVE i = j
  <2>1. CASE i \in 1 .. L /\ j \in 1 .. L
    <3>1. /\ stack'[i].kind = stack[i].kind /\ (stack'[i].own => stack[i].own)
          /\ stack'[j].kind = stack[j].kind /\ (stack'[j].own => stack[j].own)
      <4>1. stack'[i] = G!Disowned(stack[i], kinds) /\ stack[i] \in Screens
        BY <1>0, <1>4, <2>1
      <4>2. stack'[j] = G!Disowned(stack[j], kinds) /\ stack[j] \in Screens
        BY <1>0, <1>4, <2>1
      <4> QED
        BY <4>1, <4>2, DisownedIs
    <3>2. Rivals(stack[i], stack[j])
      BY <1>7, <3>1 DEF Rivals
    <3> QED
      BY <2>1, <3>2 DEF Pile
  <2>2. CASE i \in 1 .. L /\ j = L + 1
    BY <1>0, <1>2, <1>4, <1>7, <2>2, DisownedIs DEF Pile, Rivals
  <2>3. CASE i = L + 1 /\ j \in 1 .. L
    BY <1>0, <1>2, <1>4, <1>7, <2>3, DisownedIs DEF Pile, Rivals
  <2> QED
    BY <1>0, <2>1, <2>2, <2>3
<1>8. ASSUME NEW i \in 1 .. L + 1 PROVE ~Rivals(stack'[i], active')
  <2>1. CASE i \in 1 .. L
    BY <1>0, <1>4, <2>1, DisownedIs DEF Rivals
  <2>2. CASE i = L + 1
    <3>1. stack'[i] = left /\ active' = s
      BY <1>4, <2>2
    <3>2. left.kind = active.kind /\ (left.own => active.kind \notin kinds)
      BY <1>2
    <3>3. ~Rivals(left, s)
      BY <3>2, Zenon DEF Rivals
    <3> QED
      BY <3>1, <3>3
  <2>3. i \in 1 .. L \/ i = L + 1
    BY <1>0
  <2> QED
    BY <2>1, <2>2, <2>3
<1> QED
  BY <1>0, <1>4, <1>5, <1>6, <1>7, <1>8 DEF Pile

\* push(), of a page that may come next.
Lost(s) == IF s.kind = "thread" THEN {"thread", "quick"} ELSE {s.kind}
LEMMA PushPiles ==
  ASSUME Pile, NEW s, NEW col, G!push(s, col), Harmless(Lost(s)),
         Sits(s, Len(stack) + 2, sBearingHash', sThreadDest')
  PROVE  Pile'
<1> DEFINE dead == IF Len(stack) >= kStack THEN {s} ELSE {dying}
           blinded == G!Forgotten(dead) \cup Lost(s)
<1>1. G!Forgotten(dead) \subseteq {"list"} /\ G!Forgotten({dying}) \subseteq {"list"}
  BY DEF G!Forgotten
<1>2. Harmless(blinded) /\ s.kind \in blinded
  BY <1>1 DEF Harmless, Lost
<1>3. G!NoScreen \in Screens /\ dying \in Screens
  BY DEF G!NoScreen, G!Screen, Screens, Pile, Kinds
<1>4. CASE Len(stack) >= kStack
  <2>1. stack' = G!Stacked(stack, blinded) /\ active' = G!Disowned(active, blinded) /\ dying' = G!Disowned(dying, blinded)
    BY <1>4 DEF G!push, Lost
  <2> HIDE DEF blinded
  <2>2. dying' \in Screens
    BY <1>3, <2>1, DisownedIs
  <2> QED
    BY <1>2, <2>1, <2>2, PileStays
<1>5. CASE ~(Len(stack) >= kStack)
  <2>1. stack' = Append(G!Stacked(stack, blinded), G!Disowned(active, blinded))
        /\ active' = G!Disowned(s, G!Forgotten(dead)) /\ dying' = G!NoScreen
    BY <1>5 DEF G!push, Lost
  <2>2. Len(stack) + 2 \in Nat
    BY DEF Pile
  <2>3. Sits(G!Disowned(s, G!Forgotten(dead)), Len(stack) + 2, sBearingHash', sThreadDest')
    BY <1>1, <2>2, StaysPlaced
  <2>4. G!Disowned(s, G!Forgotten(dead)).kind = s.kind
    BY DisownedIs DEF Sits
  <2> HIDE DEF blinded, dead
  <2> QED
    BY <1>2, <1>3, <2>1, <2>3, <2>4, PileGrows
<1> QED
  BY <1>4, <1>5

LEMMA FrontIs ==
  ASSUME NEW scrs \in Seq(Screens), Len(scrs) # 0
  PROVE  /\ G!Front(scrs) \in Seq(Screens) /\ Len(G!Front(scrs)) = Len(scrs) - 1
         /\ \A i \in 1 .. Len(scrs) - 1 : G!Front(scrs)[i] = scrs[i]
<1>1. Len(scrs) \in Nat /\ \A i \in 1 .. Len(scrs) : scrs[i] \in Screens
  OBVIOUS
<1> DEFINE front == [i \in 1 .. Len(scrs) - 1 |-> scrs[i]]
<1>2. front \in Seq(Screens) /\ Len(front) = Len(scrs) - 1 /\ \A i \in 1 .. Len(scrs) - 1 : front[i] = scrs[i]
  BY <1>1
<1>3. G!Front(scrs) = front
  BY <1>1 DEF G!Front
<1> QED
  BY <1>2, <1>3

\* back(): the screen that was under it is what it was.
LEMMA PileShrinks ==
  ASSUME Pile, ~G!atRoot, NEW kinds, kinds \subseteq {"list"},
         stack' = G!Stacked(G!Front(stack), kinds), active' = G!Disowned(G!Last(stack), kinds),
         dying' = G!Disowned(active, kinds), UNCHANGED <<sBearingHash, sThreadDest>>
  PROVE  Pile'
<1> DEFINE L == Len(stack)  under == G!Front(stack)
<1>0. L \in Nat \ {0} /\ stack \in Seq(Screens) /\ (\A i \in 1 .. L : stack[i] \in Screens) /\ active \in Screens
  BY DEF Pile, G!atRoot, Lies, Sits
<1>1. under \in Seq(Screens) /\ Len(under) = L - 1 /\ \A i \in 1 .. L - 1 : under[i] = stack[i]
  BY <1>0, FrontIs
<1>2. G!Last(stack) = stack[L]
  BY DEF G!Last
<1> HIDE DEF under
<1>3. /\ stack' \in Seq(Screens) /\ Len(stack') = L - 1 /\ DOMAIN stack' = 1 .. L - 1
      /\ \A i \in 1 .. L - 1 : stack'[i] = G!Disowned(stack[i], kinds)
  <2>1. stack' = G!Stacked(under, kinds)
    BY DEF under
  <2> QED
    BY <1>0, <1>1, <2>1, StackedIs
<1>4. ASSUME NEW i \in 1 .. L - 1 PROVE Lies(stack[i], i)'
  <2>1. Lies(stack[i], i) /\ i \in Nat /\ stack'[i] = G!Disowned(stack[i], kinds)
    BY <1>0, <1>3 DEF Pile
  <2> QED
    BY <2>1, StaysPlaced DEF Lies
<1>5. Lies(active, Len(stack) + 1)'
  <2>1. Lies(stack[L], L) /\ active' = G!Disowned(stack[L], kinds) /\ Len(stack') + 1 = L
    BY <1>0, <1>2, <1>3 DEF Pile
  <2> QED
    BY <1>0, <2>1, StaysPlaced DEF Lies
<1>6. \A i, j \in 1 .. L - 1 : Rivals(stack'[i], stack'[j]) => i = j
  BY <1>0, <1>3, DisownedIs DEF Pile, Rivals
<1>7. \A i \in 1 .. L - 1 : ~Rivals(stack'[i], active')
  <2>1. active' = G!Disowned(stack[L], kinds)
    BY <1>2
  <2> QED
    BY <1>0, <1>3, <2>1, DisownedIs DEF Pile, Rivals
<1>8. dying' \in Screens
  BY <1>0, DisownedIs
<1> QED
  BY <1>0, <1>3, <1>4, <1>5, <1>6, <1>7, <1>8 DEF Pile

LEMMA BackPiles == ASSUME Pile, G!back, UNCHANGED <<sBearingHash, sThreadDest>> PROVE Pile'
<1>1. G!Forgotten({dying}) \subseteq {"list"}
  BY DEF G!Forgotten
<1>2. CASE G!atRoot
  BY <1>2 DEF G!back, Pile, Lies
<1>3. CASE ~G!atRoot
  BY <1>1, <1>3, PileShrinks DEF G!back
<1> QED
  BY <1>2, <1>3

\* A page, by who can open it.
LEMMA ScreenIs ==
  ASSUME NEW k \in Kinds, NEW peer \in Senders \cup {"none"}
  PROVE  /\ G!Screen(k, peer) \in Screens /\ G!Screen(k, peer).kind = k
         /\ G!Screen(k, peer).peer = peer /\ G!Screen(k, peer).own
BY DEF G!Screen, Screens

\* Home, and a page right over it.
LEMMA AtHome ==
  ASSUME NEW bearing, NEW dest
  PROVE  /\ Sits(G!Home, 1, bearing, dest) /\ G!NoScreen \in Screens
         /\ \A k \in {"list", "plot"} : Sits(G!Screen(k, "none"), 2, bearing, dest)
<1>2. G!Home = [kind |-> "home", peer |-> "none", own |-> TRUE]
  BY DEF G!Home, G!Screen
<1>4. G!NoScreen \in Screens
  <2>1. G!Screen("none", "none") \in Screens /\ G!Screen("none", "none").kind = "none"
    BY DEF G!Screen, Screens, Kinds
  <2>2. G!NoScreen = G!Disowned(G!Screen("none", "none"), {"none"})
    BY <2>1 DEF G!NoScreen, G!Disowned
  <2> QED
    BY <2>1, <2>2, DisownedIs
<1>5. Sits(G!Home, 1, bearing, dest)
  BY <1>2 DEF Sits, Screens, Kinds
<1>6. ASSUME NEW k \in {"list", "plot"} PROVE Sits(G!Screen(k, "none"), 2, bearing, dest)
  <2>1. G!Screen(k, "none") \in Screens /\ G!Screen(k, "none").kind = k /\ G!Screen(k, "none").own
    BY ScreenIs DEF Kinds
  <2> QED
    BY <2>1 DEF Sits
<1> QED
  BY <1>4, <1>5, <1>6

LEMMA RootPiles == ASSUME G!openHome PROVE Pile'
<1>1. stack' = << >> /\ Len(<< >>) = 0 /\ << >> \in Seq(Screens) /\ DOMAIN << >> = {} /\ active' = G!Home
      /\ dying' = G!NoScreen
  BY DEF G!openHome
<1> QED
  BY <1>1, AtHome DEF Pile, Lies

LEMMA PagePiles ==
  ASSUME NEW k \in {"list", "plot"}, stack' = <<G!Home>>, active' = G!Screen(k, "none"), dying' = G!NoScreen
  PROVE  Pile'
<1>1. G!Home \in Screens /\ G!Home.kind = "home" /\ G!Screen(k, "none").kind = k
  BY AtHome DEF Sits, G!Home, G!Screen
<1>2. <<G!Home>> \in Seq(Screens) /\ Len(<<G!Home>>) = 1 /\ DOMAIN <<G!Home>> = 1 .. 1 /\ <<G!Home>>[1] = G!Home
  BY <1>1
<1> QED
  BY <1>1, <1>2, AtHome DEF Pile, Lies, Rivals

-----------------------------------------------------------------------------
LEMMA ShellInit == G!Init => ShellInv
<1> SUFFICES ASSUME G!Init PROVE ShellInv
  OBVIOUS
<1>1. /\ stack = << >> /\ active = G!Home /\ dying = G!NoScreen
      /\ kb = "none" /\ alert = "none"
  BY Zenon DEF G!Init
<1>2. Len(<< >>) = 0 /\ << >> \in Seq(Screens) /\ DOMAIN << >> = {}
  OBVIOUS
<1>3. Pile
  BY <1>1, <1>2, AtHome DEF Pile, Lies
<1>4. Bound
  BY <1>1 DEF Bound
<1> QED
  BY <1>3, <1>4 DEF ShellInv

\* A page of a kind that may be anywhere over the others.
LEMMA OverAny ==
  ASSUME Pile, NEW s, s \in Screens, s.kind \in {"list", "thread", "quick"}, NEW col, G!push(s, col),
         s.own => s.kind = "list" \/ sThreadDest' = s.peer,
         sThreadDest' = sThreadDest \/ s.kind = "thread", sBearingHash' = sBearingHash
  PROVE  Pile'
<1>1. Harmless(Lost(s))
  BY DEF Harmless, Lost
<1>2. Len(stack) \in Nat
  BY DEF Pile
<1>3. Sits(s, Len(stack) + 2, sBearingHash', sThreadDest')
  BY <1>2 DEF Sits
<1> QED
  BY <1>1, <1>3, PushPiles

\* Home is the lowest, and nothing but home is.
LEMMA Lowest ==
  ASSUME Pile
  PROVE  /\ active \in Screens /\ (active.kind = "home" <=> G!atRoot) /\ (G!atRoot <=> Len(stack) = 0)
         /\ active.kind = "mesh" => Len(stack) = 1
         /\ active.kind = "detail" => Len(stack) = 2
<1>1. Len(stack) \in Nat /\ Lies(active, Len(stack) + 1) /\ stack \in Seq(Screens)
  BY DEF Pile
<1>2. Sits(active, Len(stack) + 1, sBearingHash, sThreadDest)
  BY <1>1 DEF Lies
<1>3. G!atRoot <=> Len(stack) = 0
  BY <1>1 DEF G!atRoot
<1>4. /\ active \in Screens /\ (active.kind = "home" <=> Len(stack) + 1 = 1)
      /\ active.kind = "mesh" => Len(stack) + 1 = 2
      /\ active.kind = "detail" => Len(stack) + 1 = 3
  BY <1>2 DEF Sits
<1>5. active.kind = "home" <=> Len(stack) = 0
  BY <1>1, <1>4
<1> DEFINE L == Len(stack)
<1>6. L \in Nat /\ (active.kind = "mesh" => L + 1 = 2) /\ (active.kind = "detail" => L + 1 = 3)
  BY <1>1, <1>4
<1> HIDE DEF L
<1>7. (active.kind = "mesh" => L = 1) /\ (active.kind = "detail" => L = 2)
  BY <1>6
<1> QED
  BY <1>3, <1>4, <1>5, <1>7 DEF L

\* A mesh page, over the one it is opened from.
LEMMA OverMesh ==
  ASSUME Pile, NEW s, s \in Screens, s.own, NEW col, G!push(s, col),
         \/ active.kind = "home" /\ s.kind = "mesh"
         \/ active.kind = "mesh" /\ s.kind \in {"detail", "plot"},
         sThreadDest' = sThreadDest, sBearingHash' = sBearingHash
  PROVE  Pile'
<1>1. Len(stack) \in Nat /\ \A i \in 1 .. Len(stack) : stack[i].kind = "home" <=> i = 1
  BY DEF Pile, Lies, Sits
<1>2. s.kind = "mesh" => Len(stack) = 0
  BY Lowest
<1>3. s.kind \in {"detail", "plot"} => Len(stack) = 1
  BY Lowest
<1>4. \A i \in 1 .. Len(stack) : stack[i].kind = "home"
  BY <1>1, <1>2, <1>3
<1>5. Harmless(Lost(s))
  BY <1>4 DEF Harmless, Lost
<1>6. Sits(s, Len(stack) + 2, sBearingHash', sThreadDest')
  BY <1>1, <1>2, <1>3 DEF Sits
<1> QED
  BY <1>5, <1>6, PushPiles

\* The dial, over the detail of its peer.
LEMMA DialPiles == ASSUME Pile, G!openBearing PROVE Pile'
<1> DEFINE s == G!Screen("dial", active.peer)
<1>1. /\ active.kind = "detail" /\ G!push(s, sThreadCol)
      /\ sBearingHash' = active.peer /\ sThreadDest' = sThreadDest
  BY DEF G!openBearing
<1>2. active \in Screens /\ Len(stack) = 2
  BY <1>1, Lowest
<1>3. \A i \in 1 .. Len(stack) : stack[i].kind # "dial"
  BY <1>2 DEF Pile, Lies, Sits
<1>4. s \in Screens /\ s.kind = "dial" /\ s.own /\ s.peer = active.peer
  BY <1>2 DEF G!Screen, Screens, Kinds
<1> HIDE DEF s
<1>5. Harmless(Lost(s))
  BY <1>1, <1>3, <1>4 DEF Harmless, Lost
<1>6. Sits(s, Len(stack) + 2, sBearingHash', sThreadDest')
  BY <1>1, <1>2, <1>4 DEF Sits
<1> QED
  BY <1>1, <1>5, <1>6, PushPiles

\* A keyboard that is on no field is wrong of none.
LEMMA Unbinds ==
  ASSUME Bound, G!unbound, alert' \in {alert, "none"}
  PROVE  Bound'
BY DEF Bound, G!unbound

LEMMA ListPiles == ASSUME Pile, G!OpensList, UNCHANGED sBearingHash PROVE Pile'
<1> DEFINE s == G!Screen("list", "none")
<1>1. G!push(s, sThreadCol) /\ sThreadDest' = sThreadDest /\ sBearingHash' = sBearingHash
  BY DEF G!OpensList
<1>2. s \in Screens /\ s.kind = "list"
  BY ScreenIs DEF Kinds
<1> HIDE DEF s
<1> QED
  BY <1>1, <1>2, OverAny

LEMMA ThreadPiles == ASSUME Pile, NEW peer \in Senders, G!openThreadScreen(peer), UNCHANGED sBearingHash PROVE Pile'
<1> DEFINE s == G!Screen("thread", peer)
<1>1. G!push(s, TRUE) /\ sThreadDest' = peer /\ sBearingHash' = sBearingHash
  BY DEF G!openThreadScreen
<1>2. s \in Screens /\ s.kind = "thread" /\ s.peer = peer
  BY ScreenIs DEF Kinds
<1> HIDE DEF s
<1> QED
  BY <1>1, <1>2, OverAny

LEMMA MeshPiles ==
  ASSUME Pile, G!openDestinations \/ G!openPlot \/ (\E peer \in Senders : G!openDetail(peer))
  PROVE  Pile'
<1>1. ASSUME NEW k \in {"mesh", "detail", "plot"}, NEW peer \in Senders \cup {"none"}, G!push(G!Screen(k, peer), sThreadCol),
             IF k = "mesh" THEN active.kind = "home" ELSE active.kind = "mesh",
             UNCHANGED <<sThreadDest, sBearingHash>>
      PROVE  Pile'
  <2>1. G!Screen(k, peer) \in Screens /\ G!Screen(k, peer).kind = k /\ G!Screen(k, peer).own
    BY ScreenIs DEF Kinds
  <2> QED
    BY <1>1, <2>1, OverMesh
<1>2. CASE G!openDestinations
  BY <1>1, <1>2 DEF G!openDestinations
<1>3. CASE G!openPlot
  BY <1>1, <1>3 DEF G!openPlot
<1>4. ASSUME NEW peer \in Senders, G!openDetail(peer) PROVE Pile'
  BY <1>1, <1>4 DEF G!openDetail
<1> QED
  BY <1>2, <1>3, <1>4

LEMMA QuickPiles == ASSUME Pile, G!openQuick PROVE Pile'
<1> DEFINE s == [G!Screen("quick", active.peer) EXCEPT !.own = active.own]
<1>1. G!push(s, sThreadCol) /\ sThreadDest' = sThreadDest /\ sBearingHash' = sBearingHash /\ active.kind = "thread"
  BY DEF G!openQuick
<1>2. active \in Screens /\ (active.own => sThreadDest = active.peer)
  BY <1>1 DEF Pile, Lies, Sits
<1>3. G!Screen("quick", active.peer) \in Screens /\ G!Screen("quick", active.peer).kind = "quick"
      /\ G!Screen("quick", active.peer).peer = active.peer
  BY <1>2, ScreenIs DEF Kinds, Screens
<1>4. s \in Screens /\ s.kind = "quick" /\ s.peer = active.peer /\ (s.own <=> active.own)
  BY <1>2, <1>3 DEF Screens
<1> HIDE DEF s
<1> QED
  BY <1>1, <1>2, <1>4, OverAny

LEMMA SlidPiles == ASSUME Pile, G!Slid PROVE Pile'
<1> DEFINE blinded == G!Forgotten({dying})
<1>1. blinded \subseteq {"list"}
  BY DEF G!Forgotten
<1>2. /\ stack' = G!Stacked(stack, blinded) /\ active' = G!Disowned(active, blinded) /\ dying' = G!NoScreen
      /\ UNCHANGED <<sThreadDest, sBearingHash>>
  BY DEF G!Slid
<1>3. G!NoScreen \in Screens
  BY AtHome
<1> HIDE DEF blinded
<1>4. Harmless(blinded)
  BY <1>1, <1>2 DEF Harmless
<1> QED
  BY <1>2, <1>3, <1>4, PileStays

\* Who is on the glass once the bottom is home is not a field.
LEMMA RootBinds ==
  ASSUME ShellInv, G!toRoot, UNCHANGED <<box, alert>>
  PROVE  Bound'
<1>1. CASE G!atRoot
  <2>1. active.kind = "home"
    BY <1>1, Lowest DEF ShellInv
  <2>2. kb' = kb /\ kb # "screen"
    BY <1>1, <2>1 DEF G!toRoot, ShellInv, Bound
  <2> QED
    BY <2>2 DEF ShellInv, Bound
<1>2. CASE ~G!atRoot
  BY <1>2, Unbinds DEF G!toRoot, ShellInv
<1> QED
  BY <1>1, <1>2

LEMMA BackBinds == ASSUME Bound, G!back, UNCHANGED <<box, alert>> PROVE Bound'
<1>1. CASE G!atRoot
  BY <1>1 DEF G!back, Bound
<1>2. CASE ~G!atRoot
  BY <1>2, Unbinds DEF G!back
<1> QED
  BY <1>1, <1>2

\* The keys of the board.
LEMMA KeysKeep == ASSUME ShellInv, G!Keys PROVE ShellInv'
<1>1. CASE G!keyBack
  BY <1>1, BackPiles, BackBinds DEF G!keyBack, ShellInv
<1>2. CASE G!keyHome
  BY <1>2, RootPiles, RootBinds DEF G!keyHome, ShellInv
<1>3. CASE G!keyMessages
  BY <1>3, PagePiles, RootBinds DEF G!keyMessages, ShellInv
<1>4. CASE G!keyMap
  BY <1>4, PagePiles, RootBinds DEF G!keyMap, ShellInv
<1> QED
  BY <1>1, <1>2, <1>3, <1>4 DEF G!Keys

\* What is on the glass stays: the pile does.
LEMMA Same == ASSUME Pile, UNCHANGED <<stack, active, dying, sThreadDest, sBearingHash>> PROVE Pile'
BY DEF Pile, Lies

LEMMA TapsKeep == ASSUME ShellInv, G!Taps PROVE ShellInv'
<1>0. Pile /\ Bound
  BY DEF ShellInv
<1>1. CASE G!openMessages
  BY <1>0, <1>1, ListPiles, Unbinds DEF G!openMessages, ShellInv
<1>2. CASE G!newConversation \/ G!sendCurrent
  BY <1>0, <1>2, Same, Unbinds DEF G!newConversation, G!sendCurrent, G!Kept, ShellInv
<1>3. CASE G!closeBox \/ G!kbEvent \/ G!dismiss
  BY <1>0, <1>3, Same, Unbinds DEF G!closeBox, G!kbEvent, G!dismiss, G!Kept, ShellInv
<1>4. CASE G!openQuick
  BY <1>0, <1>4, QuickPiles, Unbinds DEF G!openQuick, ShellInv
<1>5. CASE G!quickSend \/ G!trash \/ G!backEvent
  BY <1>0, <1>5, BackPiles, BackBinds DEF G!quickSend, G!trash, G!backEvent, ShellInv
<1>6. CASE G!openDestinations \/ G!openPlot
  BY <1>0, <1>6, MeshPiles, Unbinds DEF G!openDestinations, G!openPlot, ShellInv
<1>7. CASE G!openBearing
  BY <1>0, <1>7, DialPiles, Unbinds DEF G!openBearing, ShellInv
<1>8. CASE G!taFocusEvent
  <2>1. Pile'
    BY <1>0, <1>8, Same DEF G!taFocusEvent, G!Kept
  <2>2. Bound'
    BY <1>0, <1>8 DEF G!taFocusEvent, G!Kept, Bound
  <2> QED
    BY <2>1, <2>2 DEF ShellInv
<1>9. CASE G!openAlert
  <2>1. Bound'
    BY <1>0, <1>9, Unbinds DEF G!openAlert
  <2>2. CASE alert = G!System
    BY <1>0, <1>9, <2>1, <2>2, ListPiles DEF G!openAlert, ShellInv
  <2>3. CASE alert # G!System
    <3>1. alert \in Senders
      BY <1>0, <1>9, <2>3 DEF Bound, G!openAlert
    <3> QED
      BY <1>0, <1>9, <2>1, <2>3, <3>1, ThreadPiles DEF G!openAlert, ShellInv
  <2> QED
    BY <2>2, <2>3
<1>10. ASSUME NEW peer \in Senders, G!openThread(peer) PROVE ShellInv'
  BY <1>0, <1>10, ThreadPiles, Unbinds DEF G!openThread, ShellInv
<1>11. ASSUME NEW peer \in Senders, G!openTyped(peer) PROVE ShellInv'
  BY <1>0, <1>11, ThreadPiles, Unbinds DEF G!openTyped, ShellInv
<1>12. ASSUME NEW peer \in Senders, G!openDetail(peer) PROVE ShellInv'
  BY <1>0, <1>12, MeshPiles, Unbinds DEF G!openDetail, ShellInv
<1> QED
  BY <1>1, <1>2, <1>3, <1>4, <1>5, <1>6, <1>7, <1>8, <1>9, <1>10, <1>11, <1>12 DEF G!Taps

\* The timers, and what other tasks bring.
LEMMA OthersKeep == ASSUME ShellInv, G!Timers \/ G!Others PROVE ShellInv'
<1>0. Pile /\ Bound
  BY DEF ShellInv
<1>1. CASE G!Slid
  <2>1. active \in Screens /\ active' = G!Disowned(active, G!Forgotten({dying}))
    BY <1>0, <1>1, Lowest DEF G!Slid
  <2>2. active'.kind = active.kind
    BY <2>1, DisownedIs
  <2>3. Bound'
    BY <1>0, <1>1, <2>2 DEF G!Slid, Bound
  <2> QED
    BY <1>0, <1>1, <2>3, SlidPiles DEF ShellInv
<1>2. CASE G!refreshHome \/ G!listTick \/ G!threadTick \/ G!Arrives
  BY <1>0, <1>2, Same DEF G!refreshHome, G!listTick, G!threadTick, G!Arrives, G!glass, ShellInv, Bound
<1>3. CASE G!retheme
  BY <1>0, <1>3, RootPiles, RootBinds DEF G!retheme, ShellInv
<1>4. ASSUME NEW from \in Senders \cup {G!System}, G!showIncoming(from) PROVE ShellInv'
  BY <1>0, <1>4, Same DEF G!showIncoming, G!glass, ShellInv, Bound
<1>5. ASSUME NEW on \in BOOLEAN, G!showIdle(on) PROVE ShellInv'
  BY <1>0, <1>5, Same DEF G!showIdle, G!glass, ShellInv, Bound
<1> QED
  BY <1>1, <1>2, <1>3, <1>4, <1>5 DEF G!Timers, G!Others

LEMMA ShellSteps == ShellInv /\ [G!Next]_G!vars => ShellInv'
<1> SUFFICES ASSUME ShellInv, [G!Next]_G!vars PROVE ShellInv'
  OBVIOUS
<1>1. CASE UNCHANGED G!vars
  BY <1>1, Same DEF ShellInv, Bound, G!vars, G!glass
<1> QED
  BY <1>1, KeysKeep, TapsKeep, OthersKeep DEF G!Next

\* Of UiShell.cpp and the screens' own files: for a stack of any depth and any
\* peers, in whatever order taps, keys, timers and slides fall, the keyboard is
\* on no field that is gone, home is under it all, of a kind one screen at most
\* has the statics, and a dial, a plot or an owned thread on the glass has its.
THEOREM ScreensAlwaysTrue == G!Spec => []ScreensTrue
<1>1. ASSUME ShellInv PROVE G!StackSound /\ G!GlassTrue
  <2>1. DOMAIN stack = 1 .. Len(stack) /\ \A i \in 1 .. Len(stack) : stack[i].kind = "home" <=> i = 1
    BY <1>1 DEF ShellInv, Pile, Lies, Sits
  <2>2. \A i, j \in DOMAIN stack : stack[i].kind = stack[j].kind /\ stack[i].own /\ stack[j].own => i = j
    BY <1>1 DEF ShellInv, Pile, Rivals
  <2>3. kb # "gone" /\ (kb = "screen" => active.kind = "thread") /\ (kb = "box" => box)
    BY <1>1 DEF ShellInv, Bound
  <2>4. G!GlassTrue
    BY <1>1 DEF ShellInv, Pile, Lies, Sits, G!GlassTrue
  <2> QED
    BY <2>1, <2>2, <2>3, <2>4 DEF G!StackSound
<1> QED
  BY <1>1, ShellInit, ShellSteps, PTL DEF G!Spec, ScreensTrue

-----------------------------------------------------------------------------
(* The panel: what each function of a pass leaves of the display, whichever *)
(* panel it is.                                                             *)

PageNames == {"status", "neighbors", "transport", "radio", "network", "gps", "env", "qr"}
Drawings == [page : PageNames \cup {"none", "booting", "noise"}, value : {0, 1}]
Ages == 0 .. Oldest
Displays ==
  [page : PageNames, pageAge : Ages, quiet : Ages, blank : BOOLEAN, idle : BOOLEAN,
   due : BOOLEAN, paintAge : Ages, frame : Drawings, every : Nat,
   showAge : Ages, sinceFull : Nat, urgent : BOOLEAN, told : Nat \cup {-1}, bright : Nat,
   lit : BOOLEAN, blanked : BOOLEAN, light : 0 .. 16,
   asleep : BOOLEAN, resume : BOOLEAN, mode : {0, 1}, ready : BOOLEAN, fasts : Nat,
   glass : Drawings, installing : BOOLEAN, claimed : BOOLEAN, ordered : BOOLEAN,
   btn : [held : Nat \cup {-1}, long : BOOLEAN, up : {0, 1}]]

\* The light and what the panel was told of it.
Lights(s) ==
  /\ s.told # -1 => s.bright = s.told
  /\ panelKind = "tft" =>
       /\ s.blanked = s.blank /\ (s.lit => ~s.blank) /\ (s.light > 0 <=> s.lit)
       /\ ~s.blank => s.bright > 0

\* What the controller of an e-paper still holds, and how long since it was cleaned.
Ink(s) ==
  panelKind = "eink" =>
    /\ s.ready \/ s.asleep \/ s.resume
    /\ s.fasts <= s.sinceFull /\ s.sinceFull <= FullEvery
    /\ s.glass.page # "noise"

Paced(s) == s.every = D!cadence(s.page) /\ s.paintAge <= s.showAge

\* Of a panel that shows pages: what was drawn last is on the glass, and is the page.
First(s) == s.frame = D!NoFrame /\ s.due
Drawn(s) ==
  /\ s.due => s.urgent \/ s.frame = D!NoFrame
  /\ ~s.blank => First(s) \/ (s.glass = s.frame /\ s.frame.page = s.page)
\* What it says is no older than the last painting; m is for how long it did not say it.
Behind(s, m) == ~s.blank => First(s) \/ s.glass = D!FrameOf(s.page) \/ m <= s.paintAge

Sound(s) == s \in Displays /\ Lights(s) /\ Ink(s)
Rests(s) == (s.blank \/ ~shell) => ~s.idle
Good(s, m) == Sound(s) /\ Rests(s) /\ (~shell => Paced(s) /\ Drawn(s) /\ Behind(s, m))

Setting ==
  /\ panelKind \in {"oled", "eink", "tft"} /\ shell \in BOOLEAN /\ (shell => panelKind = "tft")
  /\ value \in {0, 1} /\ busy \in BOOLEAN /\ notice \in BOOLEAN /\ unseen \in Ages
PanelInv ==
  /\ Setting /\ Sound(d) /\ Rests(d) /\ D!ClaimSeen
  /\ ~shell => Paced(d) /\ Drawn(d)
  /\ ~shell /\ ~d.blank =>
       /\ unseen <= d.paintAge /\ d.paintAge < D!cadence(d.page)
       /\ First(d) => d.glass = D!Booting

LEMMA CadenceIs ==
  ASSUME NEW page
  PROVE  D!cadence(page) \in 1 .. Oldest
BY PanelAssumption DEF D!cadence

LEMMA OlderIs ==
  ASSUME NEW a \in Ages
  PROVE  /\ D!Older(a) \in Ages /\ a <= D!Older(a)
         /\ \A b \in Ages : b <= a => D!Older(b) <= D!Older(a)
BY PanelAssumption DEF Ages, D!Older

LEMMA PagesAre ==
  /\ D!Pages \in Seq(PageNames) /\ Len(D!Pages) = 8
  /\ \A i \in 1 .. 8 : D!Pages[i] \in PageNames
  /\ \A page \in PageNames : D!Index(page) \in 1 .. 8 /\ D!Pages[D!Index(page)] = page
  /\ D!Pages[1] = "status"
<1>1. /\ D!Pages[1] = "status" /\ D!Pages[2] = "neighbors" /\ D!Pages[3] = "transport" /\ D!Pages[4] = "radio"
      /\ D!Pages[5] = "network" /\ D!Pages[6] = "gps" /\ D!Pages[7] = "env" /\ D!Pages[8] = "qr"
      /\ Len(D!Pages) = 8 /\ D!Pages \in Seq(PageNames)
  BY DEF D!Pages, PageNames
<1>2. \A page \in PageNames : \E i \in 1 .. 8 : D!Pages[i] = page
  BY <1>1 DEF PageNames
<1>3. \A page \in PageNames : D!Index(page) \in 1 .. 8 /\ D!Pages[D!Index(page)] = page
  BY <1>2 DEF D!Index
<1>4. \A i \in 1 .. 8 : D!Pages[i] \in PageNames
  BY <1>1 DEF PageNames
<1> QED
  BY <1>1, <1>3, <1>4

\* A turn of the page ends at a page: the first is never skipped.
LEMMA StepIsPage ==
  ASSUME NEW page \in PageNames, NEW dir \in {1, -1}
  PROVE  D!stepPage(page, dir) \in PageNames
<1> DEFINE Meant(k) == ~D!skipPage(D!Ahead(page, dir, k))
<1>1. PICK i \in 1 .. 8 : i = D!Index(page)
  BY PagesAre
<1>2. \A k \in 1 .. 8 : D!Ahead(page, dir, k) \in PageNames
  <2>0. \A x \in Int : (x % 8) + 1 \in 1 .. 8
    OBVIOUS
  <2>1. \A k \in 1 .. 8 : ((i + 7 + k * dir) % 8) + 1 \in 1 .. 8
    <3>1. \A k \in 1 .. 8 : i + 7 + k * dir \in Int
      OBVIOUS
    <3> QED
      BY <2>0, <3>1
  <2> QED
    BY <1>1, <2>1, PagesAre DEF D!Ahead
<1>3. ~D!skipPage("status")
  BY DEF D!skipPage
<1>4. \E k \in 1 .. 8 : Meant(k)
  <2>1. CASE dir = 1
    <3>1. 9 - i \in 1 .. 8 /\ (i + 7 + (9 - i) * 1) % 8 = 0
      OBVIOUS
    <3>2. D!Ahead(page, dir, 9 - i) = "status"
      BY <1>1, <2>1, <3>1, PagesAre DEF D!Ahead
    <3> QED
      BY <1>3, <3>1, <3>2
  <2>2. CASE dir = -1
    <3>1. PICK k \in 1 .. 8 : (i + 7 + k * (-1)) % 8 = 0
      <4>1. CASE i = 1
        BY <4>1
      <4>2. CASE i # 1
        <5>1. i - 1 \in 1 .. 8 /\ (i + 7 + (i - 1) * (-1)) % 8 = 0
          BY <4>2
        <5> QED
          BY <5>1
      <4> QED
        BY <4>1, <4>2
    <3>2. D!Ahead(page, dir, k) = "status"
      BY <1>1, <2>2, <3>1, PagesAre DEF D!Ahead
    <3> QED
      BY <1>3, <3>2
  <2> QED
    BY <2>1, <2>2
<1>5. \E k \in 1 .. 8 : Meant(k) /\ \A l \in 1 .. (k - 1) : ~Meant(l)
  <2> HIDE DEF Meant
  <2>1. PICK k \in 1 .. 8 : Meant(k)
    BY <1>4
  <2> QED
    BY <2>1
<1>6. D!stepPage(page, dir) = D!Ahead(page, dir, CHOOSE k \in 1 .. 8 : Meant(k) /\ \A l \in 1 .. (k - 1) : ~Meant(l))
  BY DEF D!stepPage
<1> QED
  BY <1>2, <1>5, <1>6

LEMMA FrameIs ==
  ASSUME value \in {0, 1}, NEW page \in PageNames
  PROVE  D!FrameOf(page) \in Drawings /\ D!FrameOf(page).page = page /\ D!FrameOf(page) # D!NoFrame
BY DEF D!FrameOf, D!NoFrame, Drawings, PageNames

-----------------------------------------------------------------------------
\* The backlight.
LEMMA BrightIs ==
  ASSUME NEW s, s.blank \in BOOLEAN, s.idle \in BOOLEAN
  PROVE  /\ D!backlightPct(s) \in Nat
         /\ panelKind = "tft" => (D!backlightPct(s) > 0 <=> ~s.blank)
<1> DEFINE ceiling == IF Bright > 100 THEN 100 ELSE Bright
           stepped == ceiling \div D!kIdleShift(Profile)
           lit == IF stepped < Floor THEN Floor ELSE stepped
<1>1. ceiling \in Nat \ {0} /\ D!kIdleShift(Profile) \in {2, 4, 8}
  BY PanelAssumption DEF D!kIdleShift
<1>2. stepped \in Nat
  BY <1>1
<1>3. lit \in Nat \ {0}
  BY <1>2, PanelAssumption
<1>4. /\ D!level(Bright, "blank", Profile) = 0 /\ D!level(Bright, "active", Profile) = ceiling
      /\ D!level(Bright, "idle", Profile) = (IF lit > ceiling THEN ceiling ELSE lit)
  BY DEF D!level
<1>5. D!stageOf(s) \in {"blank", "active", "idle"} /\ (D!stageOf(s) = "blank" <=> s.blank)
  BY DEF D!stageOf
<1> HIDE DEF ceiling, lit
<1> QED
  BY <1>1, <1>3, <1>4, <1>5, PanelAssumption DEF D!backlightPct

LEMMA PulsesAre ==
  ASSUME NEW light \in 0 .. 16, NEW pct \in Nat
  PROVE  /\ D!backlightSet(light, pct) \in 0 .. 16
         /\ D!backlightSet(light, pct) > 0 <=> pct > 0
<1> DEFINE asked == (pct * 16 + 99) \div 100
           want == IF asked > 16 THEN 16 ELSE asked
           from == IF light = 0 THEN 16 ELSE light
           pulses == (16 + (16 - want) - (16 - from)) % 16
           after == ((from - pulses - 1 + 16) % 16) + 1
<1>1. want \in Int /\ from \in 1 .. 16
  OBVIOUS
<1>2. pulses \in Int
  BY <1>1
<1>3. after \in 1 .. 16
  BY <1>1, <1>2
<1>4. D!backlightSet(light, pct) = IF pct = 0 THEN 0 ELSE after
  BY DEF D!backlightSet
<1> QED
  BY <1>3, <1>4

\* A change of the light leaves the rest of the display alone.
Unlit(s, t) ==
  /\ t \in Displays
  /\ t.page = s.page /\ t.pageAge = s.pageAge /\ t.quiet = s.quiet /\ t.blank = s.blank /\ t.idle = s.idle
  /\ t.due = s.due /\ t.paintAge = s.paintAge /\ t.frame = s.frame /\ t.every = s.every
  /\ t.showAge = s.showAge /\ t.sinceFull = s.sinceFull /\ t.urgent = s.urgent
  /\ t.asleep = s.asleep /\ t.resume = s.resume /\ t.mode = s.mode /\ t.ready = s.ready /\ t.fasts = s.fasts
  /\ t.glass = s.glass /\ t.installing = s.installing /\ t.claimed = s.claimed /\ t.ordered = s.ordered
  /\ t.btn = s.btn

LEMMA ApplyBacklightIs ==
  ASSUME NEW s \in Displays
  PROVE  LET t == D!applyBacklight(s)
         IN  /\ Unlit(s, t) /\ t.told = s.told /\ t.bright = s.bright /\ t.lit = s.lit /\ t.blanked = s.blanked
             /\ IF ~s.lit \/ s.blanked THEN t.light = s.light ELSE t.light > 0 <=> s.bright > 0
<1>1. D!backlightSet(s.light, s.bright) \in 0 .. 16 /\ (D!backlightSet(s.light, s.bright) > 0 <=> s.bright > 0)
  BY PulsesAre DEF Displays
<1> QED
  BY <1>1 DEF D!applyBacklight, Unlit, Displays

LEMMA ApplyBrightnessIs ==
  ASSUME NEW s \in Displays, s.told # -1 => s.bright = s.told
  PROVE  LET t == D!applyBrightness(s)
         IN  /\ Unlit(s, t) /\ t.lit = s.lit /\ t.blanked = s.blanked
             /\ t.told # -1 => t.bright = t.told
             /\ panelKind = "tft" => /\ t.bright = D!backlightPct(s)
                                     /\ \/ t.bright = s.bright /\ t.light = s.light
                                        \/ (~s.lit \/ s.blanked) /\ t.light = s.light
                                        \/ s.lit /\ ~s.blanked /\ (t.light > 0 <=> t.bright > 0)
<1> DEFINE pct == D!backlightPct(s)
           u == [s EXCEPT !.told = pct]
           w == [u EXCEPT !.bright = pct]
<1>1. pct \in Nat
  BY BrightIs DEF Displays
<1>2. w \in Displays /\ Unlit(s, w) /\ w.told = pct /\ w.bright = pct /\ w.lit = s.lit /\ w.blanked = s.blanked /\ w.light = s.light
  BY <1>1 DEF Displays, Unlit
<1>3. CASE panelKind = "eink" \/ pct = s.told
  <2>1. D!applyBrightness(s) = s
    BY <1>3 DEF D!applyBrightness
  <2> QED
    BY <1>1, <1>3, <2>1 DEF Unlit
<1>4. CASE ~(panelKind = "eink" \/ pct = s.told) /\ panelKind = "tft"
  <2>1. D!applyBrightness(s) = D!applyBacklight(w)
    BY <1>4 DEF D!applyBrightness, D!setBrightness
  <2>2. /\ Unlit(w, D!applyBacklight(w))
        /\ D!applyBacklight(w).told = pct /\ D!applyBacklight(w).bright = pct
        /\ D!applyBacklight(w).lit = s.lit /\ D!applyBacklight(w).blanked = s.blanked
        /\ IF ~s.lit \/ s.blanked THEN D!applyBacklight(w).light = s.light
                                  ELSE D!applyBacklight(w).light > 0 <=> pct > 0
    <3> HIDE DEF w
    <3> QED
      BY <1>2, ApplyBacklightIs
  <2> HIDE DEF w, pct
  <2>3. Unlit(s, D!applyBacklight(w))
    BY <1>2, <2>2 DEF Unlit
  <2> QED
    BY <2>1, <2>2, <2>3 DEF pct
<1>5. CASE ~(panelKind = "eink" \/ pct = s.told) /\ panelKind # "tft"
  <2>1. D!applyBrightness(s) = w
    BY <1>5 DEF D!applyBrightness
  <2> HIDE DEF w
  <2> QED
    BY <1>2, <1>5, <2>1
<1> QED
  BY <1>3, <1>4, <1>5

\* Between passes: the light is put where the setting wants it.
LEMMA BrightnessKeeps ==
  ASSUME NEW s, NEW m, Good(s, m)
  PROVE  Good(D!applyBrightness(s), m) /\ Unlit(s, D!applyBrightness(s))
<1> DEFINE t == D!applyBrightness(s)
<1>1. s \in Displays /\ Lights(s)
  BY DEF Good, Sound
<1>2. /\ Unlit(s, t) /\ t.lit = s.lit /\ t.blanked = s.blanked /\ (t.told # -1 => t.bright = t.told)
      /\ panelKind = "tft" => /\ t.bright = D!backlightPct(s)
                              /\ \/ t.bright = s.bright /\ t.light = s.light
                                 \/ (~s.lit \/ s.blanked) /\ t.light = s.light
                                 \/ s.lit /\ ~s.blanked /\ (t.light > 0 <=> t.bright > 0)
  BY <1>1, ApplyBrightnessIs DEF Lights
<1> HIDE DEF t
<1>3. Lights(t)
  <2>1. panelKind = "tft" => (D!backlightPct(s) > 0 <=> ~s.blank)
    BY <1>1, BrightIs DEF Displays
  <2> QED
    BY <1>1, <1>2, <2>1 DEF Lights, Unlit
<1>4. t \in Displays /\ Ink(t) /\ Rests(t)
  BY <1>2 DEF Good, Sound, Unlit, Ink, Rests
<1>5. ~shell => Paced(t) /\ Drawn(t) /\ Behind(t, m)
  BY <1>2 DEF Good, Unlit, Paced, Drawn, Behind, First
<1> QED
  BY <1>2, <1>3, <1>4, <1>5 DEF Good, Sound, t

LEMMA LightUpIs ==
  ASSUME NEW s, Sound(s), panelKind = "tft", ~s.blank
  PROVE  Sound(D!lightUp(s)) /\ Unlit(s, D!lightUp(s)) /\ D!lightUp(s).lit
<1>1. CASE s.lit
  <2>1. D!lightUp(s) = s
    BY <1>1 DEF D!lightUp
  <2> QED
    BY <1>1, <2>1 DEF Sound, Unlit
<1>2. CASE ~s.lit
  <2> DEFINE u == [s EXCEPT !.lit = TRUE]
  <2>1. u \in Displays /\ Unlit(s, u) /\ u.lit /\ ~u.blanked /\ u.bright = s.bright /\ u.told = s.told
    BY DEF Sound, Lights, Displays, Unlit
  <2>2. D!lightUp(s) = D!applyBacklight(u)
    BY <1>2 DEF D!lightUp
  <2> HIDE DEF u
  <2> DEFINE t == D!applyBacklight(u)
  <2>3. /\ Unlit(u, t) /\ t.told = s.told /\ t.bright = s.bright /\ t.lit /\ ~t.blanked
        /\ t.light > 0 <=> s.bright > 0
    BY <2>1, ApplyBacklightIs
  <2> HIDE DEF t
  <2>4. t \in Displays /\ Unlit(s, t)
    BY <2>1, <2>3 DEF Unlit
  <2>5. Lights(t)
    BY <2>3, <2>4 DEF Sound, Lights, Unlit, Displays
  <2>6. Ink(t)
    BY <2>4 DEF Sound, Ink, Unlit
  <2> QED
    BY <2>2, <2>3, <2>4, <2>5, <2>6 DEF Sound, t
<1> QED
  BY <1>1, <1>2

\* What a painting writes of the display, and what an update of the paper does.
Calmed(s) == [s EXCEPT !.urgent = FALSE]
Shown(s, frame, since) ==
  [s EXCEPT !.urgent = FALSE, !.frame = frame, !.showAge = 0, !.sinceFull = since]
Loaded(s, mode, ready) == [s EXCEPT !.mode = mode, !.ready = ready]
Inked(s, fasts, frame) == [s EXCEPT !.fasts = fasts, !.glass = frame]

LEMMA CalmedIs ==
  ASSUME NEW s \in Displays
  PROVE  Calmed(s) \in Displays
BY DEF Calmed, Displays

LEMMA ShownIs ==
  ASSUME NEW s \in Displays, NEW frame \in Drawings, NEW since \in Nat
  PROVE  Shown(s, frame, since) \in Displays
<1> DEFINE u == [s EXCEPT !.urgent = FALSE, !.frame = frame]
           w == [u EXCEPT !.showAge = 0]
<1>1. u \in Displays
  BY DEF Displays
<1>2. Shown(s, frame, since) = [w EXCEPT !.sinceFull = since]
  BY DEF Shown
<1> HIDE DEF u
<1>3. w \in Displays
  BY <1>1, PanelAssumption DEF Displays, Ages
<1> HIDE DEF w
<1> QED
  BY <1>2, <1>3 DEF Displays

LEMMA LoadedIs ==
  ASSUME NEW s \in Displays, NEW mode \in {0, 1}, NEW ready \in BOOLEAN
  PROVE  Loaded(s, mode, ready) \in Displays
BY DEF Loaded, Displays

LEMMA InkedIs ==
  ASSUME NEW s \in Displays, NEW fasts \in Nat, NEW frame \in Drawings
  PROVE  Inked(s, fasts, frame) \in Displays
BY DEF Inked, Displays

\* A frame goes to the glass, and whatever the panel holds, it is shown.
LEMMA FlushIs ==
  ASSUME Setting, NEW s \in Displays, Lights(s), ~s.blank, NEW full \in BOOLEAN, NEW frame \in Drawings,
         panelKind = "eink" =>
           /\ s.ready \/ s.asleep \/ s.resume
           /\ frame.page # "noise" /\ s.sinceFull <= FullEvery /\ (~full => s.fasts + 1 <= s.sinceFull),
         ~shell \/ panelKind = "eink"
  PROVE  LET t == D!flush(s, full, frame)
         IN  /\ Sound(t) /\ t.glass = frame
             /\ t.page = s.page /\ t.pageAge = s.pageAge /\ t.quiet = s.quiet /\ t.blank = s.blank /\ t.idle = s.idle
             /\ t.due = s.due /\ t.paintAge = s.paintAge /\ t.frame = s.frame /\ t.every = s.every
             /\ t.showAge = s.showAge /\ t.sinceFull = s.sinceFull /\ t.urgent = s.urgent
<1> DEFINE t == D!flush(s, full, frame)
<1>1. CASE panelKind = "tft"
  <2> DEFINE u == [s EXCEPT !.glass = frame]
  <2>1. t = D!lightUp(u)
    BY <1>1 DEF D!flush
  <2>2. /\ Sound(u) /\ u.glass = frame /\ u.blank = s.blank /\ u.page = s.page /\ u.pageAge = s.pageAge
        /\ u.quiet = s.quiet /\ u.idle = s.idle /\ u.due = s.due /\ u.paintAge = s.paintAge /\ u.frame = s.frame
        /\ u.every = s.every /\ u.showAge = s.showAge /\ u.sinceFull = s.sinceFull /\ u.urgent = s.urgent
    BY <1>1 DEF Sound, Lights, Ink, Displays
  <2> HIDE DEF u
  <2>3. Sound(D!lightUp(u)) /\ Unlit(u, D!lightUp(u))
    BY <1>1, <2>2, LightUpIs
  <2> QED
    BY <2>1, <2>2, <2>3 DEF Unlit
<1>2. CASE panelKind = "oled"
  <2> DEFINE u == [s EXCEPT !.glass = frame]
  <2>1. t = u
    BY <1>2 DEF D!flush
  <2>2. Sound(u) /\ u.glass = frame
    BY <1>2 DEF Sound, Lights, Ink, Displays
  <2> QED
    BY <2>1, <2>2 DEF Displays
<1>3. CASE panelKind = "eink"
  <2> DEFINE resuming == s.resume \/ s.asleep
             whole == full \/ resuming
             after == [s EXCEPT !.asleep = FALSE, !.resume = FALSE]
             want == IF whole THEN 0 ELSE 1
             mode == IF resuming THEN -1 ELSE s.mode
             ready == IF want # mode THEN whole \/ s.ready ELSE s.ready
             u == [after EXCEPT !.mode = want, !.ready = ready, !.fasts = IF whole THEN 0 ELSE @ + 1,
                     !.glass = IF ready THEN frame ELSE [page |-> "noise", value |-> 0]]
  <2>1. t = u
    BY <1>3 DEF D!flush, D!flushEink, D!beforeUpdate
  <2>2. ready
    BY <1>3
  <2>3. after \in Displays /\ after.fasts = s.fasts
    BY DEF Displays
  <2>4. u.fasts = (IF whole THEN 0 ELSE s.fasts + 1) /\ u.glass = frame /\ u.ready
    BY <2>2, <2>3 DEF Displays
  <2>5. u \in Displays
    <3>1. want \in {0, 1} /\ ready = TRUE /\ after.fasts + 1 \in Nat
      BY <2>2, <2>3 DEF Displays
    <3> DEFINE loaded == Loaded(after, want, ready)
               fasts == IF whole THEN 0 ELSE after.fasts + 1
    <3>2. fasts \in Nat
      BY <3>1
    <3>3. u = Inked(loaded, fasts, frame)
      BY <2>2, <2>3 DEF Displays, Loaded, Inked
    <3> HIDE DEF want, ready, whole, after, fasts
    <3>4. loaded \in Displays
      BY <2>3, <3>1, LoadedIs
    <3> HIDE DEF loaded, u
    <3> QED
      BY <3>2, <3>3, <3>4, InkedIs
  <2>6. /\ u.blank = s.blank /\ u.page = s.page /\ u.pageAge = s.pageAge /\ u.quiet = s.quiet /\ u.idle = s.idle
        /\ u.due = s.due /\ u.paintAge = s.paintAge /\ u.frame = s.frame /\ u.every = s.every
        /\ u.showAge = s.showAge /\ u.sinceFull = s.sinceFull /\ u.urgent = s.urgent
        /\ u.told = s.told /\ u.bright = s.bright
    BY DEF Displays
  <2>7. s.fasts \in Nat /\ s.sinceFull \in Nat
    BY DEF Displays
  <2> HIDE DEF u, ready
  <2>8. Lights(u) /\ Ink(u)
    BY <1>3, <2>4, <2>6, <2>7 DEF Lights, Ink
  <2> QED
    BY <2>1, <2>4, <2>5, <2>6, <2>8 DEF Sound
<1> QED
  BY <1>1, <1>2, <1>3 DEF Setting

\* What a painting may not touch.
SamePage(s, t) ==
  /\ t.page = s.page /\ t.pageAge = s.pageAge /\ t.quiet = s.quiet /\ t.blank = s.blank /\ t.idle = s.idle
  /\ t.due = s.due /\ t.paintAge = s.paintAge /\ t.every = s.every

\* A painting that is not too early for the page leaves the page on the glass,
\* be it because it was there.
LEMMA PaintIs ==
  ASSUME Setting, ~shell, NEW s, Sound(s), ~s.blank, s.every = D!cadence(s.page), s.paintAge = 0,
         s.frame # D!NoFrame => s.glass = s.frame,
         s.frame = D!NoFrame \/ s.urgent \/ s.showAge >= s.every
  PROVE  LET t == D!paint(s)
         IN  /\ Sound(t) /\ SamePage(s, t) /\ t.paintAge <= t.showAge /\ ~t.urgent
             /\ t.frame = D!FrameOf(s.page) /\ t.glass = D!FrameOf(s.page)
<1> DEFINE frame == D!FrameOf(s.page)
           action == D!decide(s, frame)
           t == D!decided(s, frame, action)
           fullDue == panelKind = "eink" /\ (s.frame = D!NoFrame \/ s.sinceFull >= FullEvery)
<1>0. s \in Displays /\ frame \in Drawings /\ frame.page = s.page /\ frame # D!NoFrame /\ s.page \in PageNames
  <2>1. s \in Displays /\ s.page \in PageNames
    BY DEF Sound, Displays
  <2> QED
    BY <2>1, FrameIs DEF Setting
<1> HIDE DEF frame
<1>1. CASE frame = s.frame /\ ~fullDue
  <2> DEFINE u == [s EXCEPT !.urgent = FALSE]
  <2>1. action = "skip"
    BY <1>1 DEF D!decide
  <2>2. D!paint(s) = u
    BY <2>1 DEF D!paint, D!decided, frame
  <2>3. Sound(u) /\ SamePage(s, u) /\ ~u.urgent /\ u.frame = s.frame /\ u.glass = s.glass /\ u.showAge \in Nat
    <3>1. /\ u \in Displays /\ SamePage(s, u) /\ ~u.urgent /\ u.frame = s.frame /\ u.glass = s.glass
          /\ u.told = s.told /\ u.bright = s.bright /\ u.lit = s.lit /\ u.blanked = s.blanked /\ u.light = s.light
          /\ u.ready = s.ready /\ u.asleep = s.asleep /\ u.resume = s.resume /\ u.fasts = s.fasts
          /\ u.sinceFull = s.sinceFull
      <4>0. s \in Displays
        BY <1>0
      <4>1. u \in Displays
        BY <4>0, CalmedIs DEF Calmed
      <4>2. SamePage(s, u) /\ u.urgent = FALSE /\ u.frame = s.frame /\ u.glass = s.glass
        BY <1>0 DEF Displays, SamePage
      <4>3. /\ u.told = s.told /\ u.bright = s.bright /\ u.lit = s.lit /\ u.blanked = s.blanked /\ u.light = s.light
            /\ u.ready = s.ready /\ u.asleep = s.asleep /\ u.resume = s.resume /\ u.fasts = s.fasts
            /\ u.sinceFull = s.sinceFull
        BY <1>0 DEF Displays
      <4> QED
        BY <4>1, <4>2, <4>3
    <3> HIDE DEF u
    <3>2. Lights(u) /\ Ink(u)
      BY <3>1 DEF Sound, Lights, Ink, SamePage
    <3>3. u.showAge \in Nat
      BY <3>1, PanelAssumption DEF Displays, Ages
    <3> QED
      BY <3>1, <3>2, <3>3 DEF Sound
  <2> QED
    BY <1>0, <1>1, <2>2, <2>3 DEF frame, SamePage
<1>2. CASE frame # s.frame \/ fullDue
  <2> DEFINE sinceFull == IF fullDue THEN 0 ELSE IF panelKind = "eink" THEN s.sinceFull + 1 ELSE 0
             u == [s EXCEPT !.urgent = FALSE, !.frame = frame, !.showAge = 0, !.sinceFull = sinceFull]
  <2>1. action = (IF fullDue THEN "full" ELSE "partial")
    <3>1. s.showAge \in Int /\ s.every \in Int
      BY <1>0, PanelAssumption DEF Displays, Ages
    <3> QED
      BY <1>2, <3>1 DEF D!decide
  <2>2. D!paint(s) = D!flush(u, fullDue, frame)
    <3>1. t = u
      BY <2>1 DEF D!decided
    <3> HIDE DEF u
    <3>2. ((action = "full") <=> fullDue) /\ action # "skip"
      <4> HIDE DEF fullDue, action
      <4> QED
        BY <2>1
    <3>3. (action = "full") = fullDue
      <4>1. fullDue \in BOOLEAN
        OBVIOUS
      <4> HIDE DEF fullDue, action
      <4> QED
        BY <3>2, <4>1
    <3>4. D!paint(s) = IF action = "skip" THEN t ELSE D!flush(t, action = "full", frame)
      BY DEF D!paint, frame
    <3> HIDE DEF t, action, fullDue
    <3> QED
      BY <3>1, <3>2, <3>3, <3>4
  <2>3. sinceFull \in Nat /\ 0 \in Ages
    BY <1>0, PanelAssumption DEF Displays, Ages
  <2>4. /\ u \in Displays /\ SamePage(s, u) /\ ~u.urgent /\ u.frame = frame /\ u.showAge = 0
        /\ u.sinceFull = sinceFull
        /\ u.told = s.told /\ u.bright = s.bright /\ u.lit = s.lit /\ u.blanked = s.blanked /\ u.light = s.light
        /\ u.ready = s.ready /\ u.asleep = s.asleep /\ u.resume = s.resume /\ u.fasts = s.fasts
    <3> HIDE DEF sinceFull
    <3>1. u \in Displays
      <4>1. u = Shown(s, frame, sinceFull)
        BY DEF Shown
      <4> HIDE DEF u
      <4> QED
        BY <1>0, <2>3, <4>1, ShownIs
    <3>2. SamePage(s, u) /\ u.urgent = FALSE /\ u.frame = frame /\ u.showAge = 0 /\ u.sinceFull = sinceFull
      BY <1>0 DEF Displays, SamePage
    <3>3. /\ u.told = s.told /\ u.bright = s.bright /\ u.lit = s.lit /\ u.blanked = s.blanked /\ u.light = s.light
          /\ u.ready = s.ready /\ u.asleep = s.asleep /\ u.resume = s.resume /\ u.fasts = s.fasts
      BY <1>0 DEF Displays
    <3> QED
      BY <3>1, <3>2, <3>3
  <2> HIDE DEF u
  <2>5. Lights(u)
    BY <2>4 DEF Sound, Lights, SamePage
  <2>6. panelKind = "eink" =>
           /\ u.ready \/ u.asleep \/ u.resume
           /\ frame.page # "noise" /\ u.sinceFull <= FullEvery /\ (~fullDue => u.fasts + 1 <= u.sinceFull)
    <3>1. frame.page # "noise"
      BY <1>0 DEF PageNames
    <3>2. s.fasts \in Nat /\ s.sinceFull \in Nat /\ FullEvery \in Nat
      BY <1>0, PanelAssumption DEF Displays
    <3> QED
      BY <2>4, <3>1, <3>2 DEF Sound, Ink
  <2> DEFINE v == D!flush(u, fullDue, frame)
  <2>7. /\ Sound(v) /\ v.glass = frame
        /\ v.page = u.page /\ v.pageAge = u.pageAge /\ v.quiet = u.quiet /\ v.blank = u.blank /\ v.idle = u.idle
        /\ v.due = u.due /\ v.paintAge = u.paintAge /\ v.frame = u.frame /\ v.every = u.every
        /\ v.showAge = u.showAge /\ v.sinceFull = u.sinceFull /\ v.urgent = u.urgent
    <3>1. ~u.blank /\ fullDue \in BOOLEAN
      BY <2>4 DEF SamePage
    <3> HIDE DEF fullDue
    <3> QED
      BY <1>0, <2>4, <2>5, <2>6, <3>1, FlushIs
  <2> HIDE DEF v
  <2> QED
    BY <2>2, <2>4, <2>7 DEF v, SamePage, frame
<1> QED
  BY <1>1, <1>2

\* The panel's own way to sleep and back.
LEMMA BlankPanelIs ==
  ASSUME Setting, NEW s \in Displays, NEW on \in BOOLEAN, s.blank = on,
         s.told # -1 => s.bright = s.told,
         panelKind = "tft" => /\ s.bright > 0 <=> ~on
                              /\ s.lit => ~s.blanked
                              /\ s.lit /\ ~on => s.light > 0
                              /\ s.blanked = on /\ ~s.lit => s.light = 0,
         panelKind = "eink" => /\ s.ready \/ s.asleep \/ s.resume
                               /\ s.fasts <= s.sinceFull /\ s.sinceFull <= FullEvery
                               /\ s.glass.page # "noise"
  PROVE  LET t == D!blankPanel(s, on)
         IN  /\ Sound(t) /\ SamePage(s, t) /\ t.frame = s.frame /\ t.glass = s.glass /\ t.showAge = s.showAge
             /\ t.urgent = s.urgent /\ t.claimed = s.claimed /\ t.ordered = s.ordered
<1> DEFINE t == D!blankPanel(s, on)
<1>1. CASE panelKind = "oled"
  BY <1>1 DEF D!blankPanel, Sound, Lights, Ink, SamePage
<1>2. CASE panelKind = "eink"
  <2>1. CASE on
    <3> DEFINE u == [s EXCEPT !.asleep = TRUE, !.ready = FALSE]
    <3>1. t = u
      BY <1>2, <2>1 DEF D!blankPanel, D!blankEink
    <3>2. SamePage(s, u) /\ u.frame = s.frame /\ u.glass = s.glass /\ u.showAge = s.showAge
          /\ u.urgent = s.urgent /\ u.claimed = s.claimed /\ u.ordered = s.ordered
      BY DEF SamePage, Displays
    <3>3. u.told = s.told /\ u.bright = s.bright /\ u.fasts = s.fasts /\ u.sinceFull = s.sinceFull
      BY DEF Displays
    <3>4. u.ready \/ u.asleep \/ u.resume
      BY DEF Displays
    <3>5. u \in Displays
      BY DEF Displays
    <3> HIDE DEF u
    <3>6. Sound(u)
      BY <1>2, <3>2, <3>3, <3>4, <3>5 DEF Sound, Lights, Ink
    <3> QED
      BY <3>1, <3>2, <3>6
  <2>2. CASE ~on /\ s.asleep
    <3> DEFINE u == [s EXCEPT !.asleep = FALSE, !.resume = TRUE]
    <3>1. t = u
      BY <1>2, <2>2 DEF D!blankPanel, D!blankEink
    <3>2. SamePage(s, u) /\ u.frame = s.frame /\ u.glass = s.glass /\ u.showAge = s.showAge
          /\ u.urgent = s.urgent /\ u.claimed = s.claimed /\ u.ordered = s.ordered
      BY DEF SamePage, Displays
    <3>3. u.told = s.told /\ u.bright = s.bright /\ u.fasts = s.fasts /\ u.sinceFull = s.sinceFull
      BY DEF Displays
    <3>4. u.ready \/ u.asleep \/ u.resume
      BY DEF Displays
    <3>5. u \in Displays
      BY DEF Displays
    <3> HIDE DEF u
    <3>6. Sound(u)
      BY <1>2, <3>2, <3>3, <3>4, <3>5 DEF Sound, Lights, Ink
    <3> QED
      BY <3>1, <3>2, <3>6
  <2>3. CASE ~on /\ ~s.asleep
    <3>1. t = s
      BY <1>2, <2>3 DEF D!blankPanel, D!blankEink
    <3> QED
      BY <1>2, <3>1 DEF Sound, Lights, Ink, SamePage
  <2> QED
    BY <2>1, <2>2, <2>3
<1>3. CASE panelKind = "tft"
  <2>1. CASE s.blanked = on /\ s.lit # on
    <3>1. t = s
      BY <1>3, <2>1 DEF D!blankPanel, D!blankTft
    <3>2. Lights(s)
      BY <1>3, <2>1 DEF Lights, Displays
    <3> QED
      BY <1>3, <3>1, <3>2 DEF Sound, Ink, SamePage
  <2>2. CASE ~(s.blanked = on /\ s.lit # on) /\ on
    <3> DEFINE u == [s EXCEPT !.blanked = TRUE, !.lit = FALSE, !.light = 0]
    <3>1. t = u
      BY <1>3, <2>2 DEF D!blankPanel, D!blankTft
    <3>2. u \in Displays /\ SamePage(s, u) /\ u.frame = s.frame /\ u.glass = s.glass /\ u.showAge = s.showAge
          /\ u.urgent = s.urgent /\ u.claimed = s.claimed /\ u.ordered = s.ordered
      <4>1. u \in Displays
        <5> DEFINE v == [s EXCEPT !.blanked = TRUE]
                   w == [v EXCEPT !.lit = FALSE]
        <5>1. v \in Displays
          BY DEF Displays
        <5>2. u = [w EXCEPT !.light = 0]
          OBVIOUS
        <5> HIDE DEF v
        <5>3. w \in Displays
          BY <5>1 DEF Displays
        <5> HIDE DEF w, u
        <5>4. [w EXCEPT !.light = 0] \in Displays
          BY <5>3 DEF Displays
        <5> QED
          BY <5>2, <5>4
      <4>2. SamePage(s, u)
        BY DEF SamePage, Displays
      <4>3. /\ u.frame = s.frame /\ u.glass = s.glass /\ u.showAge = s.showAge
            /\ u.urgent = s.urgent /\ u.claimed = s.claimed /\ u.ordered = s.ordered
        BY DEF Displays
      <4> QED
        BY <4>1, <4>2, <4>3
    <3>3. u.blanked = TRUE /\ u.lit = FALSE /\ u.light = 0 /\ u.told = s.told /\ u.bright = s.bright
      BY DEF Displays
    <3>5. u.blank = TRUE
      <4>1. on = TRUE
        BY <2>2
      <4> QED
        BY <4>1 DEF Displays
    <3> HIDE DEF u
    <3>4. Lights(u)
      <4>1. ~u.lit /\ ~(u.light > 0)
        BY <3>3
      <4>3. u.blank /\ u.blanked = u.blank
        BY <3>3, <3>5
      <4>2. u.told # -1 => u.bright = u.told
        BY <3>3
      <4> QED
        BY <4>1, <4>2, <4>3 DEF Lights
    <3> QED
      BY <1>3, <3>1, <3>2, <3>4 DEF Sound, Ink
  <2>3. CASE ~(s.blanked = on /\ s.lit # on) /\ ~on
    <3> DEFINE w == [s EXCEPT !.blanked = FALSE, !.lit = TRUE]
               u == D!applyBacklight(w)
    <3>1. t = u
      BY <1>3, <2>3 DEF D!blankPanel, D!blankTft
    <3>2. w \in Displays /\ Unlit(s, w) /\ w.blanked = FALSE /\ w.lit = TRUE /\ w.told = s.told /\ w.bright = s.bright
      BY DEF Unlit, Displays
    <3> HIDE DEF w
    <3>3. /\ Unlit(w, u) /\ u.told = w.told /\ u.bright = w.bright /\ u.lit = TRUE /\ u.blanked = FALSE
          /\ u.light > 0 <=> w.bright > 0
      BY <3>2, ApplyBacklightIs
    <3> HIDE DEF u
    <3>4. /\ u.told = s.told /\ u.bright = s.bright /\ u.blank = FALSE /\ u.lit = TRUE /\ u.blanked = FALSE
          /\ u.light > 0 <=> s.bright > 0
      BY <2>3, <3>2, <3>3 DEF Unlit
    <3>5. Lights(u)
      BY <1>3, <2>3, <3>4 DEF Lights
    <3> QED
      BY <1>3, <3>1, <3>2, <3>3, <3>5 DEF Sound, Ink, SamePage, Unlit
  <2> QED
    BY <2>1, <2>2, <2>3
<1> QED
  BY <1>1, <1>2, <1>3 DEF Setting

\* The glass goes dark, or comes back with the page on it.
LEMMA SetBlankIs ==
  ASSUME Setting, NEW s, NEW m, Good(s, m), NEW on \in BOOLEAN, on => ~s.idle, on \/ s.blank
  PROVE  LET t == D!setBlank(s, on)
         IN  /\ Good(t, m) /\ t.blank = on /\ t.quiet = s.quiet /\ t.idle = s.idle
             /\ shell => t.claimed = s.claimed /\ t.ordered = s.ordered
<1> DEFINE s0 == [s EXCEPT !.blank = on]
           s1 == D!applyBrightness(s0)
           s2 == D!blankPanel(s1, on)
           t == D!setBlank(s, on)
<1>1. s \in Displays /\ Lights(s) /\ Ink(s)
  BY DEF Good, Sound
<1>2. /\ s0 \in Displays /\ s0.blank = on /\ s0.told = s.told /\ s0.bright = s.bright /\ s0.lit = s.lit
      /\ s0.blanked = s.blanked /\ s0.light = s.light
  BY <1>1 DEF Displays
<1>3. /\ s0.page = s.page /\ s0.pageAge = s.pageAge /\ s0.quiet = s.quiet /\ s0.idle = s.idle
      /\ s0.due = s.due /\ s0.paintAge = s.paintAge /\ s0.frame = s.frame /\ s0.every = s.every
      /\ s0.showAge = s.showAge /\ s0.sinceFull = s.sinceFull /\ s0.urgent = s.urgent
      /\ s0.asleep = s.asleep /\ s0.resume = s.resume /\ s0.ready = s.ready /\ s0.fasts = s.fasts
      /\ s0.glass = s.glass /\ s0.claimed = s.claimed /\ s0.ordered = s.ordered
  BY <1>1 DEF Displays
<1> HIDE DEF s0
<1>4. s0.told # -1 => s0.bright = s0.told
  BY <1>1, <1>2 DEF Lights
<1>5. /\ Unlit(s0, s1) /\ s1.lit = s0.lit /\ s1.blanked = s0.blanked /\ (s1.told # -1 => s1.bright = s1.told)
      /\ panelKind = "tft" => /\ s1.bright = D!backlightPct(s0)
                              /\ \/ s1.bright = s0.bright /\ s1.light = s0.light
                                 \/ (~s0.lit \/ s0.blanked) /\ s1.light = s0.light
                                 \/ s0.lit /\ ~s0.blanked /\ (s1.light > 0 <=> s1.bright > 0)
  BY <1>2, <1>4, ApplyBrightnessIs
<1> HIDE DEF s1
<1>6. panelKind = "tft" => /\ s1.bright > 0 <=> ~on
                           /\ s1.lit => ~s1.blanked
                           /\ s1.lit /\ ~on => s1.light > 0
                           /\ s1.blanked = on /\ ~s1.lit => s1.light = 0
  <2> SUFFICES ASSUME panelKind = "tft" PROVE
                           /\ s1.bright > 0 <=> ~on
                           /\ s1.lit => ~s1.blanked
                           /\ s1.lit /\ ~on => s1.light > 0
                           /\ s1.blanked = on /\ ~s1.lit => s1.light = 0
    OBVIOUS
  <2>1. D!backlightPct(s0) > 0 <=> ~on
    BY <1>2, BrightIs DEF Displays
  <2>2. s.blanked = s.blank /\ (s.lit => ~s.blank) /\ (s.light > 0 <=> s.lit) /\ s.light \in 0 .. 16
    BY <1>1 DEF Lights, Displays
  <2>3. ~s1.lit => s1.light = 0
    BY <1>2, <1>5, <2>2
  <2>4. s1.lit => ~s1.blanked /\ on
    BY <1>2, <1>5, <2>2
  <2> QED
    BY <1>5, <2>1, <2>3, <2>4
<1>7. /\ s1 \in Displays /\ s1.blank = on
      /\ panelKind = "eink" => /\ s1.ready \/ s1.asleep \/ s1.resume
                               /\ s1.fasts <= s1.sinceFull /\ s1.sinceFull <= FullEvery
                               /\ s1.glass.page # "noise"
  BY <1>1, <1>2, <1>3, <1>5 DEF Unlit, Ink
<1>8. /\ Sound(s2) /\ SamePage(s1, s2) /\ s2.frame = s1.frame /\ s2.glass = s1.glass /\ s2.showAge = s1.showAge
      /\ s2.urgent = s1.urgent /\ s2.claimed = s1.claimed /\ s2.ordered = s1.ordered
  BY <1>5, <1>6, <1>7, BlankPanelIs
<1> HIDE DEF s2
<1>9. /\ s2.page = s.page /\ s2.quiet = s.quiet /\ s2.blank = on /\ s2.idle = s.idle
      /\ s2.due = s.due /\ s2.paintAge = s.paintAge /\ s2.frame = s.frame /\ s2.every = s.every
      /\ s2.showAge = s.showAge /\ s2.urgent = s.urgent /\ s2.glass = s.glass
      /\ s2.claimed = s.claimed /\ s2.ordered = s.ordered
  BY <1>2, <1>3, <1>5, <1>8 DEF Unlit, SamePage
<1>10. CASE on \/ shell
  <2>1. t = s2
    BY <1>10 DEF D!setBlank, s0, s1, s2
  <2>2. Rests(s2)
    BY <1>9 DEF Good, Rests
  <2>3. ~shell => Paced(s2) /\ Drawn(s2) /\ Behind(s2, m)
    <3>1. ~shell => Paced(s) /\ Drawn(s)
      BY DEF Good
    <3>2. ~shell => s2.blank
      BY <1>9, <1>10
    <3> QED
      BY <1>9, <3>1, <3>2 DEF Paced, Drawn, Behind
  <2> QED
    BY <1>8, <1>9, <2>1, <2>2, <2>3 DEF Good
<1>11. CASE ~on /\ ~shell
  <2> DEFINE u == [s2 EXCEPT !.frame = D!NoFrame, !.pageAge = 0, !.paintAge = 0, !.due = FALSE]
             v == D!paint(u)
  <2>1. t = v
    BY <1>11 DEF D!setBlank, s0, s1, s2
  <2>2. /\ Sound(u) /\ u.page = s2.page /\ u.blank = FALSE /\ u.idle = s2.idle /\ u.quiet = s2.quiet
        /\ u.every = s2.every /\ u.paintAge = 0 /\ u.due = FALSE /\ u.frame = D!NoFrame
    <3>1. D!NoFrame \in Drawings /\ 0 \in Ages
      BY PanelAssumption DEF D!NoFrame, Drawings, Ages
    <3>2. u \in Displays
      BY <1>8, <3>1 DEF Sound, Displays
    <3>3. /\ u.told = s2.told /\ u.bright = s2.bright /\ u.lit = s2.lit /\ u.blanked = s2.blanked
          /\ u.light = s2.light /\ u.ready = s2.ready /\ u.asleep = s2.asleep /\ u.resume = s2.resume
          /\ u.fasts = s2.fasts /\ u.glass = s2.glass /\ u.sinceFull = s2.sinceFull /\ u.blank = s2.blank
      BY <1>8 DEF Sound, Displays
    <3>4. /\ u.page = s2.page /\ u.idle = s2.idle /\ u.quiet = s2.quiet
          /\ u.every = s2.every /\ u.paintAge = 0 /\ u.due = FALSE /\ u.frame = D!NoFrame
      BY <1>8 DEF Sound, Displays
    <3>5. u.blank = FALSE
      BY <1>9, <1>11, <3>3
    <3> HIDE DEF u
    <3> QED
      BY <1>8, <3>2, <3>3, <3>4, <3>5 DEF Sound, Lights, Ink
  <2> HIDE DEF u
  <2>3. u.every = D!cadence(u.page)
    BY <1>9, <1>11, <2>2 DEF Good, Paced
  <2>4. /\ Sound(v) /\ SamePage(u, v) /\ v.paintAge <= v.showAge /\ ~v.urgent
        /\ v.frame = D!FrameOf(u.page) /\ v.glass = D!FrameOf(u.page)
    BY <1>11, <2>2, <2>3, PaintIs
  <2> HIDE DEF v
  <2>5. v.page = u.page /\ v.blank = FALSE /\ v.idle = s.idle /\ v.quiet = s.quiet /\ v.every = u.every /\ v.due = FALSE
    BY <1>9, <2>2, <2>4 DEF SamePage
  <2>6. D!FrameOf(u.page).page = u.page
    BY <2>2, FrameIs DEF Setting, Sound, Displays
  <2>7. Paced(v) /\ Drawn(v) /\ Behind(v, m) /\ Rests(v)
    BY <1>11, <2>3, <2>4, <2>5, <2>6 DEF Paced, Drawn, Behind, Rests, Good
  <2> QED
    BY <1>11, <2>1, <2>4, <2>5, <2>7 DEF Good
<1> QED
  BY <1>10, <1>11

\* A painting, as the pass sees it.
LEMMA PaintedIs ==
  ASSUME Setting, ~shell, NEW s, NEW m, Sound(s), ~s.blank, ~s.idle, ~s.due,
         s.every = D!cadence(s.page), s.paintAge = 0,
         s.frame # D!NoFrame => s.glass = s.frame,
         s.frame = D!NoFrame \/ s.urgent \/ s.showAge >= s.every
  PROVE  LET t == D!paint(s)
         IN  /\ Good(t, m) /\ t.glass = D!FrameOf(t.page) /\ t.paintAge = 0 /\ ~t.due /\ ~t.blank
<1> DEFINE t == D!paint(s)
<1>1. /\ Sound(t) /\ SamePage(s, t) /\ t.paintAge <= t.showAge /\ ~t.urgent
      /\ t.frame = D!FrameOf(s.page) /\ t.glass = D!FrameOf(s.page)
  BY PaintIs
<1> HIDE DEF t
<1>2. D!FrameOf(s.page).page = s.page
  BY FrameIs DEF Setting, Sound, Displays
<1>3. /\ t.page = s.page /\ t.blank = s.blank /\ t.idle = s.idle /\ t.due = s.due /\ t.paintAge = 0
      /\ t.every = s.every
  BY <1>1 DEF SamePage
<1>4. Paced(t) /\ Drawn(t) /\ Behind(t, m) /\ Rests(t)
  BY <1>1, <1>2, <1>3 DEF Paced, Drawn, Behind, Rests
<1> QED
  BY <1>1, <1>3, <1>4 DEF Good, t

\* What a key or a finger changes by itself.
LEMMA TouchedIs ==
  ASSUME NEW s, NEW m, Good(s, m)
  PROVE  /\ Good([s EXCEPT !.quiet = 0], m)
         /\ Good([s EXCEPT !.idle = FALSE], m)
         /\ \A b \in [held : Nat \cup {-1}, long : BOOLEAN, up : {0, 1}] : Good([s EXCEPT !.btn = b], m)
<1>0. s \in Displays /\ Lights(s) /\ Ink(s) /\ 0 \in Ages
  BY PanelAssumption DEF Good, Sound, Ages
<1>1. ASSUME NEW t \in Displays, t.idle = s.idle \/ t.idle = FALSE,
             /\ t.page = s.page /\ t.blank = s.blank
             /\ t.due = s.due /\ t.paintAge = s.paintAge /\ t.frame = s.frame /\ t.every = s.every
             /\ t.showAge = s.showAge /\ t.sinceFull = s.sinceFull /\ t.urgent = s.urgent
             /\ t.asleep = s.asleep /\ t.resume = s.resume /\ t.ready = s.ready /\ t.fasts = s.fasts
             /\ t.glass = s.glass,
             /\ t.told = s.told /\ t.bright = s.bright /\ t.lit = s.lit /\ t.blanked = s.blanked
             /\ t.light = s.light
      PROVE  Good(t, m)
  <2>1. Lights(t) /\ Ink(t)
    BY <1>0, <1>1 DEF Lights, Ink
  <2>2. Rests(t)
    BY <1>1 DEF Good, Rests
  <2>3. ~shell => Paced(t) /\ Drawn(t) /\ Behind(t, m)
    BY <1>1 DEF Good, Paced, Drawn, Behind, First
  <2> QED
    BY <1>1, <2>1, <2>2, <2>3 DEF Good, Sound
<1>2. Good([s EXCEPT !.quiet = 0], m)
  <2> DEFINE t == [s EXCEPT !.quiet = 0]
  <2>1. t \in Displays /\ t.idle = s.idle
    BY <1>0 DEF Displays
  <2>2. /\ t.page = s.page /\ t.blank = s.blank
        /\ t.due = s.due /\ t.paintAge = s.paintAge /\ t.frame = s.frame /\ t.every = s.every
        /\ t.showAge = s.showAge /\ t.sinceFull = s.sinceFull /\ t.urgent = s.urgent
        /\ t.asleep = s.asleep /\ t.resume = s.resume /\ t.ready = s.ready /\ t.fasts = s.fasts
        /\ t.glass = s.glass
    BY <1>0 DEF Displays
  <2>3. /\ t.told = s.told /\ t.bright = s.bright /\ t.lit = s.lit /\ t.blanked = s.blanked
        /\ t.light = s.light
    BY <1>0 DEF Displays
  <2> HIDE DEF t
  <2>4. Good(t, m)
    BY <1>1, <2>1, <2>2, <2>3
  <2> QED
    BY <2>4 DEF t
<1>3. Good([s EXCEPT !.idle = FALSE], m)
  <2> DEFINE t == [s EXCEPT !.idle = FALSE]
  <2>1. t \in Displays /\ t.idle = FALSE
    BY <1>0 DEF Displays
  <2>2. /\ t.page = s.page /\ t.blank = s.blank
        /\ t.due = s.due /\ t.paintAge = s.paintAge /\ t.frame = s.frame /\ t.every = s.every
        /\ t.showAge = s.showAge /\ t.sinceFull = s.sinceFull /\ t.urgent = s.urgent
        /\ t.asleep = s.asleep /\ t.resume = s.resume /\ t.ready = s.ready /\ t.fasts = s.fasts
        /\ t.glass = s.glass
    BY <1>0 DEF Displays
  <2>3. /\ t.told = s.told /\ t.bright = s.bright /\ t.lit = s.lit /\ t.blanked = s.blanked
        /\ t.light = s.light
    BY <1>0 DEF Displays
  <2> HIDE DEF t
  <2>4. Good(t, m)
    BY <1>1, <2>1, <2>2, <2>3
  <2> QED
    BY <2>4 DEF t
<1>4. ASSUME NEW b \in [held : Nat \cup {-1}, long : BOOLEAN, up : {0, 1}]
      PROVE  Good([s EXCEPT !.btn = b], m)
  <2> DEFINE t == [s EXCEPT !.btn = b]
  <2>1. t \in Displays /\ t.idle = s.idle
    BY <1>0 DEF Displays
  <2>2. /\ t.page = s.page /\ t.blank = s.blank
        /\ t.due = s.due /\ t.paintAge = s.paintAge /\ t.frame = s.frame /\ t.every = s.every
        /\ t.showAge = s.showAge /\ t.sinceFull = s.sinceFull /\ t.urgent = s.urgent
        /\ t.asleep = s.asleep /\ t.resume = s.resume /\ t.ready = s.ready /\ t.fasts = s.fasts
        /\ t.glass = s.glass
    BY <1>0 DEF Displays
  <2>3. /\ t.told = s.told /\ t.bright = s.bright /\ t.lit = s.lit /\ t.blanked = s.blanked
        /\ t.light = s.light
    BY <1>0 DEF Displays
  <2> HIDE DEF t
  <2>4. Good(t, m)
    BY <1>1, <2>1, <2>2, <2>3
  <2> QED
    BY <2>4 DEF t
<1> QED
  BY <1>2, <1>3, <1>4

\* A turn to a page, before it is painted: nothing of the light or the paper changes.
Turned(s, page, soon, age) ==
  [s EXCEPT !.page = page, !.pageAge = 0, !.every = D!cadence(page), !.urgent = TRUE,
     !.paintAge = age, !.due = soon]
OnlyTurned(s, t, page, soon, age) ==
  /\ t.page = page /\ t.every = D!cadence(page) /\ t.urgent = TRUE /\ t.paintAge = age /\ t.due = soon
  /\ t.frame = s.frame /\ t.glass = s.glass /\ t.blank = s.blank /\ t.idle = s.idle
  /\ t.showAge = s.showAge

LEMMA TurnIs ==
  ASSUME NEW s, Sound(s), NEW page \in PageNames, NEW soon \in BOOLEAN, NEW age \in Ages
  PROVE  LET t == Turned(s, page, soon, age)
         IN  Sound(t) /\ OnlyTurned(s, t, page, soon, age)
<1> DEFINE t == Turned(s, page, soon, age)
<1>1. D!cadence(page) \in Nat /\ 0 \in Ages
  BY CadenceIs, PanelAssumption DEF Ages
<1>2. s \in Displays
  BY DEF Sound
<1>3. t \in Displays
  BY <1>1, <1>2 DEF Displays, Turned
<1>4. /\ t.page = page /\ t.every = D!cadence(page) /\ t.urgent = TRUE /\ t.paintAge = age /\ t.due = soon
      /\ t.frame = s.frame /\ t.glass = s.glass /\ t.blank = s.blank /\ t.idle = s.idle
      /\ t.showAge = s.showAge
  BY <1>2 DEF Displays, Turned
<1>5. /\ t.told = s.told /\ t.bright = s.bright /\ t.lit = s.lit /\ t.blanked = s.blanked
      /\ t.light = s.light /\ t.asleep = s.asleep /\ t.resume = s.resume /\ t.ready = s.ready
      /\ t.fasts = s.fasts /\ t.sinceFull = s.sinceFull
  BY <1>2 DEF Displays, Turned
<1> HIDE DEF t
<1>6. Lights(t) /\ Ink(t)
  BY <1>4, <1>5 DEF Sound, Lights, Ink
<1>7. Sound(t)
  BY <1>3, <1>6 DEF Sound
<1> QED
  BY <1>4, <1>7 DEF t, OnlyTurned

LEMMA AdvanceIs ==
  ASSUME Setting, NEW s, NEW m, Good(s, m), NEW dir \in {1, -1}
  PROVE  Good(D!advancePage(s, dir), m)
<1>1. CASE s.blank
  <2>1. D!advancePage(s, dir) = D!setBlank(s, FALSE)
    BY <1>1 DEF D!advancePage
  <2>2. Good(D!setBlank(s, FALSE), m)
    BY <1>1, SetBlankIs
  <2> QED
    BY <2>1, <2>2
<1>2. CASE ~s.blank /\ shell
  BY <1>2, TouchedIs DEF D!advancePage
<1>3. CASE ~s.blank /\ ~shell
  <2> DEFINE page == D!stepPage(s.page, dir)
             u == Turned(s, page, FALSE, 0)
  <2>1. D!advancePage(s, dir) = D!paint(u)
    BY <1>3 DEF D!advancePage, Turned
  <2>2. page \in PageNames /\ 0 \in Ages /\ Sound(s)
    <3>1. Sound(s)
      BY DEF Good
    <3>2. s.page \in PageNames
      BY <3>1 DEF Sound, Displays
    <3>3. page \in PageNames
      BY <3>2, StepIsPage
    <3> QED
      BY <3>1, <3>3, PanelAssumption DEF Ages
  <2> HIDE DEF page
  <2>3. Sound(u) /\ OnlyTurned(s, u, page, FALSE, 0)
    BY <2>2, TurnIs
  <2> HIDE DEF u
  <2>4. s.frame # D!NoFrame => s.glass = s.frame
    BY <1>3 DEF Good, Drawn, First
  <2>5. ~s.idle
    BY <1>3 DEF Good, Rests
  <2> QED
    BY <1>3, <2>1, <2>3, <2>4, <2>5, PaintedIs DEF OnlyTurned
<1> QED
  BY <1>1, <1>2, <1>3 DEF Setting

LEMMA LongPressIs ==
  ASSUME Setting, NEW s, NEW m, Good(s, m)
  PROVE  Good(D!longPressAction(s), m)
<1>0. s.blank \in BOOLEAN /\ s.idle \in BOOLEAN
  BY DEF Good, Sound, Displays
<1>1. CASE shell /\ ~s.blank
  BY <1>1, TouchedIs DEF D!longPressAction
<1>2. CASE ~(shell /\ ~s.blank)
  <2>1. D!longPressAction(s) = D!setBlank(s, ~s.blank)
    BY <1>2 DEF D!longPressAction
  <2>2. ~s.idle
    BY <1>2 DEF Good, Rests
  <2>3. CASE s.blank
    <3>1. (~s.blank) = FALSE
      BY <2>3
    <3> QED
      BY <2>1, <2>2, <2>3, <3>1, SetBlankIs
  <2>4. CASE ~s.blank
    <3>1. (~s.blank) = TRUE
      BY <2>4
    <3> QED
      BY <2>1, <2>2, <3>1, SetBlankIs
  <2> QED
    BY <2>3, <2>4
<1> QED
  BY <1>1, <1>2

\* What a key or a finger says, done.
LEMMA PollsKeep ==
  ASSUME Setting, NEW s, NEW m, Good(s, m), NEW down \in BOOLEAN,
         NEW event \in {"none", "press", "short", "long"}
  PROVE  /\ Good(D!pollButton(s, down), m) /\ Good(D!pollButton2(s, event), m)
         /\ ~shell => Good(D!pollTouch(s, event), m)
<1>1. Good(D!pollButton(s, down), m)
  <2> DEFINE u == D!update(s.btn, down)
             t == [s EXCEPT !.btn = u.b]
  <2>1. s.btn \in [held : Nat \cup {-1}, long : BOOLEAN, up : {0, 1}]
    BY DEF Good, Sound, Displays
  <2>2. /\ u.b \in [held : Nat \cup {-1}, long : BOOLEAN, up : {0, 1}]
        /\ u.event \in {"none", "press", "short", "long"}
    BY <2>1 DEF D!update
  <2> HIDE DEF u
  <2>3. Good(t, m)
    BY <2>2, TouchedIs
  <2>4. D!pollButton(s, down) =
          CASE u.event = "press" -> [t EXCEPT !.quiet = 0]
            [] u.event = "long"  -> D!longPressAction(t)
            [] u.event = "short" -> D!advancePage(t, 1)
            [] u.event = "none"  -> t
    BY DEF D!pollButton, u
  <2> HIDE DEF t
  <2>5. Good([t EXCEPT !.quiet = 0], m)
    BY <2>3, TouchedIs
  <2>6. Good(D!longPressAction(t), m)
    BY <2>3, LongPressIs
  <2>7. Good(D!advancePage(t, 1), m)
    BY <2>3, AdvanceIs
  <2> QED
    BY <2>2, <2>3, <2>4, <2>5, <2>6, <2>7
<1>2. Good([s EXCEPT !.quiet = 0], m)
  BY TouchedIs
<1>3. Good(D!pollButton2(s, event), m)
  <2>1. Good(D!advancePage(s, -1), m)
    BY AdvanceIs
  <2>2. Good(D!longPressAction(s), m)
    BY LongPressIs
  <2> QED
    BY <1>2, <2>1, <2>2 DEF D!pollButton2
<1>4. ASSUME ~shell
      PROVE  Good(D!pollTouch(s, event), m)
  <2>1. Good(D!advancePage(s, 1), m)
    BY AdvanceIs
  <2>2. Good(D!setBlank(s, ~s.blank), m)
    <3>1. ~s.idle /\ s.blank \in BOOLEAN
      BY <1>4 DEF Good, Rests, Sound, Displays
    <3>2. CASE s.blank
      <4>1. (~s.blank) = FALSE
        BY <3>2
      <4> QED
        BY <3>1, <3>2, <4>1, SetBlankIs
    <3>3. CASE ~s.blank
      <4>1. (~s.blank) = TRUE
        BY <3>3
      <4> QED
        BY <3>1, <4>1, SetBlankIs
    <3> QED
      BY <3>2, <3>3
  <2> QED
    BY <1>2, <2>1, <2>2 DEF D!pollTouch
<1> QED
  BY <1>1, <1>3, <1>4

\* The end of a pass that shows pages: the page is drawn when it is due, or
\* is not due yet.
LEMMA PageRestIs ==
  ASSUME Setting, ~shell, NEW s, NEW m, Good(s, m)
  PROVE  LET v == D!pageRest(s)
         IN  /\ Good(v, m)
             /\ ~v.blank => /\ ~v.due /\ v.paintAge < D!cadence(v.page)
                            /\ v.glass = D!FrameOf(v.page) \/ m <= v.paintAge
<1> DEFINE t == IF D!blanks /\ ~s.blank /\ s.quiet > Sleep THEN D!setBlank(s, TRUE) ELSE s
           back == t.page # "status" /\ t.pageAge > PageTimeout
           u == IF back THEN Turned(t, "status", TRUE, t.paintAge) ELSE t
           ripe == ~u.blank /\ (u.due \/ u.paintAge >= D!cadence(u.page))
           w == [u EXCEPT !.paintAge = 0, !.due = FALSE]
           v == D!pageRest(s)
<1>1. Good(t, m)
  <2>1. ~s.idle
    BY DEF Good, Rests
  <2>2. Good(D!setBlank(s, TRUE), m)
    BY <2>1, SetBlankIs
  <2> QED
    BY <2>2
<1> HIDE DEF t
<1>2. t \in Displays /\ Sound(t) /\ Paced(t) /\ Drawn(t) /\ Behind(t, m) /\ ~t.idle
  BY <1>1 DEF Good, Sound, Rests
<1>6. t.paintAge \in Nat /\ D!cadence(t.page) \in Nat /\ t.showAge \in Nat /\ 0 \in Ages
  <2>1. t.paintAge \in 0 .. Oldest /\ t.showAge \in 0 .. Oldest
    BY <1>2 DEF Displays, Ages
  <2>2. Oldest \in Nat /\ D!cadence(t.page) \in 1 .. Oldest
    BY PanelAssumption, CadenceIs
  <2> QED
    BY <2>1, <2>2 DEF Ages
<1>3. v = IF ripe THEN D!paint(w) ELSE u
  <2>1. u = IF back THEN [t EXCEPT !.page = "status", !.pageAge = 0, !.every = D!cadence("status"),
                                   !.urgent = TRUE, !.due = TRUE]
            ELSE t
    BY <1>2 DEF Turned, Displays
  <2> QED
    BY <2>1 DEF D!pageRest, t
<1>4. CASE ~back
  <2>1. u = t
    BY <1>4
  <2> HIDE DEF u, back
  <2>4. ripe <=> ~t.blank /\ (t.due \/ t.paintAge >= D!cadence(t.page))
    BY <2>1
  <2>5. v = IF ripe THEN D!paint(w) ELSE t
    BY <1>3, <2>1
  <2> HIDE DEF ripe, v
  <2>2. CASE ~ripe
    <3>1. v = t
      BY <2>2, <2>5
    <3>3. ~t.blank => ~t.due /\ t.paintAge < D!cadence(t.page)
      BY <1>6, <2>2, <2>4
    <3>4. ~t.blank => t.glass = D!FrameOf(t.page) \/ m <= t.paintAge
      BY <1>2, <3>3 DEF Behind, First
    <3> QED
      BY <1>1, <3>1, <3>3, <3>4 DEF v
  <2>3. CASE ripe
    <3>1. v = D!paint(w) /\ ~t.blank
      BY <2>3, <2>4, <2>5
    <3>2. w = [t EXCEPT !.paintAge = 0, !.due = FALSE]
      BY <2>1
    <3>3. /\ w.page = t.page /\ w.every = t.every /\ w.frame = t.frame /\ w.glass = t.glass
          /\ w.blank = t.blank /\ w.idle = t.idle /\ w.showAge = t.showAge /\ w.urgent = t.urgent
          /\ w.paintAge = 0 /\ w.due = FALSE
      BY <1>2, <3>2 DEF Displays
    <3>4. /\ w.told = t.told /\ w.bright = t.bright /\ w.lit = t.lit /\ w.blanked = t.blanked
          /\ w.light = t.light /\ w.asleep = t.asleep /\ w.resume = t.resume /\ w.ready = t.ready
          /\ w.fasts = t.fasts /\ w.sinceFull = t.sinceFull
      BY <1>2, <3>2 DEF Displays
    <3>5. w \in Displays
      <4> HIDE DEF w
      <4> QED
        BY <1>2, <1>6, <3>2 DEF Displays
    <3> HIDE DEF w
    <3>7. w.frame = D!NoFrame \/ w.urgent \/ w.showAge >= w.every
      BY <1>2, <1>6, <2>3, <2>4, <3>3 DEF Paced, Drawn
    <3>8. w.frame # D!NoFrame => w.glass = w.frame
      BY <1>2, <3>1, <3>3 DEF Drawn, First
    <3>9. Sound(w)
      BY <1>2, <3>3, <3>4, <3>5 DEF Sound, Lights, Ink
    <3>10. /\ Good(D!paint(w), m) /\ D!paint(w).glass = D!FrameOf(D!paint(w).page)
           /\ D!paint(w).paintAge = 0 /\ ~D!paint(w).due /\ ~D!paint(w).blank
      BY <1>2, <3>1, <3>3, <3>7, <3>8, <3>9, PaintedIs DEF Paced
    <3>11. D!cadence(D!paint(w).page) \in 1 .. Oldest
      BY CadenceIs
    <3> QED
      BY <3>1, <3>10, <3>11, PanelAssumption DEF v
  <2> QED
    BY <2>2, <2>3 DEF v
<1>5. CASE back
  <2>1. u = Turned(t, "status", TRUE, t.paintAge)
    BY <1>5
  <2>2. Sound(u) /\ OnlyTurned(t, u, "status", TRUE, t.paintAge)
    <3>1. "status" \in PageNames /\ t.paintAge \in Ages
      BY <1>2 DEF Displays, PageNames
    <3> QED
      BY <1>2, <2>1, <3>1, TurnIs
  <2> HIDE DEF u
  <2>3. CASE u.blank
    <3>1. v = u
      BY <1>3, <2>3
    <3>2. Paced(u) /\ Drawn(u) /\ Behind(u, m) /\ Rests(u)
      BY <1>2, <2>2, <2>3 DEF OnlyTurned, Paced, Drawn, Behind, Rests
    <3> QED
      BY <2>2, <2>3, <3>1, <3>2 DEF Good
  <2>4. CASE ~u.blank
    <3>1. v = D!paint(w)
      BY <1>3, <2>2, <2>4 DEF OnlyTurned
    <3>2. /\ w.page = u.page /\ w.every = u.every /\ w.frame = u.frame /\ w.glass = u.glass
          /\ w.blank = u.blank /\ w.idle = u.idle /\ w.showAge = u.showAge /\ w.urgent = u.urgent
          /\ w.paintAge = 0 /\ w.due = FALSE
      BY <2>2 DEF Sound, Displays
    <3>3. /\ w.told = u.told /\ w.bright = u.bright /\ w.lit = u.lit /\ w.blanked = u.blanked
          /\ w.light = u.light /\ w.asleep = u.asleep /\ w.resume = u.resume /\ w.ready = u.ready
          /\ w.fasts = u.fasts /\ w.sinceFull = u.sinceFull
      BY <2>2 DEF Sound, Displays
    <3>4. w \in Displays
      BY <1>6, <2>2 DEF Sound, Displays
    <3> HIDE DEF w
    <3>5. Sound(w)
      BY <2>2, <3>2, <3>3, <3>4 DEF Sound, Lights, Ink
    <3>6. w.frame # D!NoFrame => w.glass = w.frame
      BY <1>2, <2>2, <2>4, <3>2 DEF OnlyTurned, Drawn, First
    <3>7. /\ Good(D!paint(w), m) /\ D!paint(w).glass = D!FrameOf(D!paint(w).page)
          /\ D!paint(w).paintAge = 0 /\ ~D!paint(w).due /\ ~D!paint(w).blank
      BY <1>2, <2>2, <2>4, <3>2, <3>5, <3>6, PaintedIs DEF OnlyTurned
    <3>8. D!cadence(D!paint(w).page) \in 1 .. Oldest
      BY CadenceIs
    <3> QED
      BY <3>1, <3>7, <3>8, PanelAssumption
  <2> QED
    BY <2>3, <2>4
<1> QED
  BY <1>4, <1>5

\* The end of a pass of the shell: what is to be seen is on a lit glass.
LEMMA RestTickIs ==
  ASSUME Setting, shell, NEW s, NEW m, Good(s, m), NEW touched \in BOOLEAN
  PROVE  LET t == D!restTick(s, touched)
         IN  Good(t, m) /\ (touched => ~t.idle) /\ (t.claimed => ~t.blank /\ ~t.idle)
<1> DEFINE claimed == notice \/ busy
           t == [s EXCEPT !.quiet = IF touched \/ claimed THEN 0 ELSE @,
                          !.idle = IF claimed THEN FALSE ELSE @,
                          !.installing = busy, !.claimed = claimed]
           r == D!restTick(s, touched)
<1>1. /\ s \in Displays /\ Lights(s) /\ Ink(s) /\ Rests(s) /\ 0 \in Ages /\ claimed \in BOOLEAN
      /\ notice \in BOOLEAN /\ busy \in BOOLEAN /\ panelKind = "tft"
  BY PanelAssumption DEF Setting, Good, Sound, Ages
<1>2. r = CASE claimed -> IF t.blank THEN D!setBlank(t, FALSE) ELSE t
            [] ~claimed /\ t.blank -> t
            [] ~claimed /\ ~t.blank /\ t.quiet > 4 * Sleep -> D!setBlank([t EXCEPT !.idle = FALSE], TRUE)
            [] OTHER -> [t EXCEPT !.idle = t.quiet > Sleep]
  BY DEF D!restTick
<1>3. t \in Displays
  <2> HIDE DEF claimed
  <2> DEFINE quiet == IF touched \/ claimed THEN 0 ELSE s.quiet
             dozing == IF claimed THEN FALSE ELSE s.idle
  <2>1. quiet \in Ages /\ dozing \in BOOLEAN
    BY <1>1 DEF Displays
  <2>2. t = [s EXCEPT !.quiet = quiet, !.idle = dozing, !.installing = busy, !.claimed = claimed]
    OBVIOUS
  <2> DEFINE u == [s EXCEPT !.quiet = quiet, !.idle = dozing]
  <2>3. s \in Displays /\ busy \in BOOLEAN /\ claimed \in BOOLEAN
    BY <1>1
  <2>4. t = [u EXCEPT !.installing = busy, !.claimed = claimed]
    BY <2>2
  <2> HIDE DEF quiet, dozing, t
  <2>5. u \in Displays
    BY <2>1, <2>3 DEF Displays
  <2> HIDE DEF u
  <2> DEFINE w == [u EXCEPT !.installing = busy]
  <2>6. t = [w EXCEPT !.claimed = claimed]
    BY <2>4
  <2>7. w \in Displays
    BY <2>3, <2>5 DEF Displays
  <2> HIDE DEF w
  <2> QED
    BY <2>3, <2>6, <2>7 DEF Displays
<1>4. /\ t.blank = s.blank /\ t.claimed = claimed /\ t.idle = (IF claimed THEN FALSE ELSE s.idle)
      /\ t.quiet = (IF touched \/ claimed THEN 0 ELSE s.quiet)
  BY <1>1 DEF Displays
<1>5. /\ t.told = s.told /\ t.bright = s.bright /\ t.lit = s.lit /\ t.blanked = s.blanked /\ t.light = s.light
  BY <1>1 DEF Displays
<1> HIDE DEF t, claimed, r
<1>6. Good(t, m)
  <2>1. Lights(t) /\ Ink(t)
    BY <1>1, <1>4, <1>5 DEF Lights, Ink
  <2>2. Rests(t)
    BY <1>1, <1>4 DEF Rests
  <2> QED
    BY <1>3, <2>1, <2>2 DEF Good, Sound
<1>7. CASE claimed /\ t.blank
  <2>1. r = D!setBlank(t, FALSE)
    BY <1>2, <1>7
  <2>2. ~t.idle
    BY <1>4, <1>7
  <2>3. Good(r, m) /\ r.blank = FALSE /\ r.idle = t.idle
    BY <1>6, <1>7, <2>1, <2>2, SetBlankIs
  <2> QED
    BY <2>2, <2>3 DEF r
<1>8. CASE claimed /\ ~t.blank
  <2>1. r = t
    BY <1>2, <1>8
  <2> QED
    BY <1>4, <1>6, <1>8, <2>1 DEF r
<1>9. CASE ~claimed /\ t.blank
  <2>1. r = t
    BY <1>2, <1>9
  <2>2. ~t.idle
    BY <1>6, <1>9 DEF Good, Rests
  <2> QED
    BY <1>4, <1>6, <1>9, <2>1, <2>2 DEF r
<1>10. CASE ~claimed /\ ~t.blank /\ t.quiet > 4 * Sleep
  <2> DEFINE u == [t EXCEPT !.idle = FALSE]
  <2>1. r = D!setBlank(u, TRUE)
    BY <1>2, <1>10
  <2>2. Good(u, m)
    BY <1>6, TouchedIs
  <2>3. u.idle = FALSE /\ u.claimed = t.claimed
    BY <1>3 DEF Displays
  <2> HIDE DEF u
  <2>4. Good(r, m) /\ r.idle = u.idle /\ r.claimed = u.claimed
    BY <2>1, <2>2, <2>3, SetBlankIs
  <2> QED
    BY <1>4, <1>10, <2>3, <2>4 DEF r
<1>11. CASE ~claimed /\ ~t.blank /\ ~(t.quiet > 4 * Sleep)
  <2>0. Sleep \in Nat
    BY PanelAssumption
  <2> DEFINE dozing == t.quiet > Sleep
             u == [t EXCEPT !.idle = dozing]
  <2>1. r = u
    BY <1>2, <1>11
  <2>2. dozing \in BOOLEAN /\ (touched => ~dozing)
    <3>1. touched => t.quiet = 0
      BY <1>4
    <3> QED
      BY <2>0, <3>1
  <2> HIDE DEF dozing
  <2>3. u \in Displays /\ u.idle = dozing /\ u.blank = t.blank /\ u.claimed = t.claimed
    BY <1>3, <2>2 DEF Displays
  <2>4. /\ u.told = t.told /\ u.bright = t.bright /\ u.lit = t.lit /\ u.blanked = t.blanked /\ u.light = t.light
    BY <1>3 DEF Displays
  <2> HIDE DEF u
  <2>5. Lights(u) /\ Ink(u)
    BY <1>1, <1>6, <2>3, <2>4 DEF Good, Sound, Lights, Ink
  <2>6. Rests(u)
    BY <1>11, <2>3 DEF Rests
  <2>7. Good(u, m)
    BY <2>3, <2>5, <2>6 DEF Good, Sound
  <2> QED
    BY <1>4, <1>11, <2>1, <2>2, <2>3, <2>7 DEF r
<1> QED
  BY <1>7, <1>8, <1>9, <1>10, <1>11

LEMMA ShellRestIs ==
  ASSUME Setting, shell, NEW s, NEW m, Good(s, m), NEW touched \in BOOLEAN,
         NEW ordered \in BOOLEAN, NEW woken \in BOOLEAN, ordered => touched
  PROVE  LET v == D!shellRest(s, touched, ordered, woken)
         IN  Good(v, m) /\ (v.claimed => (~v.blank \/ v.ordered) /\ ~v.idle)
<1> DEFINE t == D!restTick(s, touched)
           o == [t EXCEPT !.ordered = TRUE]
           u == IF ordered THEN D!setBlank(o, TRUE) ELSE t
           v == D!shellRest(s, touched, ordered, woken)
<1>1. Good(t, m) /\ (touched => ~t.idle) /\ (t.claimed => ~t.blank /\ ~t.idle)
  BY RestTickIs
<1> HIDE DEF t
<1>2. panelKind = "tft" /\ t \in Displays /\ Sound(t) /\ Rests(t)
  BY <1>1 DEF Setting, Good, Sound
<1>3. o \in Displays /\ o.ordered = TRUE /\ o.claimed = t.claimed /\ o.idle = t.idle /\ o.blank = t.blank
  BY <1>2 DEF Displays
<1>4. o.told = t.told /\ o.bright = t.bright /\ o.lit = t.lit /\ o.blanked = t.blanked /\ o.light = t.light
  BY <1>2 DEF Displays
<1>5. v = IF ~u.blank THEN D!lightUp(u)
          ELSE IF woken THEN D!setBlank([u EXCEPT !.quiet = 0], FALSE) ELSE u
  BY DEF D!shellRest, t
<1> HIDE DEF o
<1>6. Good(o, m)
  BY <1>2, <1>3, <1>4 DEF Good, Sound, Lights, Ink, Rests
<1>7. Good(u, m) /\ (u.claimed => (~u.blank \/ u.ordered) /\ ~u.idle)
  <2>1. CASE ordered
    <3>1. ~o.idle /\ u = D!setBlank(o, TRUE)
      BY <1>1, <1>3, <2>1
    <3> HIDE DEF u
    <3>2. Good(u, m) /\ u.idle = o.idle /\ u.ordered = o.ordered
      BY <1>6, <3>1, SetBlankIs
    <3> QED
      BY <1>3, <3>1, <3>2
  <2>2. CASE ~ordered
    BY <1>1, <2>2
  <2> QED
    BY <2>1, <2>2
<1> HIDE DEF u, v
<1>8. CASE ~u.blank
  <2>1. v = D!lightUp(u)
    BY <1>5, <1>8
  <2>2. Sound(v) /\ Unlit(u, v)
    BY <1>2, <1>7, <1>8, <2>1, LightUpIs DEF Good
  <2>3. Rests(v)
    BY <1>7, <2>2 DEF Good, Rests, Unlit
  <2>4. v.claimed => (~v.blank \/ v.ordered) /\ ~v.idle
    BY <1>7, <2>2 DEF Unlit
  <2> QED
    BY <2>2, <2>3, <2>4 DEF Good, v
<1>9. CASE u.blank /\ woken
  <2> DEFINE w == [u EXCEPT !.quiet = 0]
  <2>1. v = D!setBlank(w, FALSE)
    BY <1>5, <1>9
  <2>2. Good(w, m)
    BY <1>7, TouchedIs
  <2>3. w.blank = u.blank /\ w.idle = u.idle
    BY <1>7 DEF Good, Sound, Displays
  <2> HIDE DEF w
  <2>4. ~w.idle
    BY <1>9, <2>2, <2>3 DEF Good, Rests
  <2>5. Good(v, m) /\ v.blank = FALSE /\ v.idle = w.idle
    BY <1>9, <2>1, <2>2, <2>3, <2>4, SetBlankIs
  <2> QED
    BY <2>4, <2>5 DEF v
<1>10. CASE u.blank /\ ~woken
  <2>1. v = u
    BY <1>5, <1>10
  <2> QED
    BY <1>7, <2>1 DEF v
<1> QED
  BY <1>8, <1>9, <1>10

\* Everything is a pass older when the next one begins.
LEMMA AgedIs ==
  ASSUME PanelInv
  PROVE  Good(D!Aged(d), D!Older(unseen))
<1> DEFINE held == IF d.btn.held = -1 \/ d.btn.held >= Long THEN d.btn.held ELSE d.btn.held + 1
           b == [d.btn EXCEPT !.held = held]
           u == [d EXCEPT !.quiet = D!Older(d.quiet), !.pageAge = D!Older(d.pageAge),
                          !.paintAge = D!Older(d.paintAge), !.showAge = D!Older(d.showAge)]
           w == [u EXCEPT !.ordered = FALSE, !.claimed = FALSE]
           t == D!Aged(d)
<1>1. d \in Displays /\ Lights(d) /\ Ink(d) /\ Rests(d) /\ Setting
  BY DEF PanelInv, Sound
<1>2. t = [w EXCEPT !.btn = b]
  BY <1>1 DEF D!Aged, Displays
<1>3. u \in Displays
  <2>1. /\ D!Older(d.quiet) \in Ages /\ D!Older(d.pageAge) \in Ages
        /\ D!Older(d.paintAge) \in Ages /\ D!Older(d.showAge) \in Ages
    BY <1>1, OlderIs DEF Displays
  <2> QED
    BY <1>1, <2>1 DEF Displays
<1>4. /\ u.paintAge = D!Older(d.paintAge) /\ u.showAge = D!Older(d.showAge)
      /\ u.page = d.page /\ u.blank = d.blank /\ u.idle = d.idle /\ u.due = d.due
      /\ u.frame = d.frame /\ u.every = d.every /\ u.urgent = d.urgent /\ u.glass = d.glass
  BY <1>1 DEF Displays
<1>5. /\ u.told = d.told /\ u.bright = d.bright /\ u.lit = d.lit /\ u.blanked = d.blanked /\ u.light = d.light
      /\ u.asleep = d.asleep /\ u.resume = d.resume /\ u.ready = d.ready /\ u.fasts = d.fasts
      /\ u.sinceFull = d.sinceFull
  BY <1>1 DEF Displays
<1> HIDE DEF u
<1>6. b \in [held : Nat \cup {-1}, long : BOOLEAN, up : {0, 1}]
  <2>1. d.btn \in [held : Nat \cup {-1}, long : BOOLEAN, up : {0, 1}]
    BY <1>1 DEF Displays
  <2>2. held \in Nat \cup {-1}
    BY <2>1
  <2> HIDE DEF held
  <2> QED
    BY <2>1, <2>2
<1>7. w \in Displays
  BY <1>3 DEF Displays
<1>8. /\ w.paintAge = u.paintAge /\ w.showAge = u.showAge
      /\ w.page = u.page /\ w.blank = u.blank /\ w.idle = u.idle /\ w.due = u.due
      /\ w.frame = u.frame /\ w.every = u.every /\ w.urgent = u.urgent /\ w.glass = u.glass
  BY <1>3 DEF Displays
<1>9. /\ w.told = u.told /\ w.bright = u.bright /\ w.lit = u.lit /\ w.blanked = u.blanked /\ w.light = u.light
      /\ w.asleep = u.asleep /\ w.resume = u.resume /\ w.ready = u.ready /\ w.fasts = u.fasts
      /\ w.sinceFull = u.sinceFull
  BY <1>3 DEF Displays
<1> HIDE DEF w
<1>10. Lights(w) /\ Ink(w) /\ Rests(w)
  BY <1>1, <1>4, <1>5, <1>8, <1>9 DEF Lights, Ink, Rests
<1>11. ASSUME ~shell
       PROVE  Paced(w) /\ Drawn(w) /\ Behind(w, D!Older(unseen))
  <2>1. d.paintAge \in Ages /\ d.showAge \in Ages /\ unseen \in Ages
    BY <1>1 DEF Setting, Displays
  <2>2. Paced(d) /\ Drawn(d) /\ (~d.blank => unseen <= d.paintAge)
    BY <1>11 DEF PanelInv
  <2>3. D!Older(d.paintAge) <= D!Older(d.showAge)
    BY <2>1, <2>2, OlderIs DEF Paced
  <2>4. ~d.blank => D!Older(unseen) <= D!Older(d.paintAge)
    BY <2>1, <2>2, OlderIs
  <2>5. Paced(w)
    BY <1>4, <1>8, <2>2, <2>3 DEF Paced
  <2>6. Drawn(w)
    BY <1>4, <1>8, <2>2 DEF Drawn, First
  <2>7. Behind(w, D!Older(unseen))
    BY <1>4, <1>8, <2>4 DEF Behind
  <2> QED
    BY <2>5, <2>6, <2>7
<1>12. Good(w, D!Older(unseen))
  BY <1>7, <1>10, <1>11 DEF Good, Sound
<1> HIDE DEF b, t
<1>13. Good(t, D!Older(unseen))
  BY <1>2, <1>6, <1>12, TouchedIs
<1> QED
  BY <1>13 DEF t

LEMMA PassKeeps ==
  ASSUME PanelInv, D!displayTask
  PROVE  PanelInv'
<1> DEFINE m == D!Older(unseen)
<1>0. Setting /\ m \in Ages
  BY OlderIs DEF PanelInv, Setting
<1>1. PICK down \in BOOLEAN, other \in {"none", "press", "short", "long"},
           touch \in BOOLEAN, asked \in BOOLEAN, woken \in BOOLEAN :
        /\ asked => shell /\ touch
        /\ LET s == D!pollButton(D!Aged(d), down)
               t == IF touch /\ ~shell THEN D!pollTouch(s, other) ELSE D!pollButton2(s, other)
               u == D!applyBrightness(t)
               v == IF shell THEN D!shellRest(u, touch, asked, woken) ELSE D!pageRest(u)
           IN  d' = v
        /\ unseen' = IF shell \/ d'.blank \/ d'.glass = D!FrameOf(d'.page) THEN 0 ELSE m
        /\ notice' = (notice /\ ~shell)
        /\ UNCHANGED <<panelKind, shell, context, watched, value, busy>>
  BY DEF D!displayTask
<1> DEFINE s == D!pollButton(D!Aged(d), down)
           t == IF touch /\ ~shell THEN D!pollTouch(s, other) ELSE D!pollButton2(s, other)
           u == D!applyBrightness(t)
           v == IF shell THEN D!shellRest(u, touch, asked, woken) ELSE D!pageRest(u)
<1>2. /\ d' = v /\ unseen' = (IF shell \/ v.blank \/ v.glass = D!FrameOf(v.page) THEN 0 ELSE m)
      /\ notice' \in BOOLEAN /\ (asked => touch)
      /\ panelKind' = panelKind /\ shell' = shell /\ value' = value /\ busy' = busy
  BY <1>0, <1>1 DEF Setting
<1>3. Good(D!Aged(d), m)
  BY AgedIs
<1>4. Good(s, m)
  BY <1>0, <1>3, PollsKeep
<1> HIDE DEF s
<1>5. Good(t, m)
  BY <1>0, <1>4, PollsKeep
<1> HIDE DEF t
<1>6. Good(u, m)
  BY <1>5, BrightnessKeeps
<1> HIDE DEF u
<1>7. Sound(v) /\ Rests(v)
  <2>1. CASE shell
    BY <1>0, <1>2, <1>6, <2>1, ShellRestIs DEF Good
  <2>2. CASE ~shell
    BY <1>0, <1>6, <2>2, PageRestIs DEF Good
  <2> QED
    BY <2>1, <2>2
<1>8. shell /\ v.claimed => (~v.blank \/ v.ordered) /\ ~v.idle
  BY <1>0, <1>2, <1>6, ShellRestIs
<1>9. ~shell => /\ Paced(v) /\ Drawn(v)
                /\ ~v.blank => /\ ~v.due /\ v.paintAge < D!cadence(v.page)
                               /\ v.glass = D!FrameOf(v.page) \/ m <= v.paintAge
  BY <1>0, <1>6, PageRestIs DEF Good
<1> HIDE DEF v, m
<1>10. Setting'
  BY <1>0, <1>2, PanelAssumption DEF Setting, Ages
<1>11. Sound(d)' /\ Rests(d)'
  BY <1>2, <1>7 DEF Sound, Lights, Ink, Rests
<1>12. D!ClaimSeen'
  BY <1>2, <1>8 DEF D!ClaimSeen
<1>13. v.paintAge \in Nat
  BY <1>7, PanelAssumption DEF Sound, Displays, Ages
<1>14. (~shell => Paced(d) /\ Drawn(d))'
  BY <1>2, <1>9 DEF Paced, Drawn, First, D!cadence
<1>15. (~shell /\ ~d.blank =>
          /\ unseen <= d.paintAge /\ d.paintAge < D!cadence(d.page)
          /\ First(d) => d.glass = D!Booting)'
  <2> SUFFICES ASSUME ~shell, ~v.blank
               PROVE  /\ unseen' <= v.paintAge /\ v.paintAge < D!cadence(v.page) /\ ~v.due
    BY <1>2 DEF First, D!cadence
  <2> QED
    BY <1>2, <1>9, <1>13
<1> QED
  BY <1>10, <1>11, <1>12, <1>14, <1>15 DEF PanelInv

\* What a lit glass shows is the page that was turned to, no older than the
\* page's cadence; the e-paper holds what is shown and is cleaned in time; the
\* light is out exactly with the glass; and what claims attention is seen on a
\* lit glass: on every panel, with or without the shell (Display.cpp:282,
\* RefreshPolicy.h:72, EinkSleep.h:106, LvglUi.cpp).
THEOREM PanelAlwaysTrue == D!Spec => []PanelHonest
<1>1. D!Init => PanelInv
  <2> SUFFICES ASSUME D!Init PROVE PanelInv
    OBVIOUS
  <2>2. D!cadence("status") \in Nat \ {0} /\ 0 \in Ages
    BY CadenceIs, PanelAssumption DEF Ages
  <2>1. Setting
    BY <2>2 DEF D!Init, Setting
  <2>3. d \in Displays
    <3> DEFINE lit == panelKind # "tft" \/ ~shell
               light == IF shell THEN 0 ELSE 16
               btn == [held |-> -1, long |-> FALSE, up |-> 0]
    <3>1. /\ D!NoFrame \in Drawings /\ D!Booting \in Drawings /\ "status" \in PageNames
          /\ btn \in [held : Nat \cup {-1}, long : BOOLEAN, up : {0, 1}]
          /\ lit \in BOOLEAN /\ light \in 0 .. 16
      BY DEF Drawings, PageNames, D!NoFrame, D!Booting
    <3>2. d = [page |-> "status", pageAge |-> 0, quiet |-> 0, blank |-> FALSE, idle |-> FALSE,
               due |-> TRUE, paintAge |-> 0, frame |-> D!NoFrame, every |-> D!cadence("status"),
               showAge |-> 0, sinceFull |-> 0, urgent |-> FALSE, told |-> -1, bright |-> 100,
               lit |-> lit, blanked |-> FALSE, light |-> light,
               asleep |-> FALSE, resume |-> FALSE, mode |-> 0, ready |-> TRUE, fasts |-> 0,
               glass |-> D!Booting, installing |-> FALSE, claimed |-> FALSE, ordered |-> FALSE,
               btn |-> btn]
      BY DEF D!Init
    <3> HIDE DEF lit, light, btn
    <3> QED
      BY <2>2, <3>1, <3>2 DEF Displays
  <2>4. Lights(d) /\ Rests(d) /\ D!ClaimSeen
    <3>1. /\ d.blank = FALSE /\ d.idle = FALSE /\ d.told = -1 /\ d.bright = 100 /\ d.blanked = FALSE
          /\ d.lit = (panelKind # "tft" \/ ~shell) /\ d.light = (IF shell THEN 0 ELSE 16) /\ d.claimed = FALSE
      BY DEF D!Init
    <3>2. Lights(d)
      <4>1. (shell => panelKind = "tft") /\ shell \in BOOLEAN
        BY DEF D!Init
      <4>4. d.blanked = d.blank /\ (d.told # -1 => d.bright = d.told)
        BY <3>1
      <4>5. ~d.blank /\ d.bright > 0
        BY <3>1
      <4>2. CASE shell
        <5>0. d.lit = FALSE /\ d.light = 0
          BY <3>1, <4>1, <4>2
        <5>1. ~d.lit /\ ~(d.light > 0)
          BY <5>0
        <5> QED
          BY <4>4, <4>5, <5>1 DEF Lights
      <4>3. CASE ~shell
        <5>0. d.lit = TRUE /\ d.light = 16
          BY <3>1, <4>3
        <5>1. d.lit /\ d.light > 0
          BY <5>0
        <5> QED
          BY <4>4, <4>5, <5>1 DEF Lights
      <4> QED
        BY <4>2, <4>3
    <3> QED
      BY <3>1, <3>2 DEF Rests, D!ClaimSeen
  <2>5. Ink(d)
    BY PanelAssumption DEF D!Init, Ink, D!Booting
  <2>6. Paced(d) /\ Drawn(d)
    BY DEF D!Init, Paced, Drawn, First
  <2>7. unseen <= d.paintAge /\ d.paintAge < D!cadence(d.page) /\ d.glass = D!Booting
    BY <2>2 DEF D!Init
  <2> QED
    BY <2>1, <2>3, <2>4, <2>5, <2>6, <2>7 DEF PanelInv, Sound
<1>2. PanelInv /\ [D!Next]_D!vars => PanelInv'
  <2> SUFFICES ASSUME PanelInv, [D!Next]_D!vars PROVE PanelInv'
    OBVIOUS
  <2>1. ASSUME panelKind' = panelKind, shell' = shell, d' = d, unseen' = unseen,
               value' \in {0, 1}, busy' \in BOOLEAN, notice' \in BOOLEAN
        PROVE  PanelInv'
    <3>1. Setting' /\ Sound(d)' /\ Rests(d)' /\ D!ClaimSeen'
      BY <2>1 DEF PanelInv, Setting, Sound, Lights, Ink, Rests, D!ClaimSeen
    <3>2. (~shell => Paced(d) /\ Drawn(d))'
      BY <2>1 DEF PanelInv, Paced, Drawn, First, D!cadence
    <3>3. (~shell /\ ~d.blank =>
             /\ unseen <= d.paintAge /\ d.paintAge < D!cadence(d.page)
             /\ First(d) => d.glass = D!Booting)'
      BY <2>1 DEF PanelInv, First, D!cadence
    <3> QED
      BY <3>1, <3>2, <3>3 DEF PanelInv
  <2>2. CASE D!displayTask
    BY <2>2, PassKeeps
  <2>3. CASE D!Changes
    BY <2>1, <2>3 DEF PanelInv, Setting, D!Changes
  <2>4. CASE D!Updates
    BY <2>1, <2>4 DEF PanelInv, Setting, D!Updates
  <2>5. CASE D!Arrives
    BY <2>1, <2>5 DEF PanelInv, Setting, D!Arrives
  <2>6. CASE UNCHANGED D!vars
    BY <2>1, <2>6 DEF PanelInv, Setting, D!vars
  <2> QED
    BY <2>2, <2>3, <2>4, <2>5, <2>6 DEF D!Next
<1>3. PanelInv => PanelHonest
  <2> SUFFICES ASSUME PanelInv PROVE PanelHonest
    OBVIOUS
  <2>1. D!GlassInTime
    <3>1. d.paintAge \in Nat /\ unseen \in Nat /\ D!cadence(d.page) \in Nat
      BY PanelAssumption, CadenceIs DEF PanelInv, Setting, Sound, Displays, Ages
    <3> QED
      BY <3>1 DEF PanelInv, Drawn, D!GlassInTime
  <2>2. D!EinkSound
    <3>1. d.fasts \in Nat /\ d.sinceFull \in Nat /\ FullEvery \in Nat
      BY PanelAssumption DEF PanelInv, Sound, Displays
    <3> QED
      BY <3>1 DEF PanelInv, Sound, Ink, D!EinkSound
  <2>3. D!LightFollows
    BY DEF PanelInv, Sound, Lights, Rests, Displays, D!LightFollows
  <2> QED
    BY <2>1, <2>2, <2>3 DEF PanelInv, PanelHonest, D!PanelHonest
<1> QED
  BY <1>1, <1>2, <1>3, PTL DEF D!Spec
=============================================================================
