------------------------- MODULE InstallQueue_proofs -------------------------
(***************************************************************************)
(* What holds of the install queue for every number of commands, tasks,    *)
(* items and retries, with kills and failing saves: its types, that one    *)
(* installation runs at a time and is the one that can be cancelled, that  *)
(* outcomes are final (while the operation history can be written) and     *)
(* that nothing gets lost (while the queue file can be written).           *)
(*                                                                         *)
(* The argument about tasks treats the flag running as a token: a task     *)
(* between its spawn and the moment it clears the flag holds it, and only  *)
(* one does.  The argument about items is that a step changes the state of *)
(* at most one of them, known by its id (Becomes); what the queue does to  *)
(* their order is said by the lemmas about lists.                          *)
(***************************************************************************)
EXTENDS InstallQueue, TLAPS, SequenceTheorems, WellFoundedInduction

-----------------------------------------------------------------------------
(* Lists.                                                                  *)

\* An element inserted into a sequence moves those behind it by one.
LEMMA Inserted ==
  ASSUME NEW S, NEW seq \in Seq(S), NEW i \in 1..(Len(seq) + 1), NEW e \in S
  PROVE  /\ Insert(seq, i, e) \in Seq(S)
         /\ Len(Insert(seq, i, e)) = Len(seq) + 1
         /\ \A k \in 1..(Len(seq) + 1) :
              Insert(seq, i, e)[k] = IF k < i THEN seq[k] ELSE IF k = i THEN e ELSE seq[k - 1]
<1>. DEFINE head == SubSeq(seq, 1, i - 1)
            tail == SubSeq(seq, i, Len(seq))
            most == head \o <<e>>
<1>0. Len(seq) \in Nat /\ \A k \in 1..Len(seq) : seq[k] \in S
  BY LenProperties, ElementOfSeq
<1>1. /\ head \in Seq(S) /\ Len(head) = i - 1
      /\ \A k \in 1..(i - 1) : head[k] = seq[k]
  BY <1>0, SubSeqProperties
<1>2. /\ tail \in Seq(S) /\ Len(tail) = Len(seq) - i + 1
      /\ \A k \in 1..(Len(seq) - i + 1) : tail[k] = seq[i + k - 1]
  BY <1>0, SubSeqProperties
<1>3. <<e>> \in Seq(S) /\ Len(<<e>>) = 1 /\ <<e>>[1] = e
  OBVIOUS
<1>. HIDE DEF head, tail
<1>4. /\ most \in Seq(S) /\ Len(most) = i
      /\ \A k \in 1..i : most[k] = IF k < i THEN seq[k] ELSE e
  <2>1. /\ most \in Seq(S) /\ Len(most) = Len(head) + Len(<<e>>)
        /\ \A k \in 1..(Len(head) + Len(<<e>>)) :
             most[k] = IF k <= Len(head) THEN head[k] ELSE <<e>>[k - Len(head)]
    BY <1>1, <1>3, ConcatProperties
  <2>. QED  BY <2>1, <1>1, <1>3
<1>5. Insert(seq, i, e) = most \o tail
  BY DEF Insert, head, tail
<1>. HIDE DEF most
<1>6. /\ most \o tail \in Seq(S) /\ Len(most \o tail) = Len(most) + Len(tail)
      /\ \A k \in 1..(Len(most) + Len(tail)) :
           (most \o tail)[k] = IF k <= Len(most) THEN most[k] ELSE tail[k - Len(most)]
  BY <1>2, <1>4, ConcatProperties
<1>7. Len(most \o tail) = Len(seq) + 1
  BY <1>0, <1>2, <1>4, <1>6
<1>8. ASSUME NEW k \in 1..(Len(seq) + 1)
      PROVE (most \o tail)[k] = IF k < i THEN seq[k] ELSE IF k = i THEN e ELSE seq[k - 1]
  <2>0. k \in Nat /\ i \in Nat
    BY <1>0
  <2>1. CASE k <= i
    BY <2>1, <1>0, <1>2, <1>4, <1>6
  <2>2. CASE k > i
    BY <2>2, <1>0, <1>2, <1>4, <1>6
  <2>3. k <= i \/ k > i
    BY <2>0
  <2>. QED  BY <2>1, <2>2, <2>3, Zenon
<1>. QED  BY <1>5, <1>6, <1>7, <1>8

\* An element removed from a sequence lets those behind it move up.
LEMMA Removed ==
  ASSUME NEW S, NEW seq \in Seq(S), NEW i \in 1..Len(seq)
  PROVE  /\ Without(seq, i) \in Seq(S)
         /\ Len(Without(seq, i)) = Len(seq) - 1
         /\ \A k \in 1..(Len(seq) - 1) :
              Without(seq, i)[k] = IF k < i THEN seq[k] ELSE seq[k + 1]
<1>. DEFINE head == SubSeq(seq, 1, i - 1)
            tail == SubSeq(seq, i + 1, Len(seq))
<1>0. Len(seq) \in Nat /\ \A k \in 1..Len(seq) : seq[k] \in S
  BY LenProperties, ElementOfSeq
<1>1. /\ head \in Seq(S) /\ Len(head) = i - 1
      /\ \A k \in 1..(i - 1) : head[k] = seq[k]
  BY <1>0, SubSeqProperties
<1>2. /\ tail \in Seq(S) /\ Len(tail) = Len(seq) - i
      /\ \A k \in 1..(Len(seq) - i) : tail[k] = seq[i + k]
  BY <1>0, SubSeqProperties
<1>3. Without(seq, i) = head \o tail
  BY DEF Without
<1>. HIDE DEF head, tail
<1>4. /\ head \o tail \in Seq(S) /\ Len(head \o tail) = Len(head) + Len(tail)
      /\ \A k \in 1..(Len(head) + Len(tail)) :
           (head \o tail)[k] = IF k <= Len(head) THEN head[k] ELSE tail[k - Len(head)]
  BY <1>1, <1>2, ConcatProperties
<1>5. Len(head \o tail) = Len(seq) - 1
  BY <1>0, <1>1, <1>2, <1>4
<1>6. ASSUME NEW k \in 1..(Len(seq) - 1)
      PROVE (head \o tail)[k] = IF k < i THEN seq[k] ELSE seq[k + 1]
  <2>0. k \in Nat /\ i \in Nat
    BY <1>0
  <2>1. CASE k < i
    BY <2>1, <1>0, <1>1, <1>2, <1>4
  <2>2. CASE k >= i
    <3>1. k - (i - 1) \in 1..(Len(seq) - i) /\ i + (k - (i - 1)) = k + 1
      BY <2>0, <2>2, <1>0
    <3>2. (head \o tail)[k] = tail[k - (i - 1)]
      BY <2>0, <2>2, <1>0, <1>1, <1>2, <1>4
    <3>. QED  BY <2>0, <2>2, <3>1, <3>2, <1>2
  <2>3. k < i \/ k >= i
    BY <2>0
  <2>. QED  BY <2>1, <2>2, <2>3, Zenon
<1>. QED  BY <1>3, <1>4, <1>5, <1>6

\* What is queued has a first item.
LEMMA Least ==
  ASSUME NEW T, T \subseteq Nat, T # {}
  PROVE  First(T) \in T /\ \A j \in T : First(T) <= j
<1>. DEFINE R == {p \in Nat \X Nat : p[1] < p[2]}
<1>1. IsWellFoundedOn(R, Nat)
  BY NatLessThanWellFounded DEF OpToRel
<1>. HIDE DEF R
<1>2. PICK i \in T : \A j \in T : <<j, i>> \notin R
  BY <1>1, WFMin
<1>3. ASSUME NEW j \in T PROVE i <= j
  <2>1. ~ j < i
    BY <1>2 DEF R
  <2>. QED  BY <2>1
<1>. QED  BY <1>3 DEF First

\* Restoring a list changes states only: what has not ended is queued.
LEMMA Mapped ==
  ASSUME NEW seq \in Lists
  PROVE  /\ Restored(seq) \in Lists
         /\ DOMAIN Restored(seq) = DOMAIN seq
         /\ Len(Restored(seq)) = Len(seq)
         /\ \A k \in DOMAIN seq :
              Restored(seq)[k] = [seq[k] EXCEPT !.state = IF @ \in Terminal THEN @ ELSE "queued"]
<1>1. seq \in Seq(Item) /\ Len(seq) \in Nat /\ DOMAIN seq = 1..Len(seq) /\ Len(seq) <= Limit
      /\ \A k \in DOMAIN seq : seq[k] \in Item
  BY LenProperties, ElementOfSeq DEF Lists
<1>2. Restored(seq) \in [1..Len(seq) -> Item]
  BY <1>1 DEF Restored, Item, Terminal
<1>3. Restored(seq) \in Seq(Item) /\ Len(Restored(seq)) = Len(seq)
  BY <1>1, <1>2
<1>. QED  BY <1>1, <1>2, <1>3 DEF Restored, Lists

\* The states of an item.
States == {"queued"} \cup Active \cup Terminal

\* The items of a list are items.
LEMMA ListFacts ==
  ASSUME NEW seq \in Lists
  PROVE  /\ seq \in Seq(Item) /\ Len(seq) \in Nat /\ Len(seq) <= Limit
         /\ DOMAIN seq = 1..Len(seq)
         /\ \A k \in DOMAIN seq : seq[k] \in Item /\ seq[k].id \in Ids /\ seq[k].state \in States
<1>1. seq \in Seq(Item) /\ Len(seq) <= Limit
  BY DEF Lists
<1>2. Len(seq) \in Nat /\ DOMAIN seq = 1..Len(seq) /\ \A k \in DOMAIN seq : seq[k] \in Item
  BY <1>1, LenProperties, ElementOfSeq
<1>. QED  BY <1>1, <1>2 DEF Item, States

\* The queue may be empty.
LEMMA EmptyList == <<>> \in Lists
BY QueueAssumption, EmptySeq DEF Lists, QueueAssumption

\* A snapshot is a list.
LEMMA ShotFacts ==
  ASSUME NEW seq \in Lists PROVE Shot(seq) \in Lists
BY EmptyList DEF Shot

\* Ids are unique, and none is greater than last.
Numbered(seq, last) ==
  /\ \A i, j \in DOMAIN seq : seq[i].id = seq[j].id => i = j
  /\ \A i \in DOMAIN seq : seq[i].id <= last

\* The item with this id gets this state, what is new is queued, and the rest stays.
Becomes(id, state) ==
  /\ items' \in Lists /\ Numbered(items', made')
  /\ \A k \in DOMAIN items' :
       \/ items'[k].id > made /\ items'[k].state = "queued"
       \/ \E m \in DOMAIN items : /\ items'[k].id = items[m].id
                                  /\ items'[k].state = IF items[m].id = id THEN state ELSE items[m].state

\* A listed item is found.
LEMMA AtFound ==
  ASSUME NEW id, Listed(id)
  PROVE  At(id) \in DOMAIN items /\ items[At(id)].id = id
BY DEF Listed, At

\* Nothing happens to the items.
LEMMA Unchanged ==
  ASSUME items \in Lists, Numbered(items, made), items' = items, made' = made
  PROVE  Becomes(0, "queued")
BY ListFacts, QueueAssumption DEF Becomes, Ids, QueueAssumption

\* One item of a list gets another state.
LEMMA Replaced ==
  ASSUME NEW seq \in Lists, NEW n \in DOMAIN seq, NEW state \in States
  PROVE  LET new == [seq EXCEPT ![n].state = state]
         IN /\ new \in Lists /\ Len(new) = Len(seq) /\ DOMAIN new = DOMAIN seq
            /\ \A k \in DOMAIN seq :
                 new[k] = IF k = n THEN [seq[k] EXCEPT !.state = state] ELSE seq[k]
<1>. DEFINE new == [seq EXCEPT ![n].state = state]
<1>1. seq[n] \in Item
  BY ListFacts
<1>2. [seq[n] EXCEPT !.state = state] \in Item
  BY <1>1 DEF Item, States
<1>3. new = [seq EXCEPT ![n] = [seq[n] EXCEPT !.state = state]]
  BY ListFacts
<1>4. /\ new \in Seq(Item) /\ Len(new) = Len(seq)
      /\ \A k \in 1..Len(seq) : new[k] = IF k = n THEN [seq[n] EXCEPT !.state = state] ELSE seq[k]
  BY <1>2, <1>3, ListFacts, ExceptSeq
<1>. QED  BY <1>3, <1>4, ListFacts DEF Lists

\* One item gets another state: Becomes for the id at that place.
LEMMA Restated ==
  ASSUME items \in Lists, Numbered(items, made), made \in Nat, made' = made,
         NEW n \in DOMAIN items, NEW state \in States,
         items' = [items EXCEPT ![n].state = state]
  PROVE  Becomes(items[n].id, state)
<1>1. /\ items' \in Lists /\ DOMAIN items' = DOMAIN items
      /\ \A k \in DOMAIN items :
           items'[k] = IF k = n THEN [items[k] EXCEPT !.state = state] ELSE items[k]
  BY Replaced
<1>2. \A k \in DOMAIN items :
        items'[k].id = items[k].id /\ items'[k].state = IF k = n THEN state ELSE items[k].state
  BY <1>1, ListFacts DEF Item
<1>3. \A k \in DOMAIN items : items[k].id = items[n].id <=> k = n
  BY DEF Numbered
<1>. QED  BY <1>1, <1>2, <1>3 DEF Becomes, Numbered

\* So for an id, whether it is listed or not.
LEMMA WithFacts ==
  ASSUME items \in Lists, Numbered(items, made), made \in Nat, made' = made,
         NEW id, NEW state \in States, items' = With(id, state)
  PROVE  Becomes(id, state)
<1>1. CASE Listed(id)
  BY <1>1, AtFound, Restated DEF With
<1>2. CASE ~Listed(id)
  <2>1. items' = items /\ \A m \in DOMAIN items : items[m].id # id
    BY <1>2 DEF With, Listed
  <2>. QED  BY <2>1 DEF Becomes
<1>. QED  BY <1>1, <1>2

\* A list with a new item has one id more, the greatest.
LEMMA InsertedItem ==
  ASSUME NEW seq \in Lists, Len(seq) < Limit, NEW n \in 1..(Len(seq) + 1), NEW e \in Item,
         NEW last \in Nat, Numbered(seq, last), last < e.id
  PROVE  /\ Insert(seq, n, e) \in Lists
         /\ Numbered(Insert(seq, n, e), e.id)
         /\ \A k \in DOMAIN Insert(seq, n, e) :
              Insert(seq, n, e)[k] = e \/ \E m \in DOMAIN seq : Insert(seq, n, e)[k] = seq[m]
<1>. DEFINE new == Insert(seq, n, e)
<1>1. seq \in Seq(Item) /\ Len(seq) \in Nat /\ DOMAIN seq = 1..Len(seq) /\ Limit \in Nat
  BY ListFacts, QueueAssumption DEF QueueAssumption
<1>2. /\ new \in Seq(Item) /\ Len(new) = Len(seq) + 1
      /\ \A k \in 1..(Len(seq) + 1) : new[k] = IF k < n THEN seq[k] ELSE IF k = n THEN e ELSE seq[k - 1]
  <2>1. seq \in Seq(Item)
    BY <1>1
  <2>2. new \in Seq(Item)
    BY <2>1, Inserted
  <2>3. Len(new) = Len(seq) + 1
    BY <2>1, Inserted
  <2>4. \A k \in 1..(Len(seq) + 1) : new[k] = IF k < n THEN seq[k] ELSE IF k = n THEN e ELSE seq[k - 1]
    BY <2>1, Inserted
  <2>. QED  BY <2>2, <2>3, <2>4
<1>. HIDE DEF new
<1>3. new \in Lists /\ DOMAIN new = 1..(Len(seq) + 1)
  BY <1>1, <1>2, ListFacts DEF Lists
<1>4. \A m \in DOMAIN seq : seq[m].id <= last /\ seq[m].id \in Nat
  BY ListFacts DEF Numbered, Ids
<1>5. ASSUME NEW k \in DOMAIN new
      PROVE /\ k \in Nat
            /\ k < n => k \in DOMAIN seq /\ new[k] = seq[k]
            /\ k = n => new[k] = e
            /\ k > n => k - 1 \in DOMAIN seq /\ new[k] = seq[k - 1]
            /\ k < n \/ k = n \/ k > n
  BY <1>1, <1>2, <1>3
<1>6. \A k \in DOMAIN new : k = n <=> new[k].id = e.id
  BY <1>4, <1>5 DEF Item, Ids
<1>7. e.id \in Nat
  BY DEF Item, Ids
<1>8. Numbered(new, e.id)
  <2>1. ASSUME NEW i \in DOMAIN new, NEW j \in DOMAIN new, new[i].id = new[j].id
        PROVE i = j
    <3>1. CASE i = n \/ j = n
      BY <2>1, <3>1, <1>6
    <3>2. CASE i # n /\ j # n
      <4>. DEFINE from(k) == IF k < n THEN k ELSE k - 1
      <4>1. /\ from(i) \in DOMAIN seq /\ new[i] = seq[from(i)]
            /\ from(j) \in DOMAIN seq /\ new[j] = seq[from(j)]
        BY <3>2, <1>5
      <4>2. from(i) = from(j)
        BY <2>1, <4>1 DEF Numbered
      <4>. QED  BY <4>2, <3>2, <1>1, <1>5
    <3>. QED  BY <3>1, <3>2
  <2>2. ASSUME NEW i \in DOMAIN new PROVE new[i].id <= e.id
    BY <1>4, <1>5, <1>7
  <2>. QED  BY <2>1, <2>2 DEF Numbered
<1>9. \A k \in DOMAIN new : new[k] = e \/ \E m \in DOMAIN seq : new[k] = seq[m]
  BY <1>5
<1>. QED  BY <1>3, <1>8, <1>9 DEF new

\* A new item changes no other (enqueue).
LEMMA InsertFacts ==
  ASSUME items \in Lists, Numbered(items, made), made \in 0..MaxItems, made < MaxItems, made' = made + 1,
         Len(items) < Limit, NEW n \in 1..(Len(items) + 1), NEW version \in Versions,
         items' = Insert(items, n, [id |-> made', version |-> version, state |-> "queued"])
  PROVE  Becomes(0, "queued")
<1>0. made' \in Ids /\ made \in Nat /\ MaxItems \in Nat
  BY QueueAssumption DEF QueueAssumption, Ids
<1>1. PICK e \in Item : e.id = made + 1 /\ e.state = "queued" /\ items' = Insert(items, n, e)
  <2>1. [id |-> made', version |-> version, state |-> "queued"] \in Item
    BY <1>0 DEF Item
  <2>. QED  BY <2>1
<1>2. /\ items' \in Lists /\ Numbered(items', made + 1)
      /\ \A k \in DOMAIN items' : items'[k] = e \/ \E m \in DOMAIN items : items'[k] = items[m]
  <2>1. /\ Insert(items, n, e) \in Lists
        /\ Numbered(Insert(items, n, e), e.id)
        /\ \A k \in DOMAIN Insert(items, n, e) :
             Insert(items, n, e)[k] = e \/ \E m \in DOMAIN items : Insert(items, n, e)[k] = items[m]
    BY <1>0, <1>1, InsertedItem
  <2>. QED  BY <1>1, <2>1
<1>3. \A m \in DOMAIN items : items[m].id # 0
  BY ListFacts, QueueAssumption DEF Ids, QueueAssumption
<1>. QED  BY <1>0, <1>1, <1>2, <1>3 DEF Becomes

\* Removing an item changes no other.
LEMMA RemoveFacts ==
  ASSUME items \in Lists, Numbered(items, made), made \in Nat, made' = made,
         NEW n \in DOMAIN items, items' = Without(items, n)
  PROVE  Becomes(0, "queued")
<1>1. items \in Seq(Item) /\ Len(items) \in Nat /\ DOMAIN items = 1..Len(items) /\ Len(items) <= Limit
  BY ListFacts
<1>2. /\ items' \in Seq(Item) /\ Len(items') = Len(items) - 1
      /\ \A k \in 1..(Len(items) - 1) : items'[k] = IF k < n THEN items[k] ELSE items[k + 1]
  BY <1>1, Removed
<1>3. items' \in Lists /\ DOMAIN items' = 1..(Len(items) - 1)
  BY <1>1, <1>2, QueueAssumption DEF Lists, QueueAssumption
<1>4. \A k \in DOMAIN items' : IF k < n THEN k \in DOMAIN items ELSE k + 1 \in DOMAIN items
  BY <1>1, <1>3
<1>5. \A m \in DOMAIN items : items[m].id <= made /\ items[m].id \in Nat /\ items[m].id # 0
  BY ListFacts DEF Numbered, Ids
<1>6. Numbered(items', made')
  <2>1. ASSUME NEW i \in DOMAIN items', NEW j \in DOMAIN items', items'[i].id = items'[j].id
        PROVE i = j
    <3>1. (IF i < n THEN i ELSE i + 1) = (IF j < n THEN j ELSE j + 1)
      BY <2>1, <1>1, <1>2, <1>3, <1>4 DEF Numbered
    <3>. QED  BY <3>1, <1>1, <1>3
  <2>2. ASSUME NEW i \in DOMAIN items' PROVE items'[i].id <= made'
    BY <1>2, <1>3, <1>4, <1>5
  <2>. QED  BY <2>1, <2>2 DEF Numbered
<1>7. \A k \in DOMAIN items' : \E m \in DOMAIN items : items'[k] = items[m]
  BY <1>2, <1>3, <1>4
<1>. QED  BY <1>3, <1>5, <1>6, <1>7 DEF Becomes

\* Moving an item changes none.
LEMMA SwapFacts ==
  ASSUME items \in Lists, Numbered(items, made), made \in Nat, made' = made,
         NEW i \in DOMAIN items, NEW j \in DOMAIN items,
         items' = [items EXCEPT ![i] = items[j], ![j] = items[i]]
  PROVE  Becomes(0, "queued")
<1>1. items \in Seq(Item) /\ Len(items) \in Nat /\ DOMAIN items = 1..Len(items)
      /\ items[i] \in Item /\ items[j] \in Item /\ Len(items) <= Limit
  BY ListFacts
<1>. DEFINE half == [items EXCEPT ![i] = items[j]]
<1>2. /\ half \in Seq(Item) /\ Len(half) = Len(items)
      /\ \A k \in 1..Len(items) : half[k] = IF k = i THEN items[j] ELSE items[k]
  BY <1>1, ExceptSeq
<1>3. items' = [half EXCEPT ![j] = items[i]]
  OBVIOUS
<1>. HIDE DEF half
<1>4. /\ items' \in Seq(Item) /\ Len(items') = Len(half)
      /\ \A k \in 1..Len(half) : items'[k] = IF k = j THEN items[i] ELSE half[k]
  BY <1>1, <1>2, <1>3, ExceptSeq
<1>5. /\ items' \in Lists /\ DOMAIN items' = DOMAIN items
      /\ \A k \in DOMAIN items : items'[k] = IF k = j THEN items[i] ELSE IF k = i THEN items[j] ELSE items[k]
  BY <1>1, <1>2, <1>4 DEF Lists
<1>6. \A m \in DOMAIN items : items[m].id # 0
  BY ListFacts, QueueAssumption DEF Ids, QueueAssumption
<1>7. Numbered(items', made')
  BY <1>5 DEF Numbered
<1>. QED  BY <1>5, <1>6, <1>7 DEF Becomes

\* The first queued item is queued.
LEMMA QueuedFacts ==
  ASSUME items \in Lists
  PROVE  /\ Queued \subseteq DOMAIN items /\ \A i \in Queued : items[i].state = "queued"
         /\ Queued # {} => First(Queued) \in Queued
<1>1. Queued = {i \in DOMAIN items : items[i].state = "queued"}
  BY DEF Queued, Where
<1>2. Queued \subseteq Nat
  BY <1>1, ListFacts
<1>. QED  BY <1>1, <1>2, Least

\* A retried version is put before a queued item, or last.
LEMMA FrontFacts ==
  ASSUME items \in Lists, NEW retry
  PROVE  Front(retry) \in 1..(Len(items) + 1)
<1>1. Len(items) \in Nat /\ DOMAIN items = 1..Len(items)
  BY ListFacts
<1>2. CASE retry /\ Queued # {}
  <2>1. First(Queued) \in DOMAIN items /\ Front(retry) = First(Queued)
    BY <1>2, QueuedFacts DEF Front
  <2>. QED  BY <1>1, <2>1
<1>3. CASE ~(retry /\ Queued # {})
  BY <1>1, <1>3 DEF Front
<1>. QED  BY <1>2, <1>3

-----------------------------------------------------------------------------
(* Tasks.                                                                  *)

\* A task that holds the flag.
Holds(w) == worker[w].pc \in {"begin", "begun", "work", "finished", "nothing"}

\* The holder is unique, and the flag is up.
TokenInv ==
  /\ DOMAIN worker = Workers
  /\ \A v, w \in Workers : Holds(v) /\ Holds(w) => v = w
  /\ \A w \in Workers : Holds(w) => running

\* In the beginning no task exists.
LEMMA TokenInit == Init => TokenInv
BY DEF Init, TokenInv, Holds, NoTask

\* A task that keeps what it holds, or lets go of it, disturbs nobody.
LEMMA TokenKept ==
  ASSUME TokenInv, NEW w \in Workers, Holds(w), NEW pc, NEW view,
         worker' = [worker EXCEPT ![w] = [pc |-> pc, view |-> view]],
         running' = running
  PROVE  TokenInv'
BY DEF TokenInv, Holds

\* The flag can only be taken while it is down.
LEMMA TokenTaken ==
  ASSUME TokenInv, ~running, NEW w \in Workers, running',
         worker' = [worker EXCEPT ![w].pc = "begin"]
  PROVE  TokenInv'
BY DEF TokenInv, Holds

\* Commands, but for waking a worker, leave tasks and flag alone.
LEMMA TokenCommand ==
  ASSUME TokenInv, NEW c \in Clients, Command(c) \/ List(c) \/ Publish(c) \/ Return(c)
  PROVE  TokenInv'
<1>1. UNCHANGED <<worker, running>>
  BY DEF Command, Enqueue, Cancel, Retry, Remove, Move, CancelRunning, List, Publish, Return
<1>. QED  BY <1>1 DEF TokenInv, Holds

\* Waking a worker spawns one only if the flag was down.
LEMMA TokenEnsure ==
  ASSUME TokenInv, NEW c \in Clients, Ensure(c)
  PROVE  TokenInv'
<1>1. CASE running
  BY <1>1 DEF Ensure, TokenInv, Holds
<1>2. CASE ~running
  <2>1. PICK w \in Workers : worker' = [worker EXCEPT ![w].pc = "begin"]
    BY <1>2 DEF Ensure
  <2>2. running'
    BY DEF Ensure
  <2>. QED  BY <1>2, <2>1, <2>2, TokenTaken
<1>. QED  BY <1>1, <1>2

\* No step of a task makes a second holder.
LEMMA TokenWork ==
  ASSUME TokenInv, NEW w \in Workers, Work(w)
  PROVE  TokenInv'
<1>1. CASE Begin(w)
  BY <1>1, TokenKept DEF Begin, TaskPublishes, Holds
<1>2. CASE Nothing(w)
  BY <1>2, TokenKept DEF Nothing, Task, Holds
<1>3. CASE Idle(w)
  <2>1. Holds(w) /\ worker' = [worker EXCEPT ![w] = [pc |-> "recheck", view |-> <<>>]]
    BY <1>3 DEF Idle, Task, Holds
  <2>2. \A v \in Workers \ {w} : ~Holds(v)
    BY <2>1 DEF TokenInv
  <2>. QED  BY <2>1, <2>2 DEF TokenInv, Holds
<1>4. CASE Recheck(w)
  <2>1. \E pc \in {"none", "claim"} : worker' = [worker EXCEPT ![w] = [pc |-> pc, view |-> <<>>]]
    BY <1>4 DEF Recheck, Task
  <2>2. \A v \in Workers : Holds(v) => running'
    BY <1>4 DEF Recheck, TokenInv
  <2>. QED  BY <2>1, <2>2 DEF TokenInv, Holds
<1>5. CASE Claim(w)
  <2>1. CASE running
    <3>1. worker' = [worker EXCEPT ![w] = [pc |-> "none", view |-> <<>>]] /\ running'
      BY <1>5, <2>1 DEF Claim, Task
    <3>. QED  BY <3>1 DEF TokenInv, Holds
  <2>2. CASE ~running
    <3>1. worker' = [worker EXCEPT ![w] = [pc |-> "begin", view |-> <<>>]] /\ running'
      BY <1>5, <2>2 DEF Claim, Task
    <3>2. \A v \in Workers : ~Holds(v)
      BY <2>2 DEF TokenInv
    <3>. QED  BY <3>1, <3>2 DEF TokenInv, Holds
  <2>. QED  BY <2>1, <2>2
<1>6. CASE Send(w)
  BY <1>6, TokenKept DEF Send, Task, Holds
<1>7. CASE Progress(w)
  BY <1>7, TokenKept DEF Progress, TaskPublishes, Holds
<1>8. CASE Finish(w)
  BY <1>8, TokenKept DEF Finish, TaskPublishes, Holds
<1>. QED  BY <1>1, <1>2, <1>3, <1>4, <1>5, <1>6, <1>7, <1>8 DEF Work

\* A restart leaves the one task it spawned, or none.
LEMMA TokenRestart ==
  ASSUME TokenInv, Restart
  PROVE  TokenInv'
BY DEF Restart, TokenInv, Holds, NoTask

\* Every step keeps the token unique.
LEMMA TokenStep == TokenInv /\ [Next]_vars => TokenInv'
<1>. SUFFICES ASSUME TokenInv, [Next]_vars PROVE TokenInv'
  OBVIOUS
<1>1. CASE \E c \in Clients : Command(c) \/ Go(c)
  BY <1>1, TokenCommand, TokenEnsure DEF Go
<1>2. CASE \E w \in Workers : Work(w)
  BY <1>2, TokenWork
<1>3. CASE Restart
  BY <1>3, TokenRestart
<1>4. CASE UNCHANGED vars
  BY <1>4 DEF vars, TokenInv, Holds
<1>. QED  BY <1>1, <1>2, <1>3, <1>4 DEF Next

\* An installing task holds the flag.
LEMMA TokenSuffices == TokenInv => OneInstall
BY DEF TokenInv, OneInstall, Installing, Holds

-----------------------------------------------------------------------------
(* Items.                                                                  *)

\* What is shown as being installed is the installation in progress, and it has not failed.
Shown(id) ==
  \A i \in DOMAIN items : /\ items[i].state \in Active => items[i].id = id
                          /\ items[i].id = id => items[i].state \in Active \cup {"succeeded"}

\* The ids tell the items apart, and current is the installation in progress.
CurrentInv ==
  /\ Numbered(items, made) /\ Numbered(store, made)
  /\ current.id <= made /\ (current.id = 0 => current = NoInstall)
  /\ (Installing = {}) <=> (current = NoInstall)
  /\ Shown(current.id)

\* What the types say, as the other lemmas use it.
LEMMA TypeFacts ==
  ASSUME TypeOK
  PROVE  /\ items \in Lists /\ store \in Lists /\ watch \in Lists
         /\ made \in Nat /\ made <= MaxItems /\ MaxItems \in Nat
         /\ retries \in Nat /\ retries <= MaxRetries /\ MaxRetries \in Nat
         /\ current.id \in Nat
BY QueueAssumption DEF TypeOK, QueueAssumption, Ids

\* What a command does to the items.
ByUser ==
  \E id, state :
    /\ Becomes(id, state)
    /\ \A m \in DOMAIN items : items[m].id = id =>
         \/ items[m].state = "queued" /\ state = "cancelled"
         \/ items[m].state \in {"failed", "cancelled"} /\ state = "queued" /\ retries' > retries

\* A command that leaves the items alone.
LEMMA Untouched ==
  ASSUME TypeOK, CurrentInv, UNCHANGED <<items, made>>
  PROVE  ByUser
<1>1. Becomes(0, "queued")
  BY Unchanged, TypeFacts DEF CurrentInv
<1>2. \A m \in DOMAIN items : items[m].id # 0
  BY ListFacts, TypeFacts DEF Ids
<1>. QED  BY <1>1, <1>2 DEF ByUser

\* A command that changes which items there are, or their order.
LEMMA Rearranged ==
  ASSUME TypeOK, Becomes(0, "queued")
  PROVE  ByUser
<1>2. \A m \in DOMAIN items : items[m].id # 0
  BY ListFacts, TypeFacts DEF Ids
<1>. QED  BY <1>2 DEF ByUser

\* A command that cancels or retries an item.
LEMMA Judged ==
  ASSUME TypeOK, CurrentInv, NEW id, Listed(id), NEW state \in States, items' = With(id, state), made' = made,
         \/ StateOf(id) = "queued" /\ state = "cancelled"
         \/ StateOf(id) \in {"failed", "cancelled"} /\ state = "queued" /\ retries' > retries
  PROVE  ByUser
<1>1. Becomes(id, state)
  BY TypeFacts, WithFacts DEF CurrentInv
<1>2. \A m \in DOMAIN items : items[m].id = id => m = At(id)
  BY AtFound DEF CurrentInv, Numbered
<1>. QED  BY <1>1, <1>2 DEF ByUser, StateOf

\* Every command does one of these.
LEMMA CommandItems ==
  ASSUME TypeOK, CurrentInv, NEW c \in Clients, Command(c) \/ Go(c)
  PROVE  ByUser
<1>1. ASSUME NEW version \in Versions, NEW retry \in BOOLEAN, NEW waits \in BOOLEAN,
             Enqueue(c, version, retry, waits)
      PROVE  ByUser
  <2>1. /\ made < MaxItems /\ made' = made + 1 /\ Len(items) < Limit
        /\ items' = Insert(items, Front(retry), [id |-> made', version |-> version, state |-> "queued"])
    BY <1>1 DEF Enqueue
  <2>2. Becomes(0, "queued")
    BY <2>1, TypeFacts, FrontFacts, InsertFacts DEF CurrentInv
  <2>. QED  BY <2>2, Rearranged
<1>2. ASSUME NEW id \in Ids, Cancel(c, id)
      PROVE  ByUser
  <2>1. "cancelled" \in States
    BY DEF States, Terminal
  <2>. QED  BY <1>2, <2>1, Judged DEF Cancel
<1>3. ASSUME NEW id \in Ids, Retry(c, id)
      PROVE  ByUser
  <2>1. "queued" \in States /\ retries' > retries
    BY <1>3, TypeFacts DEF States, Retry
  <2>. QED  BY <1>3, <2>1, Judged DEF Retry
<1>4. ASSUME NEW id \in Ids, Remove(c, id)
      PROVE  ByUser
  <2>1. CASE Listed(id) /\ items' = Without(items, At(id)) /\ made' = made
    <3>1. Becomes(0, "queued")
      BY <2>1, TypeFacts, AtFound, RemoveFacts DEF CurrentInv
    <3>. QED  BY <3>1, Rearranged
  <2>2. CASE UNCHANGED <<items, made>>
    BY <2>2, Untouched
  <2>. QED  BY <1>4, <2>1, <2>2 DEF Remove
<1>5. ASSUME NEW i \in DOMAIN items, NEW j \in DOMAIN items, Move(c, i, j)
      PROVE  ByUser
  <2>1. Becomes(0, "queued")
    BY <1>5, TypeFacts, SwapFacts DEF CurrentInv, Move
  <2>. QED  BY <2>1, Rearranged
<1>6. ASSUME CancelRunning(c) \/ Go(c)
      PROVE  ByUser
  BY <1>6, Untouched DEF CancelRunning, Go, List, Publish, Ensure, Return
<1>. QED  BY <1>1, <1>2, <1>3, <1>4, <1>5, <1>6 DEF Command

\* A step that neither begins nor ends the installation keeps what is shown.
LEMMA ShownStill ==
  ASSUME TypeOK, CurrentInv, NEW id, NEW state, Becomes(id, state), current'.id = current.id,
         \A m \in DOMAIN items : items[m].id = id =>
            (state \in Active => id = current.id) /\ (id = current.id => state \in Active \cup {"succeeded"})
  PROVE  Shown(current.id)'
<1>. SUFFICES ASSUME NEW k \in DOMAIN items'
              PROVE  /\ items'[k].state \in Active => items'[k].id = current.id
                     /\ items'[k].id = current.id => items'[k].state \in Active \cup {"succeeded"}
  BY DEF Shown
<1>1. CASE items'[k].id > made /\ items'[k].state = "queued"
  <2>1. items'[k].id # current.id
    <3>1. items'[k].id \in Nat /\ current.id <= made
      BY ListFacts DEF Becomes, Ids, CurrentInv
    <3>. QED  BY <1>1, <3>1, TypeFacts
  <2>. QED  BY <1>1, <2>1 DEF Active
<1>2. CASE \E m \in DOMAIN items : /\ items'[k].id = items[m].id
                                   /\ items'[k].state = IF items[m].id = id THEN state ELSE items[m].state
  BY <1>2 DEF CurrentInv, Shown
<1>. QED  BY <1>1, <1>2 DEF Becomes

\* The ids in the store are those of a list the queue had.
LEMMA StoreNumbered ==
  ASSUME TypeOK, CurrentInv, made' \in Nat, made <= made', Numbered(items', made'),
         store' = store \/ store' = items'
  PROVE  Numbered(store', made')
<1>1. CASE store' = store
  BY <1>1, TypeFacts, ListFacts DEF CurrentInv, Numbered, Ids
<1>2. CASE store' = items'
  BY <1>2
<1>. QED  BY <1>1, <1>2

\* Commands leave the installation in progress what it is.
LEMMA CurrentCommand ==
  ASSUME TypeOK, CurrentInv, NEW c \in Clients, Command(c) \/ Go(c)
  PROVE  CurrentInv'
<1>1. PICK id, state :
        /\ Becomes(id, state)
        /\ \A m \in DOMAIN items : items[m].id = id =>
             /\ items[m].state \in {"queued", "failed", "cancelled"}
             /\ state \in {"cancelled", "queued"}
  BY CommandItems DEF ByUser
<1>2. /\ store' = store \/ store' = items'
      /\ made' = made \/ made' = made + 1
      /\ \/ current' = current
         \/ current # NoInstall /\ current' = [current EXCEPT !.cancelled = TRUE]
  <2>1. CASE \E version \in Versions, retry, waits \in BOOLEAN : Enqueue(c, version, retry, waits)
    BY <2>1 DEF Enqueue, Commit
  <2>2. CASE \E id_1 \in Ids : Cancel(c, id_1) \/ Retry(c, id_1) \/ Remove(c, id_1)
    BY <2>2 DEF Cancel, Retry, Remove, Commit
  <2>3. CASE \E i, j \in DOMAIN items : Move(c, i, j)
    BY <2>3 DEF Move, Commit
  <2>4. CASE CancelRunning(c)
    BY <2>4 DEF CancelRunning
  <2>5. CASE Go(c)
    BY <2>5 DEF Go, List, Publish, Ensure, Return
  <2>. QED  BY <2>1, <2>2, <2>3, <2>4, <2>5 DEF Command
<1>3. Installing' = Installing
  <2>1. CASE worker' = worker
    BY <2>1 DEF Installing
  <2>2. CASE \E w \in Workers : worker[w] = NoTask /\ worker' = [worker EXCEPT ![w].pc = "begin"]
    BY <2>2 DEF Installing, NoTask, TypeOK
  <2>. QED  BY <2>1, <2>2 DEF Command, Enqueue, Cancel, Retry, Remove, Move, CancelRunning, Go, List, Publish, Ensure, Return
<1>4. /\ current'.id = current.id
      /\ current' = NoInstall <=> current = NoInstall
  BY <1>2 DEF TypeOK, NoInstall, CurrentInv
<1>5. Shown(current.id)'
  BY <1>1, <1>4, ShownStill DEF CurrentInv, Shown, Active
<1>6. Numbered(items', made')
  BY <1>1 DEF Becomes
<1>7. Numbered(store', made')
  BY <1>2, <1>6, TypeFacts, StoreNumbered
<1>8. current'.id <= made'
  BY <1>2, <1>4, TypeFacts DEF CurrentInv
<1>. QED  BY <1>3, <1>4, <1>5, <1>6, <1>7, <1>8 DEF CurrentInv

\* What a task does to the items: it moves one on that has not ended, or fails one whose
\* success the operation history does not take.
ByTask ==
  \E id, state :
    /\ Becomes(id, state)
    /\ \A m \in DOMAIN items : items[m].id = id =>
         \/ items[m].state \notin Terminal
         \/ items[m].state = "succeeded" /\ (state = "succeeded" \/ May("history"))

\* A step of a task that leaves the items alone.
LEMMA UntouchedByTask ==
  ASSUME TypeOK, CurrentInv, UNCHANGED <<items, made>>
  PROVE  ByTask
<1>1. Becomes(0, "queued")
  BY Unchanged, TypeFacts DEF CurrentInv
<1>2. \A m \in DOMAIN items : items[m].id # 0
  BY ListFacts, TypeFacts DEF Ids
<1>. QED  BY <1>1, <1>2 DEF ByTask

\* A task begins with a queued item.
LEMMA BeginItems ==
  ASSUME TypeOK, CurrentInv, NEW w \in Workers, Begin(w)
  PROVE  /\ First(Queued) \in DOMAIN items
         /\ items[First(Queued)].state = "queued"
         /\ Becomes(items[First(Queued)].id, "downloading")
         /\ ByTask
<1>1. First(Queued) \in DOMAIN items /\ items[First(Queued)].state = "queued"
  BY TypeFacts, QueuedFacts DEF Begin
<1>2. Becomes(items[First(Queued)].id, "downloading")
  <2>1. "downloading" \in States
    BY DEF States, Active
  <2>. QED  BY <1>1, <2>1, TypeFacts, Restated DEF Begin, CurrentInv
<1>3. \A m \in DOMAIN items : items[m].id = items[First(Queued)].id => items[m].state \notin Terminal
  BY <1>1 DEF CurrentInv, Numbered, Terminal
<1>. QED  BY <1>1, <1>2, <1>3 DEF ByTask

\* Progress is that of the installation in progress.
LEMMA ProgressItems ==
  ASSUME TypeOK, CurrentInv, NEW w \in Workers, Progress(w)
  PROVE  ByTask /\ Shown(current.id)'
<1>1. made' = made /\ current' = current
  BY DEF Progress
<1>2. CASE items' = items
  BY <1>1, <1>2, UntouchedByTask DEF Shown, CurrentInv
<1>3. CASE items' = With(current.id, "succeeded")
  <2>1. "succeeded" \in States
    BY DEF States, Terminal
  <2>2. Becomes(current.id, "succeeded")
    BY <1>1, <1>3, <2>1, TypeFacts, WithFacts DEF CurrentInv
  <2>3. \A m \in DOMAIN items : items[m].id = current.id => items[m].state \notin Terminal \/ items[m].state = "succeeded"
    BY DEF CurrentInv, Shown, Active, Terminal
  <2>4. Shown(current.id)'
    BY <1>1, <2>2, ShownStill DEF Active
  <2>. QED  BY <2>2, <2>3, <2>4 DEF ByTask
<1>. QED  BY <1>2, <1>3 DEF Progress

\* Only the installation in progress ends.
LEMMA FinishItems ==
  ASSUME TypeOK, CurrentInv, NEW w \in Workers, Finish(w)
  PROVE  ByTask /\ Shown(0)'
<1>1. PICK outcome \in Outcomes : items' = With(current.id, outcome)
  BY DEF Finish
<1>2. made' = made /\ outcome \in Terminal /\ outcome \in States
  BY DEF Finish, Outcomes, Terminal, States
<1>3. Becomes(current.id, outcome)
  BY <1>1, <1>2, TypeFacts, WithFacts DEF CurrentInv
<1>4. \A m \in DOMAIN items : items[m].id = current.id =>
         \/ items[m].state \notin Terminal
         \/ items[m].state = "succeeded" /\ (outcome = "succeeded" \/ May("history"))
  <2>. SUFFICES ASSUME NEW m \in DOMAIN items, items[m].id = current.id, items[m].state = "succeeded"
                PROVE  outcome = "succeeded" \/ May("history")
    BY DEF CurrentInv, Shown, Active, Terminal
  <2>1. At(current.id) = m
    BY AtFound DEF CurrentInv, Numbered, Listed
  <2>2. Installed
    BY <2>1 DEF Installed, StateOf
  <2>. QED  BY <1>1, <2>2 DEF Outcomes
<1>5. ASSUME NEW k \in DOMAIN items'
      PROVE  items'[k].id # 0 /\ items'[k].state \notin Active
  <2>1. items'[k].id # 0
    BY <1>3, ListFacts, TypeFacts DEF Becomes, Ids
  <2>2. items'[k].state \notin Active
    BY <1>2, <1>3 DEF Becomes, Active, Terminal, CurrentInv, Shown
  <2>. QED  BY <2>1, <2>2
<1>. QED  BY <1>3, <1>4, <1>5 DEF ByTask, Shown

\* Every step of a task does one of these.
LEMMA WorkItems ==
  ASSUME TypeOK, CurrentInv, NEW w \in Workers, Work(w)
  PROVE  ByTask
<1>1. CASE Begin(w)
  BY <1>1, BeginItems
<1>2. CASE Progress(w)
  BY <1>2, ProgressItems
<1>3. CASE Finish(w)
  BY <1>3, FinishItems
<1>4. CASE Nothing(w) \/ Idle(w) \/ Recheck(w) \/ Claim(w) \/ Send(w)
  BY <1>4, UntouchedByTask DEF Nothing, Idle, Recheck, Claim, Send
<1>. QED  BY <1>1, <1>2, <1>3, <1>4 DEF Work

\* Nobody installs beside a task that holds the flag.
LEMMA OnlyInstaller ==
  ASSUME TypeOK, TokenInv, NEW w \in Workers, Holds(w)
  PROVE  Installing \subseteq {w}
BY DEF TokenInv, Holds, Installing

\* Tasks keep what is shown and what is in progress together.
LEMMA CurrentWork ==
  ASSUME TypeOK, TokenInv, CurrentInv, NEW w \in Workers, Work(w)
  PROVE  CurrentInv'
<1>1. made' = made /\ (store' = store \/ store' = items')
  BY DEF Work, Begin, Nothing, Idle, Recheck, Claim, Send, Progress, Finish, Save
<1>2. Numbered(items', made')
  BY WorkItems DEF ByTask, Becomes
<1>3. Numbered(store', made')
  BY <1>1, <1>2, TypeFacts, StoreNumbered
<1>4. DOMAIN worker = Workers
  BY DEF TypeOK
<1>5. CASE Begin(w)
  <2>1. Installing' = {w}
    <3>1. Holds(w)
      BY <1>5 DEF Begin, Holds
    <3>. QED  BY <1>4, <1>5, <3>1, OnlyInstaller DEF Begin, TaskPublishes, Installing
  <2>2. current = NoInstall
    BY <1>5, OnlyInstaller DEF Begin, Holds, Installing, CurrentInv
  <2>3. /\ current'.id = items[First(Queued)].id
        /\ current'.id \in Ids /\ current'.id <= made
    BY <1>5, BeginItems, TypeFacts, ListFacts DEF Begin, CurrentInv, Numbered
  <2>4. current'.id # 0 /\ current' # NoInstall
    BY <2>3 DEF Ids, NoInstall
  <2>5. Shown(current.id)'
    <3>. SUFFICES ASSUME NEW k \in DOMAIN items'
                  PROVE  /\ items'[k].state \in Active => items'[k].id = current'.id
                         /\ items'[k].id = current'.id => items'[k].state \in Active \cup {"succeeded"}
      BY DEF Shown
    <3>1. CASE items'[k].id > made /\ items'[k].state = "queued"
      <4>1. items'[k].id # current'.id
        BY <3>1, <2>3, TypeFacts DEF Ids
      <4>. QED  BY <3>1, <4>1 DEF Active
    <3>2. CASE \E m \in DOMAIN items :
                 /\ items'[k].id = items[m].id
                 /\ items'[k].state = IF items[m].id = current'.id THEN "downloading" ELSE items[m].state
      <4>1. \A m \in DOMAIN items : items[m].state \notin Active
        BY <2>2, TypeFacts, ListFacts DEF CurrentInv, Shown, NoInstall, Ids
      <4>. QED  BY <3>2, <4>1 DEF Active
    <3>. QED  BY <1>5, <2>3, <3>1, <3>2, BeginItems DEF Becomes
  <2>. QED  BY <1>1, <1>2, <1>3, <2>1, <2>3, <2>4, <2>5 DEF CurrentInv
<1>6. CASE Finish(w)
  <2>1. Installing' = {}
    <3>1. Holds(w)
      BY <1>6 DEF Finish, Holds
    <3>2. worker' = [worker EXCEPT ![w] = [pc |-> "finished", view |-> Shot(items')]]
      BY <1>6 DEF Finish, TaskPublishes
    <3>3. Installing' = Installing \ {w}
      BY <1>4, <3>2 DEF Installing
    <3>. QED  BY <3>1, <3>3, OnlyInstaller
  <2>2. current' = NoInstall
    BY <1>6 DEF Finish
  <2>3. current'.id = 0
    BY <2>2 DEF NoInstall
  <2>. QED  BY <1>1, <1>2, <1>3, <1>6, <2>1, <2>2, <2>3, FinishItems, TypeFacts DEF CurrentInv
<1>7. CASE Progress(w)
  <2>1. Installing' = Installing
    BY <1>4, <1>7 DEF Progress, TaskPublishes, Installing
  <2>2. current' = current
    BY <1>7 DEF Progress
  <2>. QED  BY <1>1, <1>2, <1>3, <1>7, <2>1, <2>2, ProgressItems DEF CurrentInv
<1>8. CASE Nothing(w) \/ Idle(w) \/ Recheck(w) \/ Claim(w) \/ Send(w)
  <2>1. Installing' = Installing
    <3>1. CASE Nothing(w) \/ Idle(w) \/ Recheck(w) \/ Claim(w)
      BY <1>4, <3>1 DEF Nothing, Idle, Recheck, Claim, Task, Installing
    <3>2. CASE Send(w)
      <4>1. worker[w].pc \in {"begun", "finished"}
            /\ worker' = [worker EXCEPT ![w] = [pc |-> IF worker[w].pc = "begun" THEN "work" ELSE "begin",
                                               view |-> <<>>]]
        BY <3>2 DEF Send, Task
      <4>2. Installing' = IF worker[w].pc = "begun" THEN Installing \cup {w} ELSE Installing \ {w}
        BY <1>4, <4>1 DEF Installing
      <4>. QED  BY <4>1, <4>2 DEF Installing
    <3>. QED  BY <1>8, <3>1, <3>2
  <2>2. current' = current /\ items' = items
    BY <1>8 DEF Nothing, Idle, Recheck, Claim, Send
  <2>. QED  BY <1>1, <1>2, <1>3, <2>1, <2>2 DEF CurrentInv, Shown
<1>. QED  BY <1>5, <1>6, <1>7, <1>8 DEF Work

\* After a restart nothing is in progress.
LEMMA CurrentRestart ==
  ASSUME TypeOK, CurrentInv, Restart
  PROVE  CurrentInv' /\ items' \in Lists
<1>1. /\ items' \in Lists /\ DOMAIN items' = DOMAIN store
      /\ \A k \in DOMAIN store :
           items'[k] = [store[k] EXCEPT !.state = IF @ \in Terminal THEN @ ELSE "queued"]
  BY TypeFacts, Mapped DEF Restart
<1>2. \A k \in DOMAIN store :
        /\ items'[k].id = store[k].id /\ items'[k].state \notin Active
        /\ items'[k].state = IF store[k].state \in Terminal THEN store[k].state ELSE "queued"
  BY <1>1, TypeFacts, ListFacts DEF Item, Active, Terminal
<1>3. Numbered(items', made') /\ Numbered(store', made')
  BY <1>1, <1>2 DEF Restart, Numbered, CurrentInv
<1>4. Installing' = {}
  BY DEF Restart, Installing, NoTask
<1>5. current' = NoInstall /\ current'.id = 0 /\ made' = made
  BY DEF Restart, NoInstall
<1>6. Shown(0)'
  BY <1>1, <1>2, TypeFacts, ListFacts DEF Shown, Ids
<1>. QED  BY <1>1, <1>3, <1>4, <1>5, <1>6, TypeFacts DEF CurrentInv

\* What a command and a task may be doing.
Calls == [pc : CallSteps, id : Ids \cup {0}, view : Lists, wakes : BOOLEAN]
TaskStates == [pc : TaskSteps, view : Lists]

\* A command that publishes has a snapshot to publish.
LEMMA TypeCall ==
  ASSUME TypeOK, items' \in Lists, NEW c \in Clients, NEW id \in Ids \cup {0}, NEW wakes \in BOOLEAN,
         Call(c, id, wakes)
  PROVE  client' \in [Clients -> Calls]
<1>1. [pc |-> "publish", id |-> id, view |-> Shot(items'), wakes |-> wakes] \in Calls
  <2>1. Shot(items') \in Lists
    BY ShotFacts
  <2>. QED  BY <2>1 DEF Calls, CallSteps
<1>. QED  BY <1>1 DEF Call, TypeOK, Calls

\* Whether the save works or not.
LEMMA TypeCommit ==
  ASSUME TypeOK, items' \in Lists, NEW c \in Clients, NEW id \in Ids \cup {0}, NEW wakes \in BOOLEAN,
         Commit(c, id, wakes)
  PROVE  store' \in Lists /\ client' \in [Clients -> Calls]
<1>1. CASE store' = items' /\ Call(c, id, wakes)
  BY <1>1, TypeCall
<1>2. CASE UNCHANGED <<store, client>>
  BY <1>2 DEF TypeOK, Calls
<1>. QED  BY <1>1, <1>2 DEF Commit

\* Commands keep the types.
LEMMA TypeCommand ==
  ASSUME TypeOK, CurrentInv, NEW c \in Clients, Command(c)
  PROVE  TypeOK'
<1>0. items' \in Lists
  BY CommandItems DEF ByUser, Becomes
<1>1. ASSUME NEW version \in Versions, NEW retry \in BOOLEAN, NEW waits \in BOOLEAN,
             Enqueue(c, version, retry, waits)
      PROVE  TypeOK'
  <2>1. made' \in Ids /\ made' \in 0..MaxItems
    BY <1>1, TypeFacts DEF Enqueue, Ids
  <2>2. PICK id \in Ids \cup {0} : Commit(c, id, TRUE)
    BY <1>1, <2>1 DEF Enqueue
  <2>3. store' \in Lists /\ client' \in [Clients -> Calls]
    BY <1>0, <2>2, TypeCommit
  <2>. QED  BY <1>0, <1>1, <2>1, <2>3 DEF TypeOK, Enqueue, Calls
<1>2. ASSUME NEW id \in Ids, Cancel(c, id) PROVE TypeOK'
  <2>1. store' \in Lists /\ client' \in [Clients -> Calls]
    BY <1>0, <1>2, TypeCommit DEF Cancel
  <2>. QED  BY <1>0, <1>2, <2>1 DEF TypeOK, Cancel, Calls
<1>3. ASSUME NEW id \in Ids, Retry(c, id) PROVE TypeOK'
  <2>1. store' \in Lists /\ client' \in [Clients -> Calls]
    BY <1>0, <1>3, TypeCommit DEF Retry
  <2>2. retries' \in 0..MaxRetries
    BY <1>3, TypeFacts DEF Retry
  <2>. QED  BY <1>0, <1>3, <2>1, <2>2 DEF TypeOK, Retry, Calls
<1>4. ASSUME NEW id \in Ids, Remove(c, id) PROVE TypeOK'
  <2>1. store' \in Lists /\ client' \in [Clients -> Calls]
    <3>1. CASE Commit(c, 0, FALSE)
      BY <1>0, <3>1, TypeCommit
    <3>2. CASE UNCHANGED <<items, store>> /\ Call(c, 0, FALSE)
      BY <1>0, <3>2, TypeCall DEF TypeOK
    <3>. QED  BY <1>4, <3>1, <3>2 DEF Remove
  <2>. QED  BY <1>0, <1>4, <2>1 DEF TypeOK, Remove, Calls
<1>5. ASSUME NEW i \in DOMAIN items, NEW j \in DOMAIN items, Move(c, i, j) PROVE TypeOK'
  <2>1. store' \in Lists /\ client' \in [Clients -> Calls]
    BY <1>0, <1>5, TypeCommit DEF Move
  <2>. QED  BY <1>0, <1>5, <2>1 DEF TypeOK, Move, Calls
<1>6. CASE CancelRunning(c)
  <2>1. client' \in [Clients -> Calls]
    BY <1>6 DEF CancelRunning, TypeOK, Calls, CallSteps
  <2>2. current' \in [id : Ids \cup {0}, cancelled : BOOLEAN]
    BY <1>6 DEF CancelRunning, TypeOK
  <2>. QED  BY <1>6, <2>1, <2>2 DEF TypeOK, CancelRunning, Calls
<1>. QED  BY <1>1, <1>2, <1>3, <1>4, <1>5, <1>6 DEF Command

\* So do their later steps.
LEMMA TypeGo ==
  ASSUME TypeOK, NEW c \in Clients, Go(c)
  PROVE  TypeOK'
<1>0. NoCall \in Calls
  BY EmptyList DEF NoCall, Calls, CallSteps
<1>1. CASE List(c)
  <2>1. items' \in Lists /\ Call(c, 0, FALSE)
    BY <1>1 DEF List, TypeOK
  <2>2. client' \in [Clients -> Calls]
    BY <2>1, TypeCall
  <2>. QED  BY <1>1, <2>1, <2>2 DEF List, TypeOK, Calls
<1>2. CASE Publish(c)
  <2>1. client[c] \in Calls /\ client[c].view \in Lists /\ client[c].id \in Ids \cup {0}
    BY DEF TypeOK, Calls
  <2>2. [NoCall EXCEPT !.pc = "ensure", !.id = client[c].id] \in Calls
    BY <1>0, <2>1 DEF Calls, CallSteps
  <2>3. client' \in [Clients -> Calls]
    BY <1>0, <1>2, <2>2 DEF Publish, TypeOK, Calls
  <2>. QED  BY <1>2, <2>1, <2>3 DEF Publish, TypeOK, Calls
<1>3. CASE Ensure(c)
  <2>1. client' \in [Clients -> Calls]
    BY <1>3 DEF Ensure, Woken, TypeOK, Calls, CallSteps
  <2>2. worker' \in [Workers -> TaskStates]
    BY <1>3 DEF Ensure, TypeOK, TaskStates, TaskSteps
  <2>. QED  BY <1>3, <2>1, <2>2 DEF Ensure, TypeOK, Calls, TaskStates
<1>4. CASE Return(c)
  <2>1. client' \in [Clients -> Calls]
    BY <1>0, <1>4 DEF Return, TypeOK, Calls
  <2>. QED  BY <1>4, <2>1 DEF Return, TypeOK, Calls
<1>. QED  BY <1>1, <1>2, <1>3, <1>4 DEF Go

\* A task is somewhere in its loop.
LEMMA TypeTask ==
  ASSUME TypeOK, NEW w \in Workers, NEW pc \in TaskSteps, NEW view \in Lists,
         worker' = [worker EXCEPT ![w] = [pc |-> pc, view |-> view]]
  PROVE  worker' \in [Workers -> TaskStates]
BY DEF TypeOK, TaskStates

\* Tasks keep the types.
LEMMA TypeWork ==
  ASSUME TypeOK, CurrentInv, NEW w \in Workers, Work(w)
  PROVE  TypeOK'
<1>1. items' \in Lists
  BY WorkItems DEF ByTask, Becomes
<1>2. store' \in Lists
  BY <1>1 DEF TypeOK, Work, Begin, Nothing, Idle, Recheck, Claim, Send, Progress, Finish, Save
<1>3. worker' \in [Workers -> TaskStates]
  <2>1. PICK pc \in TaskSteps, view \in {<<>>, Shot(items')} :
          worker' = [worker EXCEPT ![w] = [pc |-> pc, view |-> view]]
    BY DEF Work, Begin, Nothing, Idle, Recheck, Claim, Send, Progress, Finish, Task, TaskPublishes, TaskSteps
  <2>2. view \in Lists
    BY <1>1, EmptyList, ShotFacts
  <2>. QED  BY <2>1, <2>2, TypeTask
<1>4. watch' \in Lists
  BY DEF TypeOK, Work, Begin, Nothing, Idle, Recheck, Claim, Send, Progress, Finish
<1>5. current' \in [id : Ids \cup {0}, cancelled : BOOLEAN]
  <2>1. CASE Begin(w)
    <3>1. items[First(Queued)].id \in Ids
      BY <2>1, BeginItems, TypeFacts, ListFacts
    <3>. QED  BY <2>1, <3>1 DEF Begin
  <2>2. CASE ~Begin(w)
    <3>1. current' = current \/ current' = NoInstall
      BY <2>2 DEF Work, Nothing, Idle, Recheck, Claim, Send, Progress, Finish
    <3>2. current \in [id : Ids \cup {0}, cancelled : BOOLEAN]
      BY DEF TypeOK
    <3>3. NoInstall \in [id : Ids \cup {0}, cancelled : BOOLEAN]
      BY DEF NoInstall
    <3>. QED  BY <3>1, <3>2, <3>3
  <2>. QED  BY <2>1, <2>2
<1>6. running' \in BOOLEAN /\ UNCHANGED <<client, made, retries>>
  BY DEF TypeOK, Work, Begin, Nothing, Idle, Recheck, Claim, Send, Progress, Finish
<1>. QED  BY <1>1, <1>2, <1>3, <1>4, <1>5, <1>6 DEF TypeOK, TaskStates

\* A restart keeps the types.
LEMMA TypeRestart ==
  ASSUME TypeOK, CurrentInv, Restart
  PROVE  TypeOK'
<1>1. items' \in Lists /\ Shot(items') \in Lists /\ <<>> \in Lists
  BY CurrentRestart, ShotFacts, EmptyList
<1>2. store' \in Lists /\ watch' \in Lists /\ running' \in BOOLEAN
  BY <1>1 DEF Restart, TypeOK
<1>3. NoTask \in TaskStates /\ [NoTask EXCEPT !.pc = "begin"] \in TaskStates
  BY <1>1 DEF NoTask, TaskStates, TaskSteps
<1>4. worker' \in [Workers -> TaskStates]
  BY <1>3 DEF Restart
<1>5. NoCall \in Calls
  BY <1>1 DEF NoCall, Calls, CallSteps
<1>6. client' \in [Clients -> Calls]
  BY <1>5 DEF Restart
<1>. QED  BY <1>1, <1>2, <1>4, <1>6 DEF Restart, TypeOK, TaskStates, Calls, NoInstall

\* The type invariant and the two it needs.
QueueInv == TypeOK /\ TokenInv /\ CurrentInv

\* The application starts with an empty queue.
LEMMA QueueInit == Init => TypeOK /\ CurrentInv
<1>. SUFFICES ASSUME Init PROVE TypeOK /\ CurrentInv
  OBVIOUS
<1>1. TypeOK
  <2>1. items \in Lists /\ store \in Lists /\ watch \in Lists
    BY EmptyList DEF Init
  <2>2. made \in 0..MaxItems /\ retries \in 0..MaxRetries
    BY QueueAssumption DEF Init, QueueAssumption
  <2>3. NoTask \in TaskStates /\ NoCall \in Calls
    BY EmptyList DEF NoTask, TaskStates, TaskSteps, NoCall, Calls, CallSteps
  <2>. QED  BY <2>1, <2>2, <2>3 DEF Init, TypeOK, NoInstall, TaskStates, Calls
<1>2. CurrentInv
  BY DEF Init, CurrentInv, Numbered, NoInstall, Installing, NoTask, Shown
<1>. QED  BY <1>1, <1>2

\* A flag that is up has a holder, and a command that wakes is about to publish.
Alive ==
  /\ running => \E w \in Workers : Holds(w)
  /\ \A c \in Clients : client[c].wakes => client[c].pc = "publish"

\* Commands spawn no task and end none.
LEMMA AliveCommand ==
  ASSUME TypeOK, Alive, NEW c \in Clients, Command(c) \/ List(c) \/ Publish(c) \/ Return(c)
  PROVE  Alive'
<1>1. UNCHANGED <<worker, running>>
  BY DEF Command, Enqueue, Cancel, Retry, Remove, Move, CancelRunning, List, Publish, Return
<1>2. \/ client' = client
      \/ \E id, wakes : Call(c, id, wakes)
      \/ client[c].pc = "idle" /\ client' = [client EXCEPT ![c].pc = "list"]
      \/ Publish(c) \/ Return(c)
  BY DEF Command, Enqueue, Cancel, Retry, Remove, Move, CancelRunning, List, Commit
<1>3. ASSUME NEW d \in Clients, client'[d].wakes PROVE client'[d].pc = "publish"
  <2>1. CASE client' = client
    BY <1>3, <2>1 DEF Alive
  <2>2. CASE \E id, wakes : Call(c, id, wakes)
    BY <1>3, <2>2 DEF Call, Alive, TypeOK
  <2>3. CASE client[c].pc = "idle" /\ client' = [client EXCEPT ![c].pc = "list"]
    BY <1>3, <2>3 DEF Alive, TypeOK
  <2>4. CASE Publish(c)
    BY <1>3, <2>4 DEF Publish, Alive, NoCall, TypeOK
  <2>5. CASE Return(c)
    BY <1>3, <2>5 DEF Return, Alive, NoCall, TypeOK
  <2>. QED  BY <1>2, <2>1, <2>2, <2>3, <2>4, <2>5
<1>. QED  BY <1>1, <1>3 DEF Alive, Holds

\* After ensure_worker there is a task.
LEMMA AliveEnsure ==
  ASSUME TypeOK, Alive, NEW c \in Clients, Ensure(c)
  PROVE  Alive' /\ \E w \in Workers : Holds(w)'
<1>1. \E w \in Workers : Holds(w)'
  <2>1. CASE running
    BY <2>1 DEF Ensure, Alive, Holds
  <2>2. CASE ~running
    <3>1. PICK w \in Workers : worker' = [worker EXCEPT ![w].pc = "begin"]
      BY <2>2 DEF Ensure
    <3>2. worker'[w].pc = "begin"
      BY <3>1 DEF TypeOK
    <3>. QED  BY <3>2 DEF Holds
  <2>. QED  BY <2>1, <2>2
<1>2. \A d \in Clients : client'[d].wakes => client'[d].pc = "publish"
  BY DEF Ensure, Woken, Alive, TypeOK
<1>. QED  BY <1>1, <1>2 DEF Alive

\* A task that ends while the flag is up leaves it to another.
LEMMA AliveWork ==
  ASSUME TypeOK, TokenInv, Alive, NEW w \in Workers, Work(w)
  PROVE  Alive'
<1>1. client' = client
  BY DEF Work, Begin, Nothing, Idle, Recheck, Claim, Send, Progress, Finish
<1>2. ASSUME NEW pc, NEW view, worker' = [worker EXCEPT ![w] = [pc |-> pc, view |-> view]]
      PROVE  worker'[w].pc = pc /\ \A v \in Workers \ {w} : worker'[v] = worker[v]
  BY <1>2 DEF TypeOK
<1>3. running' => \E v \in Workers : Holds(v)'
  <2>1. CASE Begin(w) \/ Progress(w) \/ Finish(w) \/ Send(w) \/ Nothing(w)
    BY <1>2, <2>1 DEF Begin, Progress, Finish, Send, Nothing, Task, TaskPublishes, Holds
  <2>2. CASE Idle(w)
    BY <2>2 DEF Idle
  <2>3. CASE Recheck(w)
    <3>1. \A v \in Workers : Holds(v) => Holds(v)'
      BY <2>3 DEF Recheck, Task, Holds, TypeOK
    <3>. QED  BY <2>3, <3>1 DEF Recheck, Alive
  <2>4. CASE Claim(w)
    <3>1. CASE running
      <4>1. \A v \in Workers : Holds(v) => Holds(v)'
        BY <2>4 DEF Claim, Task, Holds, TypeOK
      <4>. QED  BY <3>1, <4>1 DEF Alive
    <3>2. CASE ~running
      <4>1. worker' = [worker EXCEPT ![w] = [pc |-> "begin", view |-> <<>>]]
        BY <2>4, <3>2 DEF Claim, Task
      <4>. QED  BY <4>1 DEF Holds, TypeOK
    <3>. QED  BY <3>1, <3>2
  <2>. QED  BY <2>1, <2>2, <2>3, <2>4 DEF Work
<1>. QED  BY <1>1, <1>3 DEF Alive

\* A restart spawns a task if it could save.
LEMMA AliveRestart ==
  ASSUME Restart
  PROVE  Alive'
<1>1. \A c \in Clients : ~client'[c].wakes
  BY DEF Restart, NoCall
<1>2. running' => \E w \in Workers : Holds(w)'
  <2>1. CASE running' = TRUE
    <3>1. PICK w \in Workers :
            worker' = [v \in Workers |-> IF v = w THEN [NoTask EXCEPT !.pc = "begin"] ELSE NoTask]
      BY <2>1 DEF Restart
    <3>2. worker'[w].pc = "begin"
      BY <3>1 DEF NoTask
    <3>. QED  BY <3>2 DEF Holds
  <2>2. CASE running' = FALSE
    BY <2>2
  <2>. QED  BY <2>1, <2>2 DEF Restart
<1>. QED  BY <1>1, <1>2 DEF Alive

-----------------------------------------------------------------------------

\* Only new items and retried ones are added to what is queued.
LEMMA FewerQueued ==
  ASSUME TypeOK, CurrentInv, ByUser, made' = made, retries' = retries, Queued' # {}
  PROVE  Queued # {}
<1>1. PICK id, state :
        /\ Becomes(id, state)
        /\ \A m \in DOMAIN items : items[m].id = id => items[m].state = "queued" \/ state # "queued"
  BY TypeFacts DEF ByUser
<1>2. PICK k \in DOMAIN items' : items'[k].state = "queued"
  BY DEF Queued, Where
<1>3. ~(items'[k].id > made)
  BY <1>1, TypeFacts, ListFacts DEF Becomes, Numbered, Ids
<1>4. \E m \in DOMAIN items : items[m].state = "queued"
  BY <1>1, <1>2, <1>3 DEF Becomes
<1>. QED  BY <1>4 DEF Queued, Where

\* Whatever a command queues, it is about to wake a worker.
LEMMA WakeupCommand ==
  ASSUME TypeOK, CurrentInv, Alive, NoLostWakeup, "disk" \notin Hazards, NEW c \in Clients, Command(c)
  PROVE  NoLostWakeup'
<1>1. worker' = worker /\ client[c].pc = "idle" /\ ~client[c].wakes
  <2>1. worker' = worker /\ client[c].pc = "idle"
    BY DEF Command, Enqueue, Cancel, Retry, Remove, Move, CancelRunning
  <2>. QED  BY <2>1 DEF Alive
<1>2. \/ \E id : Call(c, id, TRUE)
      \/ made' = made /\ retries' = retries
  <2>1. CASE \E version \in Versions, retry, waits \in BOOLEAN : Enqueue(c, version, retry, waits)
    BY <2>1 DEF Enqueue, Commit, May
  <2>2. CASE \E id \in Ids : Cancel(c, id) \/ Retry(c, id) \/ Remove(c, id)
    BY <2>2 DEF Cancel, Retry, Remove, Commit, May
  <2>3. CASE (\E i, j \in DOMAIN items : Move(c, i, j)) \/ CancelRunning(c)
    BY <2>3 DEF Move, CancelRunning
  <2>. QED  BY <2>1, <2>2, <2>3 DEF Command
<1>3. CASE \E id : Call(c, id, TRUE)
  <2>1. client'[c].wakes
    BY <1>3 DEF Call, TypeOK
  <2>. QED  BY <2>1 DEF NoLostWakeup
<1>4. CASE made' = made /\ retries' = retries
  <2>1. \/ client' = client
        \/ \E id, wakes : Call(c, id, wakes)
        \/ client' = [client EXCEPT ![c].pc = "list"]
    BY DEF Command, Enqueue, Cancel, Retry, Remove, Move, CancelRunning, Commit
  <2>2. ASSUME NEW d \in Clients, d # c PROVE client'[d] = client[d]
    BY <2>1, <2>2 DEF Call, TypeOK
  <2>3. Queued' # {} => Queued # {}
    BY <1>4, CommandItems, FewerQueued
  <2>. QED  BY <1>1, <2>2, <2>3 DEF NoLostWakeup
<1>. QED  BY <1>2, <1>3, <1>4

\* It passes the wake-up on.
LEMMA WakeupGo ==
  ASSUME TypeOK, CurrentInv, Alive, NoLostWakeup, NEW c \in Clients, Go(c)
  PROVE  NoLostWakeup'
<1>0. Queued' = Queued
  BY DEF Go, List, Publish, Ensure, Return, Queued, Where
<1>1. CASE List(c)
  <2>1. worker' = worker /\ ~client[c].wakes /\ client[c].pc # "ensure"
    BY <1>1 DEF List, Alive
  <2>2. \A d \in Clients \ {c} : client'[d] = client[d]
    BY <1>1 DEF List, Call, TypeOK
  <2>. QED  BY <1>0, <2>1, <2>2 DEF NoLostWakeup
<1>2. CASE Publish(c)
  <2>1. worker' = worker /\ client[c].pc # "ensure"
    BY <1>2 DEF Publish
  <2>2. client[c].wakes => client'[c].pc = "ensure"
    BY <1>2 DEF Publish, NoCall, TypeOK
  <2>3. \A d \in Clients \ {c} : client'[d] = client[d]
    BY <1>2 DEF Publish, TypeOK
  <2>. QED  BY <1>0, <2>1, <2>2, <2>3 DEF NoLostWakeup
<1>3. CASE Ensure(c)
  <2>1. PICK w \in Workers : Holds(w)'
    BY <1>3, AliveEnsure
  <2>. QED  BY <2>1 DEF Holds, NoLostWakeup
<1>4. CASE Return(c)
  <2>1. worker' = worker /\ ~client[c].wakes /\ client[c].pc # "ensure"
    BY <1>4 DEF Return, Alive
  <2>2. \A d \in Clients \ {c} : client'[d] = client[d]
    BY <1>4 DEF Return, TypeOK
  <2>. QED  BY <1>0, <2>1, <2>2 DEF NoLostWakeup
<1>. QED  BY <1>1, <1>2, <1>3, <1>4 DEF Go

\* A task ends only if nothing is queued, or another goes on.
LEMMA WakeupWork ==
  ASSUME TypeOK, TokenInv, Alive, NoLostWakeup, NEW w \in Workers, Work(w)
  PROVE  NoLostWakeup'
<1>1. CASE Begin(w) \/ Nothing(w) \/ Idle(w) \/ Send(w) \/ Progress(w) \/ Finish(w)
  <2>1. worker'[w].pc # "none"
    BY <1>1 DEF Begin, Nothing, Idle, Send, Progress, Finish, Task, TaskPublishes, TypeOK
  <2>. QED  BY <2>1 DEF NoLostWakeup
<1>2. CASE Recheck(w)
  <2>1. CASE Queued = {}
    <3>1. Queued' = {}
      BY <1>2, <2>1 DEF Recheck, Queued, Where
    <3>. QED  BY <3>1 DEF NoLostWakeup
  <2>2. CASE Queued # {}
    <3>1. worker'[w].pc = "claim"
      BY <1>2, <2>2 DEF Recheck, Task, TypeOK
    <3>. QED  BY <3>1 DEF NoLostWakeup
  <2>. QED  BY <2>1, <2>2
<1>3. CASE Claim(w)
  <2>1. PICK v \in Workers : Holds(v)'
    <3>1. running'
      BY <1>3 DEF Claim
    <3>. QED  BY <3>1, AliveWork DEF Alive
  <2>. QED  BY <2>1 DEF Holds, NoLostWakeup
<1>. QED  BY <1>1, <1>2, <1>3 DEF Work

\* A restart that saves wakes a task.
LEMMA WakeupRestart ==
  ASSUME Restart, "disk" \notin Hazards
  PROVE  NoLostWakeup'
<1>1. PICK w \in Workers : Holds(w)'
  <2>1. running'
    BY DEF Restart, May
  <2>. QED  BY <2>1, AliveRestart DEF Alive
<1>. QED  BY <1>1 DEF Holds, NoLostWakeup

-----------------------------------------------------------------------------

\* What was saved is what is in memory.
LEMMA SavedRestarts ==
  ASSUME store' = items'
  PROVE  RestartLosesNothing'
BY DEF RestartLosesNothing

\* Nothing changes what a restart would find.
LEMMA IdleRestarts ==
  ASSUME RestartLosesNothing, UNCHANGED <<items, store>>, current'.id = current.id
  PROVE  RestartLosesNothing'
BY DEF RestartLosesNothing

\* Every step keeps the store in step with the memory.
LEMMA RestartsStep ==
  ASSUME TypeOK, CurrentInv, RestartLosesNothing, "disk" \notin Hazards, Next
  PROVE  RestartLosesNothing'
<1>1. ASSUME NEW c \in Clients, Command(c) \/ Go(c) PROVE RestartLosesNothing'
  <2>1. \/ store' = items'
        \/ UNCHANGED <<items, store>> /\ current'.id = current.id
    <3>1. CASE \E version \in Versions, retry, waits \in BOOLEAN : Enqueue(c, version, retry, waits)
      BY <3>1 DEF Enqueue, Commit, May
    <3>2. CASE \E id \in Ids : Cancel(c, id) \/ Retry(c, id) \/ Remove(c, id)
      BY <3>2 DEF Cancel, Retry, Remove, Commit, May
    <3>3. CASE \E i, j \in DOMAIN items : Move(c, i, j)
      BY <3>3 DEF Move, Commit, May
    <3>4. CASE CancelRunning(c)
      BY <3>4 DEF CancelRunning, TypeOK
    <3>5. CASE Go(c)
      BY <3>5 DEF Go, List, Publish, Ensure, Return
    <3>. QED  BY <1>1, <3>1, <3>2, <3>3, <3>4, <3>5 DEF Command
  <2>. QED  BY <2>1, SavedRestarts, IdleRestarts
<1>2. ASSUME NEW w \in Workers, Work(w) PROVE RestartLosesNothing'
  <2>1. CASE Begin(w) \/ Finish(w)
    BY <2>1, SavedRestarts DEF Begin, Finish, Save, May
  <2>2. CASE Nothing(w) \/ Idle(w) \/ Recheck(w) \/ Claim(w) \/ Send(w)
    BY <2>2, IdleRestarts DEF Nothing, Idle, Recheck, Claim, Send
  <2>3. CASE Progress(w)
    <3>1. store' = store /\ current' = current /\ Listed(current.id)
      BY <2>3 DEF Progress
    <3>2. CASE items' = items
      BY <3>1, <3>2, IdleRestarts
    <3>3. CASE items' = [items EXCEPT ![At(current.id)].state = "succeeded"]
      <4>1. "succeeded" \in States /\ At(current.id) \in DOMAIN items /\ items[At(current.id)].id = current.id
        BY <3>1, AtFound DEF States, Terminal
      <4>2. /\ items' \in Lists /\ Len(items') = Len(items) /\ DOMAIN items' = DOMAIN items
            /\ \A k \in DOMAIN items :
                 items'[k] = IF k = At(current.id) THEN [items[k] EXCEPT !.state = "succeeded"] ELSE items[k]
        BY <3>3, <4>1, TypeFacts, Replaced
      <4>3. \A k \in DOMAIN items :
              items'[k].id = items[k].id /\ items'[k].version = items[k].version
        BY <4>2, TypeFacts, ListFacts DEF Item
      <4>4. \A k \in DOMAIN items \ {At(current.id)} : Restored(items')[k] = Restored(items)[k]
        BY <4>2 DEF Restored
      <4>5. items'[At(current.id)].state = "succeeded" /\ items'[At(current.id)].id = current.id
        BY <4>1, <4>2, TypeFacts, ListFacts DEF Item
      <4>. QED  BY <3>1, <4>2, <4>3, <4>4, <4>5 DEF RestartLosesNothing
    <3>. QED  BY <2>3, <3>1, <3>2, <3>3 DEF Progress, With
  <2>. QED  BY <1>2, <2>1, <2>2, <2>3 DEF Work
<1>3. CASE Restart
  BY <1>3, SavedRestarts DEF Restart, May
<1>. QED  BY <1>1, <1>2, <1>3 DEF Next

-----------------------------------------------------------------------------

\* A saved outcome is that of the item in memory, unless there was a retry.
Outlives ==
  \A i \in DOMAIN store, j \in DOMAIN items :
    store[i].id = items[j].id /\ store[i].state \in Terminal =>
      \/ items[j].state = store[i].state
      \/ store[i].state # "succeeded" /\ retries > 0

\* OutcomeIsFinal, of one step.
FinalStep ==
  \A i \in DOMAIN store, j \in DOMAIN store' :
    store[i].id = store'[j].id /\ store[i].state \in Terminal =>
      \/ store'[j].state = store[i].state
      \/ store[i].state # "succeeded" /\ retries' > 0

\* The item in memory keeps the outcome the store has of it.
LEMMA OutcomeKept ==
  ASSUME TypeOK, CurrentInv, Outlives, "history" \notin Hazards, ByUser \/ ByTask,
         retries' \in Nat, retries <= retries',
         NEW i \in DOMAIN store, NEW j \in DOMAIN items',
         store[i].id = items'[j].id, store[i].state \in Terminal
  PROVE  items'[j].state = store[i].state \/ (store[i].state # "succeeded" /\ retries' > 0)
<1>1. PICK id, state :
        /\ Becomes(id, state)
        /\ \A m \in DOMAIN items : items[m].id = id =>
             \/ items[m].state \notin Terminal
             \/ items[m].state \in {"failed", "cancelled"} /\ retries' > 0
             \/ items[m].state = "succeeded" /\ state = "succeeded"
  BY TypeFacts DEF ByUser, ByTask, May, Terminal
<1>2. ~(items'[j].id > made)
  BY TypeFacts, ListFacts DEF CurrentInv, Numbered, Ids
<1>3. PICK m \in DOMAIN items :
        /\ items'[j].id = items[m].id
        /\ items'[j].state = IF items[m].id = id THEN state ELSE items[m].state
  BY <1>1, <1>2 DEF Becomes
<1>4. items[m].state = store[i].state \/ (store[i].state # "succeeded" /\ retries > 0)
  BY <1>3 DEF Outlives
<1>5. CASE store[i].state # "succeeded" /\ retries > 0
  BY <1>5, TypeFacts
<1>6. CASE items[m].state = store[i].state
  BY <1>1, <1>3, <1>6
<1>. QED  BY <1>4, <1>5, <1>6

\* So the next store does, whether it is written or not.
LEMMA FinalSaved ==
  ASSUME TypeOK, CurrentInv, CurrentInv', store' = store \/ store' = items',
         \A i \in DOMAIN store, j \in DOMAIN items' :
           store[i].id = items'[j].id /\ store[i].state \in Terminal =>
             items'[j].state = store[i].state \/ (store[i].state # "succeeded" /\ retries' > 0)
  PROVE  Outlives' /\ FinalStep
<1>1. CASE store' = store
  <2>1. Outlives'
    BY <1>1 DEF Outlives
  <2>2. FinalStep
    BY <1>1 DEF FinalStep, CurrentInv, Numbered
  <2>. QED  BY <2>1, <2>2
<1>2. CASE store' = items'
  <2>1. Outlives'
    BY <1>2 DEF Outlives, CurrentInv, Numbered
  <2>2. FinalStep
    BY <1>2 DEF FinalStep
  <2>. QED  BY <2>1, <2>2
<1>. QED  BY <1>1, <1>2

\* No step changes a saved outcome.
LEMMA FinalNext ==
  ASSUME TypeOK, TokenInv, CurrentInv, CurrentInv', Outlives, "history" \notin Hazards, Next
  PROVE  Outlives' /\ FinalStep
<1>1. CASE \E c \in Clients : Command(c) \/ Go(c)
  <2>1. ByUser
    BY <1>1, CommandItems
  <2>2. (store' = store \/ store' = items') /\ (retries' = retries \/ retries' = retries + 1)
    BY <1>1 DEF Command, Enqueue, Cancel, Retry, Remove, Move, CancelRunning, Commit, Go, List, Publish, Ensure, Return
  <2>. QED  BY <2>1, <2>2, TypeFacts, OutcomeKept, FinalSaved
<1>2. CASE \E w \in Workers : Work(w)
  <2>1. ByTask
    BY <1>2, WorkItems
  <2>2. (store' = store \/ store' = items') /\ retries' = retries
    BY <1>2 DEF Work, Begin, Nothing, Idle, Recheck, Claim, Send, Progress, Finish, Save
  <2>. QED  BY <2>1, <2>2, TypeFacts, OutcomeKept, FinalSaved
<1>3. CASE Restart
  <2>1. /\ DOMAIN items' = DOMAIN store
        /\ \A k \in DOMAIN store :
             items'[k] = [store[k] EXCEPT !.state = IF @ \in Terminal THEN @ ELSE "queued"]
    BY <1>3, TypeFacts, Mapped DEF Restart
  <2>2. \A k \in DOMAIN store : /\ items'[k].id = store[k].id
                                /\ store[k].state \in Terminal => items'[k].state = store[k].state
    BY <2>1, TypeFacts, ListFacts DEF Item
  <2>3. \A i, j \in DOMAIN store : store[i].id = store[j].id => i = j
    BY DEF CurrentInv, Numbered
  <2>4. store' = store \/ store' = items'
    BY <1>3 DEF Restart
  <2>. QED  BY <2>1, <2>2, <2>3, <2>4, FinalSaved
<1>. QED  BY <1>1, <1>2, <1>3 DEF Next

-----------------------------------------------------------------------------
(* The theorems.                                                           *)

\* Every step keeps what the queue relies on.
LEMMA QueueStep == QueueInv /\ [Next]_vars => QueueInv'
<1>. SUFFICES ASSUME QueueInv, [Next]_vars PROVE QueueInv'
  OBVIOUS
<1>. USE DEF QueueInv
<1>1. TokenInv'
  BY TokenStep
<1>2. CASE \E c \in Clients : Command(c) \/ Go(c)
  BY <1>1, <1>2, TypeCommand, TypeGo, CurrentCommand
<1>3. CASE \E w \in Workers : Work(w)
  BY <1>1, <1>3, TypeWork, CurrentWork
<1>4. CASE Restart
  BY <1>1, <1>4, TypeRestart, CurrentRestart
<1>5. CASE UNCHANGED vars
  <2>1. TypeOK'
    BY <1>5 DEF vars, TypeOK
  <2>2. CurrentInv'
    BY <1>5 DEF vars, CurrentInv, Numbered, Installing, Shown
  <2>. QED  BY <1>1, <2>1, <2>2
<1>. QED  BY <1>2, <1>3, <1>4, <1>5 DEF Next

\* So it always holds.
LEMMA QueueSafe == Spec => []QueueInv
<1>1. Init => QueueInv
  BY QueueInit, TokenInit DEF QueueInv
<1>. QED  BY <1>1, QueueStep, PTL DEF Spec

\* Items, store, snapshots, commands and tasks have their types, and no list exceeds
\* MAX_QUEUE_ITEMS, however commands, the worker and restarts interleave (queue.rs).
THEOREM QueueTypes == Spec => []TypeOK
<1>1. QueueInv => TypeOK
  BY DEF QueueInv
<1>. QED  BY <1>1, QueueSafe, PTL

\* One installation at a time (worker_loop, ensure_worker): Windows never runs
\* two installers.
THEOREM OneInstallation == Spec => []OneInstall
<1>1. QueueInv => OneInstall
  BY TokenSuffices DEF QueueInv
<1>. QED  BY <1>1, QueueSafe, PTL

\* What cancel_current stops is the installation in progress, and nothing else is shown
\* as being installed (begin_next, finish_current).
THEOREM CurrentIsRight == Spec => []CurrentIsInstalling
<1>1. QueueInv => CurrentIsInstalling
  BY DEF QueueInv, CurrentInv, CurrentIsInstalling, Shown
<1>. QED  BY <1>1, QueueSafe, PTL

\* Work is never stranded and a kill loses nothing that was accepted, as long as the queue
\* file can be written: a command that fails to save returns before it wakes the worker.
THEOREM NothingLost ==
  ASSUME "disk" \notin Hazards
  PROVE  Spec => []NothingGetsLost
<1>. DEFINE Inv == Alive /\ NothingGetsLost
<1>1. Init => Inv
  BY DEF Init, Alive, NoCall, NothingGetsLost, NoLostWakeup, Queued, Where, RestartLosesNothing
<1>2. ASSUME QueueInv, Inv, [Next]_vars PROVE Inv'
  <2>. USE DEF QueueInv, NothingGetsLost
  <2>1. CASE Next
    <3>1. RestartLosesNothing'
      BY <1>2, <2>1, RestartsStep
    <3>2. ASSUME NEW c \in Clients, Command(c) \/ Go(c) PROVE Alive' /\ NoLostWakeup'
      BY <1>2, <3>2, AliveCommand, AliveEnsure, WakeupCommand, WakeupGo DEF Go
    <3>3. ASSUME NEW w \in Workers, Work(w) PROVE Alive' /\ NoLostWakeup'
      BY <1>2, <3>3, AliveWork, WakeupWork
    <3>4. CASE Restart
      BY <1>2, <3>1, <3>4, AliveRestart, WakeupRestart
    <3>. QED  BY <2>1, <3>1, <3>2, <3>3, <3>4 DEF Next
  <2>2. CASE UNCHANGED vars
    BY <1>2, <2>2 DEF vars, Alive, Holds, NoLostWakeup, Queued, Where, RestartLosesNothing
  <2>. QED  BY <1>2, <2>1, <2>2
<1>3. Inv => NothingGetsLost
  OBVIOUS
<1>. HIDE DEF Inv
<1>. QED  BY <1>1, <1>2, <1>3, QueueSafe, PTL DEF Spec

\* A saved outcome never changes without a retry, and a success never does, with failing
\* saves and kills, as long as the operation history can be written (finish_current, restore).
THEOREM OutcomesAreFinal ==
  ASSUME "history" \notin Hazards
  PROVE  Spec => OutcomeIsFinal
<1>1. Init => Outlives
  BY DEF Init, Outlives
<1>2. ASSUME QueueInv, QueueInv', Outlives, [Next]_vars PROVE Outlives' /\ [FinalStep]_vars
  <2>1. CASE Next
    BY <1>2, <2>1, FinalNext DEF QueueInv
  <2>2. CASE UNCHANGED vars
    BY <1>2, <2>2 DEF vars, Outlives
  <2>. QED  BY <1>2, <2>1, <2>2
<1>3. Spec => [][FinalStep]_vars
  BY <1>1, <1>2, QueueSafe, PTL DEF Spec
<1>. QED  BY <1>3 DEF OutcomeIsFinal, FinalStep
=============================================================================
