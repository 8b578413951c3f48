------------------------- MODULE DisplayHost_proofs -------------------------
(***************************************************************************)
(* For any surfaces, contacts, sleeps and any size of the panel's channel: *)
(* no client keeps a contact nobody will lift, the lock picture is the only*)
(* one while the panel keeps it, and whoever is pressed is on the glass.   *)
(***************************************************************************)
EXTENDS DisplayHost, TLAPS

(***************************************************************************)
(* The inductive invariant                                                 *)
(***************************************************************************)
Targets == [key : Keys, fence : Nat]
Slots == Targets \cup {NoLease}
Kinds == {"register", "drop", "damage", "set", "activate", "clear", "ink", "pen", "full",
          "show", "refreshLock", "cancel"}
Orders == [op : Kinds, lease : Targets, arg : Nat, sequence : Nat]
Frames == [contact : Contacts \cup Strokes, phase : {"down", "up"}, current : BOOLEAN]

TypeOK ==
  /\ commands \in Seq(Orders) /\ surface \in [Keys -> Nat] /\ visible \in Slots
  /\ cancelled \in Nat /\ deferred \subseteq Targets
  /\ client \in [Keys -> {"none", "new", "on", "deaf"}] /\ lives \in Nat
  /\ {foreground, prepared, pen} \subseteq Slots
  /\ lock \in [epoch : Nat, lease : Slots] /\ lastSleep \in Nat
  /\ fences \in [Keys -> Nat]
  /\ active \subseteq Contacts /\ captured \in Seq(Frames)
  /\ held \in [Keys -> SUBSET (Contacts \cup Strokes)]

(* The stroke belongs to the foreground, a prepared successor finds nothing*)
(* pressed, and who is not yet registered was told nothing.                *)
InputInv ==
  /\ pen # NoLease => pen = foreground
  /\ prepared # NoLease => active = {} /\ pen = NoLease
  /\ \A k \in Keys : client[k] \in {"none", "new"} => held[k] = {}

(* What a committed lock may find behind it in the channel.                *)
Tame(c) == c.op \in {"pen", "refreshLock", "cancel", "register", "drop"}

(* A lease that was accepted is not above the fence of its key.            *)
Accepted(l) == l # NoLease => l.fence <= fences[l.key]
AcceptInv ==
  /\ Accepted(foreground) /\ Accepted(prepared)
  /\ \A l \in deferred : l.fence <= fences[l.key]

(* From its command to its cancellation a lock is the one the host holds.  *)
LeaseInv ==
  /\ lock # Unlocked =>
       /\ lock.epoch > 0 /\ foreground = lock.lease
       /\ lock.lease # NoLease /\ lock.lease \notin deferred
  /\ cancelled <= lastSleep /\ lock.epoch <= lastSleep
  /\ waiting.op = "cancel" => lock # Unlocked /\ waiting.arg = lock.epoch
QueuedInv ==
  \A i \in 1..Len(commands) : commands[i].op = "show" =>
    /\ lock # Unlocked /\ commands[i].arg = lock.epoch /\ commands[i].lease = lock.lease
    /\ cancelled # lock.epoch
    /\ \A j \in 1..Len(commands) : i < j => Tame(commands[j])
FrozenInv ==
  /\ frozen.epoch = 0 => frozen = NotFrozen
  /\ frozen.epoch # 0 =>
       /\ lock # Unlocked /\ frozen.epoch = lock.epoch /\ frozen.lease = lock.lease
       /\ visible = lock.lease /\ cancelled # lock.epoch
       /\ \A i \in 1..Len(commands) : Tame(commands[i])
       /\ glass = frozen.picture
LockInv == AcceptInv /\ LeaseInv /\ QueuedInv /\ FrozenInv

(* A surface is registered with the panel when it has none: one that is    *)
(* there is dropped first.  Without a lock the visible surface is connected*)
(* and on the glass.                                                       *)
Of(op, k, i) == commands[i].op = op /\ commands[i].lease.key = k
Free(n, k) ==
  \/ \E j \in 1..Len(commands) :
       /\ j < n /\ Of("drop", k, j)
       /\ \A i \in 1..Len(commands) : j < i /\ i < n => ~Of("register", k, i)
  \/ surface[k] = 0 /\ \A i \in 1..Len(commands) : i < n => ~Of("register", k, i)
RegisterInv ==
  /\ \A k \in Keys, i \in 1..Len(commands) : Of("register", k, i) => Free(i, k)
  /\ \A k \in Keys : alive /\ client[k] = "none" => Free(Len(commands) + 1, k)
GlassInv ==
  /\ committed = visible
  /\ visible # NoLease /\ frozen.epoch = 0 =>
       surface[visible.key] # 0 /\ glass.key = visible.key /\ glass.life = surface[visible.key]

IInv == TypeOK /\ InputInv /\ ContactsBalanced /\ LockInv /\ RegisterInv /\ GlassInv

-----------------------------------------------------------------------------
(***************************************************************************)
(* Leases, commands and the channel                                        *)
(***************************************************************************)
(* A lease is told from the absent one by its key.                         *)
LEMMA SlotsAre ==
  /\ NoLease \in Slots /\ NoLease.key \notin Keys
  /\ \A l \in Slots : l # NoLease => l \in Targets /\ l.key \in Keys
  /\ \A k \in Keys, f \in Nat : Lease(k, f) \in Targets /\ Lease(k, f) \in Slots
                                /\ Lease(k, f) # NoLease /\ Lease(k, f).key = k
                                /\ Lease(k, f).fence = f
BY NoKeyAssumption DEF NoLease, Lease, Slots, Targets

(* The commands of some kinds.                                             *)
Made(kinds) == {c \in Orders : c.op \in kinds}
LEMMA CommandIs ==
  ASSUME NEW op \in Kinds, NEW l \in Targets, NEW a \in Nat, NEW n \in Nat
  PROVE  /\ Command(op, l, a, n) \in Made({op}) /\ Command(op, l, a, n) \in Orders
         /\ Command(op, l, a, n).op = op /\ Command(op, l, a, n).lease = l
         /\ Command(op, l, a, n).arg = a
BY DEF Command, Made, Orders

(* The channel r is q and commands of S behind it.                         *)
Grows(q, r, S) ==
  /\ r \in Seq(Orders) /\ Len(q) <= Len(r)
  /\ \A i \in 1..Len(q) : r[i] = q[i]
  /\ \A i \in 1..Len(r) : i > Len(q) => r[i] \in S

LEMMA Appends ==
  ASSUME NEW q \in Seq(Orders), NEW c \in Orders, NEW S, c \in S
  PROVE  Grows(q, q, S) /\ Grows(q, Append(q, c), S)
<1>1. Grows(q, q, S)
  BY DEF Grows
<1>2. Append(q, c) \in Seq(Orders) /\ Len(Append(q, c)) = Len(q) + 1 /\ Len(q) \in Nat
  OBVIOUS
<1>3. \A i \in 1..Len(q) + 1 : Append(q, c)[i] = IF i <= Len(q) THEN q[i] ELSE c
  OBVIOUS
<1> QED BY <1>1, <1>2, <1>3 DEF Grows

LEMMA GrowsOn ==
  ASSUME NEW q \in Seq(Orders), NEW r, NEW t, NEW S, NEW T, Grows(q, r, S), Grows(r, t, T)
  PROVE  Grows(q, t, S \cup T)
<1>1. Len(q) \in Nat /\ Len(r) \in Nat /\ Len(t) \in Nat
  BY DEF Grows
<1>2. ASSUME NEW i \in 1..Len(t), i > Len(q) PROVE t[i] \in S \cup T
  <2>1. CASE i <= Len(r)
    <3>1. i \in 1..Len(r) /\ t[i] = r[i] /\ r[i] \in S
      BY <1>1, <1>2, <2>1 DEF Grows
    <3> QED BY <3>1
  <2>2. CASE i > Len(r)
    BY <1>2, <2>2 DEF Grows
  <2> QED BY <1>1, <2>1, <2>2
<1>3. \A i \in 1..Len(q) : t[i] = q[i]
  BY <1>1 DEF Grows
<1>4. t \in Seq(Orders) /\ Len(q) <= Len(t)
  BY <1>1 DEF Grows
<1> QED BY <1>2, <1>3, <1>4 DEF Grows

LEMMA GrowsMore ==
  ASSUME NEW q, NEW r, NEW S, NEW T, Grows(q, r, S), S \subseteq T
  PROVE  Grows(q, r, T)
BY DEF Grows

(* A command of the pen is left out when the channel is full.              *)
Pens == Made({"pen"})
LEMMA OfferGrows ==
  ASSUME NEW q \in Seq(Orders), NEW l \in Targets, NEW a \in Nat
  PROVE  Grows(q, Offer(q, Command("pen", l, a, 0)), Pens)
<1> DEFINE c == Command("pen", l, a, 0)
<1>1. c \in Orders /\ c \in Pens
  <2>1. Command("pen", l, a, 0) \in Made({"pen"}) /\ Command("pen", l, a, 0) \in Orders
    <3>1. "pen" \in Kinds /\ 0 \in Nat
      BY DEF Kinds
    <3> QED BY <3>1, CommandIs
  <2> QED BY <2>1 DEF Pens
<1> HIDE DEF c
<1>2. Grows(q, q, Pens) /\ Grows(q, Append(q, c), Pens)
  BY <1>1, Appends
<1>3. Offer(q, c) = q \/ Offer(q, c) = Append(q, c)
  BY DEF Offer
<1> QED BY <1>2, <1>3 DEF c

LEMMA CancelGrows ==
  ASSUME TypeOK, NEW q \in Seq(Orders)
  PROVE  Grows(q, CancelStroke(q), Pens)
<1>1. CASE pen = NoLease
  BY <1>1 DEF CancelStroke, Grows
<1>2. CASE pen # NoLease
  <2>1. pen \in Targets
    BY <1>2, SlotsAre DEF TypeOK
  <2> QED BY <1>2, <2>1, OfferGrows DEF CancelStroke
<1> QED BY <1>1, <1>2

(* A command, and behind it the cancelled stroke.                          *)
LEMMA FencedGrows ==
  ASSUME TypeOK, NEW op \in Kinds, NEW c \in Made({op})
  PROVE  Grows(commands, CancelStroke(Append(commands, c)), Made({op, "pen"}))
<1>1. commands \in Seq(Orders) /\ c \in Orders
  BY DEF TypeOK, Made
<1>2. Grows(commands, Append(commands, c), Made({op})) /\ Append(commands, c) \in Seq(Orders)
  BY <1>1, Appends
<1>3. Grows(Append(commands, c), CancelStroke(Append(commands, c)), Pens)
  BY <1>2, CancelGrows
<1>4. Made({op}) \cup Pens \subseteq Made({op, "pen"})
  BY DEF Made, Pens
<1> HIDE DEF Made, Pens
<1>5. Grows(commands, CancelStroke(Append(commands, c)), Made({op}) \cup Pens)
  BY <1>1, <1>2, <1>3, GrowsOn
<1> QED BY <1>4, <1>5, GrowsMore

-----------------------------------------------------------------------------
(***************************************************************************)
(* What keeps each part of the invariant                                   *)
(***************************************************************************)
(* Commands that go to the panel behind those that are there: any while    *)
(* there is no lock, tame ones in any case.                                *)
LEMMA QueueGrows ==
  ASSUME TypeOK, QueuedInv, FrozenInv, NEW S,
         Grows(commands, commands', S),
         \A c \in S : Tame(c) \/ (lock = Unlocked /\ c.op # "show"),
         UNCHANGED <<lock, cancelled, frozen, visible, glass>>
  PROVE  QueuedInv' /\ FrozenInv'
<1>1. /\ Len(commands) \in Nat /\ Len(commands') \in Nat /\ Len(commands) <= Len(commands')
      /\ \A i \in 1..Len(commands) : commands'[i] = commands[i]
      /\ \A i \in 1..Len(commands') :
           i > Len(commands) => Tame(commands'[i]) \/ (lock = Unlocked /\ commands'[i].op # "show")
  BY DEF Grows, TypeOK
<1>2. ASSUME NEW i \in 1..Len(commands'), commands'[i].op = "show"
      PROVE  /\ lock # Unlocked /\ commands'[i].arg = lock.epoch /\ commands'[i].lease = lock.lease
             /\ cancelled # lock.epoch
             /\ \A j \in 1..Len(commands') : i < j => Tame(commands'[j])
  <2>1. i \in 1..Len(commands) /\ commands'[i] = commands[i]
    BY <1>1, <1>2 DEF Tame
  <2>2. /\ lock # Unlocked /\ commands[i].arg = lock.epoch /\ commands[i].lease = lock.lease
        /\ cancelled # lock.epoch
        /\ \A j \in 1..Len(commands) : i < j => Tame(commands[j])
    BY <1>2, <2>1 DEF QueuedInv
  <2>3. ASSUME NEW j \in 1..Len(commands'), i < j PROVE Tame(commands'[j])
    <3>1. CASE j \in 1..Len(commands)
      BY <1>1, <2>2, <2>3, <3>1
    <3>2. CASE j > Len(commands)
      BY <1>1, <2>2, <3>2
    <3> QED BY <1>1, <3>1, <3>2
  <2> QED BY <2>1, <2>2, <2>3
<1>3. QueuedInv'
  BY <1>2 DEF QueuedInv
<1>4. ASSUME frozen.epoch # 0, NEW i \in 1..Len(commands') PROVE Tame(commands'[i])
  <2>1. CASE i \in 1..Len(commands)
    BY <1>1, <1>4, <2>1 DEF FrozenInv
  <2>2. CASE i > Len(commands)
    BY <1>1, <1>4, <2>2 DEF FrozenInv
  <2> QED BY <1>1, <2>1, <2>2
<1> QED BY <1>3, <1>4 DEF FrozenInv

(* The panel takes the first command.                                      *)
Taken == commands # <<>> /\ commands' = Tail(commands)
LEMMA Shifts ==
  ASSUME TypeOK, Taken
  PROVE  /\ commands' \in Seq(Orders) /\ Len(commands) \in Nat /\ Len(commands') \in Nat
         /\ Len(commands) = Len(commands') + 1
         /\ Head(commands) = commands[1] /\ commands[1] \in Orders
         /\ \A i \in 1..Len(commands') : commands'[i] = commands[i + 1]
                                         /\ i + 1 \in 1..Len(commands)
<1>1. commands \in Seq(Orders) /\ commands # <<>> /\ commands' = Tail(commands)
  BY DEF TypeOK, Taken
<1>2. /\ commands' \in Seq(Orders) /\ Len(commands) \in Nat /\ Len(commands') \in Nat
      /\ Len(commands) = Len(commands') + 1
  BY <1>1
<1>3. Head(commands) = commands[1] /\ commands[1] \in Orders
  BY <1>1
<1>4. \A i \in 1..Len(commands') : commands'[i] = commands[i + 1]
  BY <1>1, <1>2
<1> QED BY <1>2, <1>3, <1>4

LEMMA QueueShifts ==
  ASSUME TypeOK, QueuedInv, Taken, UNCHANGED <<lock, cancelled>>
  PROVE  QueuedInv'
<1>1. ASSUME NEW i \in 1..Len(commands'), commands'[i].op = "show"
      PROVE  /\ lock # Unlocked /\ commands'[i].arg = lock.epoch /\ commands'[i].lease = lock.lease
             /\ cancelled # lock.epoch
             /\ \A j \in 1..Len(commands') : i < j => Tame(commands'[j])
  <2>1. commands'[i] = commands[i + 1] /\ i + 1 \in 1..Len(commands)
    BY Shifts
  <2>2. /\ lock # Unlocked /\ commands[i + 1].arg = lock.epoch
        /\ commands[i + 1].lease = lock.lease /\ cancelled # lock.epoch
        /\ \A j \in 1..Len(commands) : i + 1 < j => Tame(commands[j])
    BY <1>1, <2>1 DEF QueuedInv
  <2>3. ASSUME NEW j \in 1..Len(commands'), i < j PROVE Tame(commands'[j])
    <3>1. commands'[j] = commands[j + 1] /\ j + 1 \in 1..Len(commands) /\ i + 1 < j + 1
      BY <2>3, Shifts
    <3> QED BY <2>2, <3>1
  <2> QED BY <2>1, <2>2, <2>3
<1> QED BY <1>1 DEF QueuedInv

(* And what is left is tame behind a tame beginning.                       *)
LEMMA TameShifts ==
  ASSUME TypeOK, Taken, NEW n \in {1, 2},
         \A i \in 1..Len(commands) : i >= n => Tame(commands[i])
  PROVE  \A i \in 1..Len(commands') : Tame(commands'[i])
<1> TAKE i \in 1..Len(commands')
<1>1. commands'[i] = commands[i + 1] /\ i + 1 \in 1..Len(commands) /\ i + 1 >= n
  BY Shifts
<1> QED BY <1>1

(* A place in the channel stays free for a registration.                   *)
LEMMA FreeGrows ==
  ASSUME commands \in Seq(Orders), NEW S, Grows(commands, commands', S), UNCHANGED surface,
         NEW k \in Keys, NEW n \in 1..Len(commands) + 1, NEW m \in 1..Len(commands') + 1,
         Free(n, k), m = n \/ (n = Len(commands) + 1 /\ m >= n),
         \A i \in 1..Len(commands') :
           i > Len(commands) /\ i < m => ~(Of("register", k, i)')
  PROVE  Free(m, k)'
<1>1. /\ Len(commands) \in Nat /\ Len(commands') \in Nat /\ Len(commands) <= Len(commands')
      /\ \A i \in 1..Len(commands) : commands'[i] = commands[i]
  BY DEF Grows
<1>2. \A i \in 1..Len(commands') : i < m /\ Of("register", k, i)' =>
        i \in 1..Len(commands) /\ Of("register", k, i)
  BY <1>1 DEF Of
<1>3. CASE \E j \in 1..Len(commands) :
             /\ j < n /\ Of("drop", k, j)
             /\ \A i \in 1..Len(commands) : j < i /\ i < n => ~Of("register", k, i)
  <2>1. PICK j \in 1..Len(commands) :
             /\ j < n /\ Of("drop", k, j)
             /\ \A i \in 1..Len(commands) : j < i /\ i < n => ~Of("register", k, i)
    BY <1>3
  <2>2. j \in 1..Len(commands') /\ j < m /\ Of("drop", k, j)'
    BY <1>1, <2>1 DEF Of
  <2>3. \A i \in 1..Len(commands') : j < i /\ i < m => ~(Of("register", k, i)')
    BY <1>1, <1>2, <2>1
  <2> QED BY <2>2, <2>3 DEF Free
<1>4. CASE surface[k] = 0 /\ \A i \in 1..Len(commands) : i < n => ~Of("register", k, i)
  <2>1. \A i \in 1..Len(commands') : i < m => ~(Of("register", k, i)')
    BY <1>1, <1>2, <1>4
  <2> QED BY <1>4, <2>1 DEF Free
<1> QED BY <1>3, <1>4 DEF Free

(* Commands that register nothing: a client keeps its registration, or its *)
(* surface is dropped, or the host is failing.                             *)
LEMMA RegisterGrows ==
  ASSUME TypeOK, RegisterInv, NEW S, Grows(commands, commands', S),
         \A c \in S : c.op # "register", UNCHANGED surface, alive' => alive,
         \A k \in Keys : client'[k] = "none" =>
           \/ client[k] = "none" \/ ~alive'
           \/ \E j \in 1..Len(commands') : j > Len(commands) /\ Of("drop", k, j)'
  PROVE  RegisterInv'
<1>1. /\ Len(commands) \in Nat /\ Len(commands') \in Nat /\ Len(commands) <= Len(commands')
      /\ \A i \in 1..Len(commands) : commands'[i] = commands[i]
      /\ \A i \in 1..Len(commands') : i > Len(commands) => commands'[i].op # "register"
      /\ commands \in Seq(Orders)
  <2>1. commands \in Seq(Orders) /\ Len(commands) \in Nat
    BY DEF TypeOK
  <2>2. /\ commands' \in Seq(Orders) /\ Len(commands) <= Len(commands')
        /\ \A i \in 1..Len(commands) : commands'[i] = commands[i]
        /\ \A i \in 1..Len(commands') : i > Len(commands) => commands'[i] \in S
    BY DEF Grows
  <2>3. \A i \in 1..Len(commands') : i > Len(commands) => commands'[i].op # "register"
    BY <2>2
  <2>4. Len(commands') \in Nat
    BY <2>2
  <2> QED BY <2>1, <2>2, <2>3, <2>4
<1>2. \A k \in Keys, i \in 1..Len(commands') : i > Len(commands) => ~(Of("register", k, i)')
  BY <1>1 DEF Of
<1>3. ASSUME NEW k \in Keys, NEW i \in 1..Len(commands'), Of("register", k, i)'
      PROVE  Free(i, k)'
  <2>1. i \in 1..Len(commands) /\ Of("register", k, i)
    BY <1>1, <1>2, <1>3 DEF Of
  <2>2. Free(i, k) /\ i \in 1..Len(commands) + 1 /\ i \in 1..Len(commands') + 1
    BY <1>1, <2>1 DEF RegisterInv
  <2> QED BY <1>1, <1>2, <2>2, FreeGrows
<1>4. ASSUME NEW k \in Keys, alive', client'[k] = "none"
      PROVE  Free(Len(commands) + 1, k)'
  <2>1. PICK m \in 1..Len(commands') + 1 : m = Len(commands') + 1
    BY <1>1
  <2>2. CASE client[k] = "none"
    <3>1. PICK n \in 1..Len(commands) + 1 : n = Len(commands) + 1
      BY <1>1
    <3>2. Free(n, k) /\ m >= n
      BY <1>1, <1>4, <2>1, <2>2, <3>1 DEF RegisterInv
    <3>3. Free(m, k)'
      BY <1>1, <1>2, <3>1, <3>2, FreeGrows
    <3> QED BY <2>1, <3>3 DEF Free, Of
  <2>3. CASE client[k] # "none"
    <3>1. PICK j \in 1..Len(commands') : j > Len(commands) /\ Of("drop", k, j)'
      BY <1>4, <2>3
    <3>2. \A i \in 1..Len(commands') : j < i => ~(Of("register", k, i)')
      BY <1>1, <1>2, <3>1
    <3>3. j < m
      BY <1>1, <2>1
    <3> QED BY <2>1, <3>1, <3>2, <3>3 DEF Free, Of
  <2> QED BY <2>2, <2>3
<1> QED BY <1>3, <1>4 DEF RegisterInv

(* A registration comes behind the drop of the one before it.              *)
LEMMA RegisterFirst ==
  ASSUME TypeOK, RegisterInv, alive, NEW q \in Keys, client[q] = "none",
         NEW c \in Orders, c.op = "register", c.lease.key = q,
         commands' = Append(commands, c), client' = [client EXCEPT ![q] = "new"],
         UNCHANGED surface
  PROVE  RegisterInv'
<1>1. commands \in Seq(Orders) /\ Grows(commands, commands', {c})
  BY Appends DEF TypeOK
<1>2. /\ Len(commands) \in Nat /\ Len(commands') = Len(commands) + 1
      /\ commands'[Len(commands) + 1] = c
      /\ \A i \in 1..Len(commands) : commands'[i] = commands[i]
  BY <1>1 DEF Grows
<1>3. ASSUME NEW k \in Keys, NEW i \in 1..Len(commands'), Of("register", k, i)'
      PROVE  Free(i, k)'
  <2>1. Free(i, k)
    <3>1. CASE i \in 1..Len(commands)
      BY <1>2, <1>3, <3>1 DEF RegisterInv, Of
    <3>2. CASE i = Len(commands) + 1
      <4>1. k = q
        BY <1>2, <1>3, <3>2 DEF Of
      <4> QED BY <3>2, <4>1 DEF RegisterInv
    <3> QED BY <1>2, <3>1, <3>2
  <2>2. i \in 1..Len(commands) + 1 /\ i \in 1..Len(commands') + 1
    BY <1>2
  <2>3. \A h \in 1..Len(commands') : ~(h > Len(commands) /\ h < i)
    BY <1>2
  <2> QED BY <1>1, <2>1, <2>2, <2>3, FreeGrows
<1>4. ASSUME NEW k \in Keys, alive', client'[k] = "none"
      PROVE  Free(Len(commands) + 1, k)'
  <2>1. k # q /\ client[k] = "none"
    BY <1>4 DEF TypeOK
  <2>2. PICK n \in 1..Len(commands) + 1 : n = Len(commands) + 1
    BY <1>2
  <2>3. PICK m \in 1..Len(commands') + 1 : m = Len(commands') + 1
    BY <1>2
  <2>4. Free(n, k)
    BY <2>1, <2>2 DEF RegisterInv
  <2>5. \A h \in 1..Len(commands') : h > Len(commands) => ~(Of("register", k, h)')
    BY <1>2, <2>1 DEF Of
  <2>6. Free(m, k)'
    BY <1>1, <1>2, <2>2, <2>3, <2>4, <2>5, FreeGrows
  <2> QED BY <2>3, <2>6 DEF Free, Of
<1> QED BY <1>3, <1>4 DEF RegisterInv

(* The panel takes a command and registers or drops what it says.          *)
LEMMA FreeShifts ==
  ASSUME TypeOK, Taken, NEW k \in Keys, NEW n \in 1..Len(commands') + 1, Free(n + 1, k),
         Of("drop", k, 1) => surface'[k] = 0,
         ~Of("drop", k, 1) /\ ~Of("register", k, 1) => surface'[k] = surface[k]
  PROVE  Free(n, k)'
<1>1. /\ Len(commands) \in Nat /\ Len(commands') \in Nat /\ Len(commands) = Len(commands') + 1
      /\ \A i \in 1..Len(commands') : commands'[i] = commands[i + 1]
                                      /\ i + 1 \in 1..Len(commands)
  BY Shifts
<1>2. \A i \in 1..Len(commands'), op \in {"register", "drop"} :
        Of(op, k, i)' <=> Of(op, k, i + 1)
  BY <1>1 DEF Of
<1>3. CASE \E j \in 1..Len(commands) :
             /\ j < n + 1 /\ Of("drop", k, j)
             /\ \A i \in 1..Len(commands) : j < i /\ i < n + 1 => ~Of("register", k, i)
  <2>1. PICK j \in 1..Len(commands) :
             /\ j < n + 1 /\ Of("drop", k, j)
             /\ \A i \in 1..Len(commands) : j < i /\ i < n + 1 => ~Of("register", k, i)
    BY <1>3
  <2>2. CASE j = 1
    <3>1. \A i \in 1..Len(commands') : i < n => ~(Of("register", k, i)')
      BY <1>1, <1>2, <2>1, <2>2
    <3> QED BY <2>1, <2>2, <3>1 DEF Free
  <2>3. CASE j # 1
    <3>1. PICK h \in 1..Len(commands') : j = h + 1
      <4>1. j - 1 \in 1..Len(commands') /\ j = (j - 1) + 1
        BY <1>1, <2>3
      <4> QED BY <4>1
    <3>2. h < n /\ Of("drop", k, h)'
      BY <1>1, <1>2, <2>1, <3>1
    <3>3. \A i \in 1..Len(commands') : h < i /\ i < n => ~(Of("register", k, i)')
      BY <1>1, <1>2, <2>1, <3>1
    <3> QED BY <3>2, <3>3 DEF Free
  <2> QED BY <2>2, <2>3
<1>4. CASE surface[k] = 0 /\ \A i \in 1..Len(commands) : i < n + 1 => ~Of("register", k, i)
  <2>1. \A i \in 1..Len(commands') : i < n => ~(Of("register", k, i)')
    BY <1>1, <1>2, <1>4
  <2>2. ~Of("register", k, 1)
    BY <1>1, <1>4
  <2> QED BY <1>4, <2>1, <2>2 DEF Free
<1> QED BY <1>3, <1>4 DEF Free

LEMMA RegisterShifts ==
  ASSUME TypeOK, RegisterInv, Taken, UNCHANGED <<client, alive>>,
         \A k \in Keys : /\ Of("drop", k, 1) => surface'[k] = 0
                         /\ ~Of("drop", k, 1) /\ ~Of("register", k, 1) => surface'[k] = surface[k]
  PROVE  RegisterInv'
<1>1. /\ Len(commands) \in Nat /\ Len(commands') \in Nat /\ Len(commands) = Len(commands') + 1
      /\ \A i \in 1..Len(commands') : commands'[i] = commands[i + 1]
                                      /\ i + 1 \in 1..Len(commands)
  BY Shifts
<1>2. ASSUME NEW k \in Keys, NEW i \in 1..Len(commands'), Of("register", k, i)'
      PROVE  Free(i, k)'
  <2>1. Of("register", k, i + 1) /\ i + 1 \in 1..Len(commands)
    BY <1>1, <1>2 DEF Of
  <2>2. Free(i + 1, k) /\ i \in 1..Len(commands') + 1
    BY <1>1, <2>1 DEF RegisterInv
  <2> QED BY <2>2, FreeShifts
<1>3. ASSUME NEW k \in Keys, alive', client'[k] = "none"
      PROVE  Free(Len(commands) + 1, k)'
  <2>1. PICK m \in 1..Len(commands') + 1 : m = Len(commands') + 1
    BY <1>1
  <2>2. Free(m + 1, k)
    <3>1. Free(Len(commands) + 1, k)
      BY <1>3 DEF RegisterInv
    <3>2. m + 1 = Len(commands) + 1
      BY <1>1, <2>1
    <3> QED BY <3>1, <3>2
  <2>3. Free(m, k)'
    BY <2>2, FreeShifts
  <2> QED BY <2>1, <2>3 DEF Free, Of
<1> QED BY <1>2, <1>3 DEF RegisterInv

-----------------------------------------------------------------------------
(***************************************************************************)
(* The panel thread                                                        *)
(***************************************************************************)
(* What the panel's steps leave alone.                                     *)
Aside == UNCHANGED <<client, lives, foreground, prepared, pen, lock, lastSleep, fences, active,
                     captured, held, waiting>>

(* The panel only forgets damage, and cancels no lock of the future.       *)
LEMMA HostRests ==
  ASSUME IInv, Aside, deferred' \subseteq deferred, cancelled' <= lastSleep
  PROVE  InputInv' /\ ContactsBalanced' /\ AcceptInv' /\ LeaseInv'
<1>1. UNCHANGED <<client, foreground, prepared, pen, lock, lastSleep, fences, active, held,
                  waiting>>
  BY DEF Aside
<1>2. InputInv /\ ContactsBalanced /\ AcceptInv /\ LeaseInv
  BY DEF IInv, LockInv
<1>3. InputInv'
  BY <1>1, <1>2 DEF InputInv
<1>4. ContactsBalanced'
  BY <1>1, <1>2 DEF ContactsBalanced, Lifted
<1>5. AcceptInv'
  BY <1>1, <1>2 DEF AcceptInv, Accepted
<1>6. LeaseInv'
  BY <1>1, <1>2 DEF LeaseInv
<1> QED BY <1>3, <1>4, <1>5, <1>6

LEMMA TypesRest ==
  ASSUME TypeOK, Aside, deferred' \subseteq deferred, commands' \in Seq(Orders),
         surface' \in [Keys -> Nat], visible' \in Slots, cancelled' \in Nat
  PROVE  TypeOK'
BY DEF TypeOK, Aside

(* While the lock is committed the panel keeps it on the glass.            *)
LEMMA FrozenShifts ==
  ASSUME TypeOK, QueuedInv, FrozenInv, Taken, UNCHANGED <<lock, cancelled, frozen>>,
         frozen.epoch # 0 => visible' = visible /\ glass' = frozen.picture
  PROVE  QueuedInv' /\ FrozenInv'
<1>1. QueuedInv'
  BY QueueShifts
<1>2. CASE frozen.epoch = 0
  BY <1>1, <1>2 DEF FrozenInv
<1>3. CASE frozen.epoch # 0
  <2>1. \A i \in 1..Len(commands) : i >= 1 => Tame(commands[i])
    BY <1>3 DEF FrozenInv
  <2>2. \A i \in 1..Len(commands') : Tame(commands'[i])
    BY <2>1, TameShifts
  <2> QED BY <1>1, <1>3, <2>2 DEF FrozenInv
<1> QED BY <1>1, <1>2, <1>3

(* A command that is not tame finds no lock committed.                     *)
LEMMA WildIsFree ==
  ASSUME TypeOK, FrozenInv, Taken, ~Tame(Head(commands))
  PROVE  frozen.epoch = 0
<1>1. Head(commands) = commands[1] /\ 1 \in 1..Len(commands)
  BY Shifts
<1> QED BY <1>1 DEF FrozenInv

(* The panel takes a command that touches neither a surface nor the lock.  *)
LEMMA PanelTakes ==
  ASSUME IInv, Taken, Aside, UNCHANGED <<surface, cancelled, frozen, alive>>,
         Head(commands).op \notin {"register", "drop"},
         visible' \in Slots, deferred' \subseteq deferred,
         frozen.epoch # 0 => visible' = visible /\ glass' = frozen.picture,
         GlassInv'
  PROVE  IInv'
<1>1. TypeOK /\ QueuedInv /\ FrozenInv /\ RegisterInv /\ LeaseInv
  BY DEF IInv, LockInv
<1>2. TypeOK'
  <2>1. commands' \in Seq(Orders)
    BY <1>1, Shifts
  <2>2. surface' \in [Keys -> Nat] /\ cancelled' \in Nat
    BY <1>1 DEF TypeOK
  <2> QED BY <1>1, <2>1, <2>2, TypesRest
<1>3. InputInv' /\ ContactsBalanced' /\ AcceptInv' /\ LeaseInv'
  <2>1. cancelled' <= lastSleep
    BY <1>1 DEF LeaseInv
  <2> QED BY <2>1, HostRests
<1>4. QueuedInv' /\ FrozenInv'
  BY <1>1, FrozenShifts DEF Aside
<1>5. RegisterInv'
  <2>1. \A k \in Keys : ~Of("drop", k, 1)
    BY <1>1, Shifts DEF Of
  <2> QED BY <1>1, <2>1, RegisterShifts DEF Aside
<1> QED BY <1>2, <1>3, <1>4, <1>5 DEF IInv, LockInv

LEMMA AskedIs ==
  ASSUME TypeOK, Taken
  PROVE  /\ Head(commands) \in Orders /\ Asked \in Targets /\ Asked \in Slots
         /\ Asked.key \in Keys /\ Asked # NoLease /\ Head(commands).arg \in Nat
<1>1. Head(commands) \in Orders
  BY Shifts
<1>2. Asked \in Targets /\ Head(commands).arg \in Nat
  BY <1>1 DEF Asked, Orders
<1> QED BY <1>1, <1>2, NoKeyAssumption DEF Targets, Slots, NoLease, Lease

LEMMA IgnoreKeeps ==
  ASSUME IInv, Aside, UNCHANGED alive, NEW op \in Kinds \ {"register", "drop"}, Ignore(op)
  PROVE  IInv'
<1>1. Taken /\ Head(commands).op = op
  BY DEF Ignore, Take, Taken
<1>2. UNCHANGED <<surface, visible, frozen, glass, committed, cancelled, deferred>>
  BY DEF Ignore, telemetry
<1>3. visible \in Slots /\ GlassInv /\ FrozenInv
  BY DEF IInv, LockInv, TypeOK
<1>4. GlassInv'
  BY <1>2, <1>3 DEF GlassInv
<1>5. frozen.epoch # 0 => visible' = visible /\ glass' = frozen.picture
  BY <1>2, <1>3 DEF FrozenInv
<1> QED BY <1>1, <1>2, <1>3, <1>4, <1>5, PanelTakes

(* What the panel shows of the visible surface.                            *)
LEMMA Shown ==
  ASSUME NEW k, Connected(k), Present(k)
  PROVE  surface[k] # 0 /\ glass'.key = k /\ glass'.life = surface[k]
BY DEF Connected, Present, Picture

LEMMA DamageKeeps ==
  ASSUME IInv, Aside, UNCHANGED alive, Damage
  PROVE  IInv'
<1>1. Taken /\ Head(commands).op = "damage" /\ Redraw(Asked)
  BY DEF Damage, Take, Taken
<1>2. UNCHANGED <<surface, visible, frozen, committed, cancelled, deferred>>
  BY DEF Damage, telemetry
<1>3. TypeOK /\ GlassInv /\ FrozenInv
  BY DEF IInv, LockInv
<1>4. frozen.epoch = 0
  BY <1>1, <1>3, WildIsFree DEF Tame
<1>5. GlassInv'
  <2>1. CASE visible = Asked /\ Connected(Asked.key) /\ Present(Asked.key)
    BY <1>2, <1>3, <2>1, Shown DEF GlassInv
  <2>2. CASE UNCHANGED glass
    BY <1>2, <1>3, <2>2 DEF GlassInv
  <2> QED BY <1>1, <2>1, <2>2 DEF Redraw
<1> QED BY <1>1, <1>2, <1>3, <1>4, <1>5, PanelTakes DEF TypeOK

(* A lease is committed with the picture of its surface.                   *)
LEMMA CommitKeeps ==
  ASSUME IInv, Aside, UNCHANGED alive, NEW op \in {"set", "activate"},
         Take(op), Connected(Asked.key), Commit(Asked), Present(Asked.key),
         UNCHANGED <<surface, frozen, cancelled>>
  PROVE  IInv'
<1>1. Taken /\ Head(commands).op = op
  BY DEF Take, Taken
<1>2. TypeOK /\ GlassInv /\ FrozenInv
  BY DEF IInv, LockInv
<1>3. frozen.epoch = 0
  BY <1>1, <1>2, WildIsFree DEF Tame
<1>4. visible' = Asked /\ committed' = Asked /\ deferred' \subseteq deferred
  BY DEF Commit
<1>5. GlassInv'
  BY <1>4, Shown DEF GlassInv
<1>6. visible' \in Slots
  BY <1>1, <1>2, <1>4, AskedIs
<1> QED BY <1>1, <1>3, <1>4, <1>5, <1>6, PanelTakes

LEMMA SetForegroundKeeps ==
  ASSUME IInv, Aside, UNCHANGED alive, SetForeground
  PROVE  IInv'
<1>1. CASE ~Connected(Asked.key) /\ Ignore("set")
  BY <1>1, IgnoreKeeps DEF Kinds
<1>2. CASE ~(~Connected(Asked.key) /\ Ignore("set"))
  <2>1. /\ Take("set") /\ Connected(Asked.key) /\ Commit(Asked) /\ Present(Asked.key)
        /\ UNCHANGED <<surface, frozen, cancelled>>
    BY <1>2 DEF SetForeground
  <2> QED BY <2>1, CommitKeeps
<1> QED BY <1>1, <1>2

LEMMA ActivateForegroundKeeps ==
  ASSUME IInv, Aside, UNCHANGED alive, ActivateForeground
  PROVE  IInv'
<1>1. CASE ~Connected(Asked.key) /\ Ignore("activate")
  BY <1>1, IgnoreKeeps DEF Kinds
<1>2. CASE ~(~Connected(Asked.key) /\ Ignore("activate"))
  <2>1. /\ Take("activate") /\ Connected(Asked.key) /\ Commit(Asked) /\ Present(Asked.key)
        /\ UNCHANGED <<surface, frozen, cancelled>>
    BY <1>2 DEF ActivateForeground
  <2> QED BY <2>1, CommitKeeps
<1> QED BY <1>1, <1>2

LEMMA ClearForegroundKeeps ==
  ASSUME IInv, Aside, UNCHANGED alive, ClearForeground
  PROVE  IInv'
<1>1. CASE visible # Asked /\ Ignore("clear")
  BY <1>1, IgnoreKeeps DEF Kinds
<1>2. CASE ~(visible # Asked /\ Ignore("clear"))
  <2>1. /\ Take("clear") /\ visible = Asked /\ Uncommit
        /\ UNCHANGED <<surface, frozen, glass, cancelled>>
    BY <1>2 DEF ClearForeground
  <2>2. Taken /\ Head(commands).op = "clear"
    BY <2>1 DEF Take, Taken
  <2>3. TypeOK /\ GlassInv /\ FrozenInv
    BY DEF IInv, LockInv
  <2>4. frozen.epoch = 0
    BY <2>2, <2>3, WildIsFree DEF Tame
  <2>5. visible' = NoLease /\ committed' = NoLease /\ deferred' \subseteq deferred
    BY <2>1, <2>3 DEF Uncommit, ClearOwner, GlassInv
  <2>6. GlassInv' /\ visible' \in Slots
    BY <2>5, SlotsAre DEF GlassInv
  <2> QED BY <2>1, <2>2, <2>4, <2>5, <2>6, PanelTakes
<1> QED BY <1>1, <1>2

LEMMA ConfigureInkKeeps ==
  ASSUME IInv, Aside, UNCHANGED alive, ConfigureInk
  PROVE  IInv'
<1>1. CASE Ignore("ink")
  BY <1>1, IgnoreKeeps DEF Kinds
<1>2. CASE ~Ignore("ink")
  <2>1. Take("ink") /\ UNCHANGED <<surface, visible, frozen, glass, committed, cancelled, deferred>>
    BY <1>2 DEF ConfigureInk
  <2>2. Taken /\ Head(commands).op = "ink"
    BY <2>1 DEF Take, Taken
  <2>3. TypeOK /\ GlassInv /\ FrozenInv
    BY DEF IInv, LockInv
  <2>4. GlassInv' /\ visible' \in Slots
    BY <2>1, <2>3 DEF GlassInv, TypeOK
  <2>5. frozen.epoch # 0 => visible' = visible /\ glass' = frozen.picture
    BY <2>1, <2>3 DEF FrozenInv
  <2> QED BY <2>1, <2>2, <2>4, <2>5, PanelTakes
<1> QED BY <1>1, <1>2

LEMMA PenKeeps ==
  ASSUME IInv, Aside, UNCHANGED alive, Pen
  PROVE  IInv'
<1>1. Taken /\ Head(commands).op = "pen"
  BY DEF Pen, Take, Taken
<1>2. UNCHANGED <<surface, visible, frozen, glass, committed, cancelled, deferred>>
  BY DEF Pen, telemetry
<1>3. TypeOK /\ GlassInv /\ FrozenInv
  BY DEF IInv, LockInv
<1>4. GlassInv' /\ visible' \in Slots
  BY <1>2, <1>3 DEF GlassInv, TypeOK
<1>5. frozen.epoch # 0 => visible' = visible /\ glass' = frozen.picture
  BY <1>2, <1>3 DEF FrozenInv
<1> QED BY <1>1, <1>2, <1>4, <1>5, PanelTakes

LEMMA FullRefreshKeeps ==
  ASSUME IInv, Aside, UNCHANGED alive, FullRefresh
  PROVE  IInv'
<1>1. Taken /\ Head(commands).op = "full"
  BY DEF FullRefresh, Take, Taken
<1>2. UNCHANGED <<surface, visible, frozen, committed, cancelled, deferred>>
  BY DEF FullRefresh, telemetry
<1>3. TypeOK /\ GlassInv /\ FrozenInv
  BY DEF IInv, LockInv
<1>4. frozen.epoch = 0
  BY <1>1, <1>3, WildIsFree DEF Tame
<1>5. GlassInv'
  <2>1. CASE visible = Asked /\ Connected(Asked.key) /\ Present(Asked.key)
    BY <1>2, <1>3, <2>1, Shown DEF GlassInv
  <2>2. CASE UNCHANGED glass
    BY <1>2, <1>3, <2>2 DEF GlassInv
  <2> QED BY <2>1, <2>2 DEF FullRefresh
<1> QED BY <1>1, <1>2, <1>3, <1>4, <1>5, PanelTakes DEF TypeOK

(* A refresh names the lock it is for, so there is one.                    *)
LEMMA LockedIs ==
  ASSUME TypeOK, FrozenInv, Taken, Locked(Head(commands))
  PROVE  /\ frozen.epoch # 0 /\ lock # Unlocked /\ Asked = lock.lease /\ visible = Asked
         /\ Head(commands).arg = lock.epoch
<1>1. frozen.epoch = Head(commands).arg /\ frozen.lease = Asked
  BY DEF Locked, Asked
<1>2. Asked # NoLease
  BY AskedIs
<1>3. frozen.epoch # 0
  BY <1>1, <1>2 DEF FrozenInv, NotFrozen
<1> QED BY <1>1, <1>3 DEF FrozenInv

LEMMA RefreshLockKeeps ==
  ASSUME IInv, Aside, UNCHANGED alive, RefreshLock
  PROVE  IInv'
<1>1. CASE Ignore("refreshLock")
  BY <1>1, IgnoreKeeps DEF Kinds
<1>2. CASE ~Ignore("refreshLock")
  <2>1. /\ Take("refreshLock") /\ Locked(Head(commands)) /\ glass' = frozen.picture
        /\ UNCHANGED <<surface, visible, frozen, committed, cancelled, deferred>>
    BY <1>2 DEF RefreshLock, LockPicture, telemetry
  <2>2. Taken /\ Head(commands).op = "refreshLock"
    BY <2>1 DEF Take, Taken
  <2>3. TypeOK /\ GlassInv /\ FrozenInv
    BY DEF IInv, LockInv
  <2>4. frozen.epoch # 0
    BY <2>1, <2>2, <2>3, LockedIs
  <2>5. GlassInv' /\ visible' \in Slots
    BY <2>1, <2>3, <2>4 DEF GlassInv, TypeOK
  <2> QED BY <2>1, <2>2, <2>5, PanelTakes
<1> QED BY <1>1, <1>2

(* A surface appears where there was none, so not the visible one.         *)
LEMMA RegisterSurfaceKeeps ==
  ASSUME IInv, Aside, UNCHANGED alive, RegisterSurface
  PROVE  IInv'
<1>1. /\ Taken /\ Head(commands).op = "register"
      /\ surface' = [surface EXCEPT ![Asked.key] = Head(commands).arg]
      /\ UNCHANGED <<visible, frozen, glass, committed, cancelled, deferred>>
  BY DEF RegisterSurface, Take, Taken, telemetry
<1>2. TypeOK /\ QueuedInv /\ FrozenInv /\ RegisterInv /\ LeaseInv /\ GlassInv
  BY DEF IInv, LockInv
<1>3. Asked.key \in Keys /\ Head(commands).arg \in Nat
  BY <1>1, <1>2, AskedIs
<1>4. Head(commands) = commands[1] /\ 1 \in 1..Len(commands) /\ commands' \in Seq(Orders)
  BY <1>1, <1>2, Shifts
<1>5. TypeOK'
  <2>1. surface' \in [Keys -> Nat]
    BY <1>1, <1>2, <1>3 DEF TypeOK
  <2> QED BY <1>1, <1>2, <1>4, <2>1, TypesRest DEF TypeOK
<1>6. InputInv' /\ ContactsBalanced' /\ AcceptInv' /\ LeaseInv'
  BY <1>1, <1>2, HostRests DEF LeaseInv
<1>7. QueuedInv' /\ FrozenInv'
  <2>1. frozen.epoch # 0 => visible' = visible /\ glass' = frozen.picture
    BY <1>1, <1>2 DEF FrozenInv
  <2> QED BY <1>1, <1>2, <2>1, FrozenShifts DEF Aside
<1>8. RegisterInv'
  <2>1. \A k \in Keys : /\ ~Of("drop", k, 1)
                        /\ ~Of("register", k, 1) => surface'[k] = surface[k]
    BY <1>1, <1>2, <1>4 DEF Of, TypeOK, Asked
  <2> QED BY <1>1, <1>2, <2>1, RegisterShifts DEF Aside
<1>9. GlassInv'
  <2>1. surface[Asked.key] = 0
    <3>1. Free(1, Asked.key)
      BY <1>1, <1>2, <1>3, <1>4 DEF RegisterInv, Of, Asked
    <3> QED BY <3>1 DEF Free
  <2>2. visible # NoLease /\ frozen.epoch = 0 => visible.key # Asked.key /\ visible.key \in Keys
    BY <1>2, <2>1, SlotsAre DEF GlassInv, TypeOK
  <2>3. visible # NoLease /\ frozen.epoch = 0 => surface'[visible.key] = surface[visible.key]
    BY <1>1, <1>2, <2>2 DEF TypeOK
  <2> QED BY <1>1, <1>2, <2>3 DEF GlassInv
<1> QED BY <1>5, <1>6, <1>7, <1>8, <1>9 DEF IInv, LockInv

(* The visible lease goes with its surface, unless the lock keeps it.      *)
LEMMA DropSurfaceKeeps ==
  ASSUME IInv, Aside, UNCHANGED alive, DropSurface
  PROVE  IInv'
<1>1. /\ Taken /\ Head(commands).op = "drop"
      /\ surface' = [surface EXCEPT ![Asked.key] = 0]
      /\ deferred' \subseteq deferred
      /\ UNCHANGED <<frozen, glass, cancelled>>
  BY DEF DropSurface, Take, Taken
<1>2. TypeOK /\ QueuedInv /\ FrozenInv /\ RegisterInv /\ LeaseInv /\ GlassInv
  BY DEF IInv, LockInv
<1>3. Asked.key \in Keys
  BY <1>1, <1>2, AskedIs
<1>4. Head(commands) = commands[1] /\ 1 \in 1..Len(commands) /\ commands' \in Seq(Orders)
  BY <1>1, <1>2, Shifts
<1>5. \/ ~KeepsLock(Asked.key) /\ visible.key = Asked.key /\ visible' = NoLease
         /\ committed' = NoLease
      \/ (KeepsLock(Asked.key) \/ visible.key # Asked.key) /\ UNCHANGED <<visible, committed>>
  <2>1. CASE ~KeepsLock(Asked.key) /\ visible.key = Asked.key /\ ClearOwner
    BY <1>2, <2>1 DEF ClearOwner, GlassInv
  <2>2. CASE (KeepsLock(Asked.key) \/ visible.key # Asked.key) /\ UNCHANGED <<visible, committed>>
    BY <2>2
  <2> QED BY <2>1, <2>2 DEF DropSurface
<1>6. TypeOK'
  <2>1. surface' \in [Keys -> Nat]
    BY <1>1, <1>2, <1>3 DEF TypeOK
  <2>2. visible' \in Slots
    BY <1>2, <1>5, SlotsAre DEF TypeOK
  <2> QED BY <1>1, <1>2, <1>4, <2>1, <2>2, TypesRest DEF TypeOK
<1>7. InputInv' /\ ContactsBalanced' /\ AcceptInv' /\ LeaseInv'
  BY <1>1, <1>2, HostRests DEF LeaseInv
<1>8. QueuedInv' /\ FrozenInv'
  <2>1. frozen.epoch # 0 => visible' = visible /\ glass' = frozen.picture
    BY <1>1, <1>2, <1>5 DEF FrozenInv, KeepsLock
  <2> QED BY <1>1, <1>2, <2>1, FrozenShifts DEF Aside
<1>9. RegisterInv'
  <2>1. \A k \in Keys : /\ Of("drop", k, 1) => surface'[k] = 0
                        /\ ~Of("drop", k, 1) => surface'[k] = surface[k]
    BY <1>1, <1>2, <1>4 DEF Of, TypeOK, Asked
  <2> QED BY <1>1, <1>2, <2>1, RegisterShifts DEF Aside
<1>10. GlassInv'
  <2>1. CASE visible' = NoLease /\ committed' = NoLease
    BY <2>1 DEF GlassInv
  <2>2. CASE KeepsLock(Asked.key) /\ UNCHANGED <<visible, committed>>
    BY <1>1, <1>2, <2>2 DEF GlassInv, KeepsLock
  <2>3. CASE visible.key # Asked.key /\ UNCHANGED <<visible, committed>>
    <3>1. visible # NoLease => visible.key \in Keys
      BY <1>2, SlotsAre DEF TypeOK
    <3>2. visible # NoLease => surface'[visible.key] = surface[visible.key]
      BY <1>1, <1>2, <2>3, <3>1 DEF TypeOK
    <3> QED BY <1>1, <1>2, <2>3, <3>2 DEF GlassInv
  <2> QED BY <1>5, <2>1, <2>2, <2>3
<1> QED BY <1>6, <1>7, <1>8, <1>9, <1>10 DEF IInv, LockInv

(* The lock is committed: only tame commands are behind it.                *)
LEMMA ShowLockKeeps ==
  ASSUME IInv, Aside, UNCHANGED alive, ShowLock
  PROVE  IInv'
<1>1. CASE Ignore("show")
  BY <1>1, IgnoreKeeps DEF Kinds
<1>2. CASE ~Ignore("show")
  <2>1. /\ Take("show") /\ Commit(Asked) /\ Present(Asked.key)
        /\ frozen' = [epoch |-> Head(commands).arg, lease |-> Asked,
                      picture |-> Picture(Asked.key)]
        /\ UNCHANGED <<surface, cancelled>>
    BY <1>2 DEF ShowLock
  <2>2. Taken /\ Head(commands).op = "show"
    BY <2>1 DEF Take, Taken
  <2>3. TypeOK /\ QueuedInv /\ RegisterInv /\ LeaseInv
    BY DEF IInv, LockInv
  <2>4. Head(commands) = commands[1] /\ 1 \in 1..Len(commands) /\ commands' \in Seq(Orders)
    BY <2>2, <2>3, Shifts
  <2>5. visible' = Asked /\ committed' = Asked /\ deferred' \subseteq deferred
    BY <2>1 DEF Commit
  <2>6. Asked \in Slots
    BY <2>2, <2>3, AskedIs
  <2>7. /\ lock # Unlocked /\ Head(commands).arg = lock.epoch /\ Asked = lock.lease
        /\ cancelled # lock.epoch
        /\ \A j \in 1..Len(commands) : 1 < j => Tame(commands[j])
    BY <2>2, <2>3, <2>4 DEF QueuedInv, Asked
  <2>8. TypeOK'
    BY <2>1, <2>3, <2>4, <2>5, <2>6, TypesRest DEF TypeOK
  <2>9. InputInv' /\ ContactsBalanced' /\ AcceptInv' /\ LeaseInv'
    BY <2>1, <2>3, <2>5, HostRests DEF LeaseInv
  <2>10. QueuedInv'
    BY <2>1, <2>2, <2>3, QueueShifts DEF Aside
  <2>11. FrozenInv'
    <3>1. \A i \in 1..Len(commands') : Tame(commands'[i])
      <4>1. \A i \in 1..Len(commands) : i >= 2 => Tame(commands[i])
        BY <2>7
      <4> QED BY <2>2, <2>3, <4>1, TameShifts
    <3>2. lock.epoch > 0 /\ lock.epoch \in Nat
      BY <2>3, <2>7 DEF LeaseInv, TypeOK
    <3>3. frozen'.epoch # 0 /\ frozen'.epoch = lock.epoch /\ frozen'.lease = lock.lease
          /\ glass' = frozen'.picture
      BY <2>1, <2>7, <3>2 DEF Present
    <3>4. lock' = lock
      BY DEF Aside
    <3> QED BY <2>1, <2>5, <2>7, <3>1, <3>3, <3>4 DEF FrozenInv
  <2>12. RegisterInv'
    <3>1. \A k \in Keys : ~Of("drop", k, 1)
      BY <2>2, <2>4 DEF Of
    <3> QED BY <2>1, <2>2, <2>3, <3>1, RegisterShifts DEF Aside
  <2>13. GlassInv'
    <3>1. frozen'.epoch # 0
      BY <2>1, <2>3, <2>7 DEF LeaseInv, TypeOK
    <3> QED BY <2>5, <3>1 DEF GlassInv
  <2> QED BY <2>8, <2>9, <2>10, <2>11, <2>12, <2>13 DEF IInv, LockInv
<1> QED BY <1>1, <1>2

(* The replacement is on the glass when the lock goes.                     *)
LEMMA CancelLockKeeps ==
  ASSUME IInv, Aside, UNCHANGED alive, CancelLock
  PROVE  IInv'
<1>1. CASE Ignore("cancel")
  BY <1>1, IgnoreKeeps DEF Kinds
<1>2. CASE ~Ignore("cancel")
  <2>1. /\ Take("cancel") /\ Replaceable(Head(commands)) /\ Present(Asked.key)
        /\ frozen' = NotFrozen /\ cancelled' = Head(commands).arg
        /\ UNCHANGED <<surface, visible, committed, deferred>>
    BY <1>2 DEF CancelLock
  <2>2. /\ Taken /\ Head(commands).op = "cancel" /\ Locked(Head(commands))
        /\ Connected(Asked.key)
    BY <2>1 DEF Take, Taken, Replaceable, Asked
  <2>3. TypeOK /\ QueuedInv /\ FrozenInv /\ RegisterInv /\ LeaseInv /\ GlassInv
    BY DEF IInv, LockInv
  <2>4. /\ frozen.epoch # 0 /\ lock # Unlocked /\ Asked = lock.lease /\ visible = Asked
        /\ Head(commands).arg = lock.epoch
    BY <2>2, <2>3, LockedIs
  <2>5. Head(commands) = commands[1] /\ 1 \in 1..Len(commands) /\ commands' \in Seq(Orders)
    BY <2>2, <2>3, Shifts
  <2>6. cancelled' \in Nat /\ cancelled' <= lastSleep
    BY <2>1, <2>3, <2>4 DEF LeaseInv, TypeOK
  <2>7. TypeOK'
    BY <2>1, <2>3, <2>5, <2>6, TypesRest DEF TypeOK
  <2>8. InputInv' /\ ContactsBalanced' /\ AcceptInv' /\ LeaseInv'
    BY <2>1, <2>6, HostRests
  <2>9. \A i \in 1..Len(commands') : Tame(commands'[i])
    <3>1. \A i \in 1..Len(commands) : i >= 1 => Tame(commands[i])
      BY <2>3, <2>4 DEF FrozenInv
    <3> QED BY <2>2, <2>3, <3>1, TameShifts
  <2>10. QueuedInv' /\ FrozenInv'
    BY <2>1, <2>9 DEF QueuedInv, FrozenInv, Tame, NotFrozen
  <2>11. RegisterInv'
    <3>1. \A k \in Keys : ~Of("drop", k, 1)
      BY <2>2, <2>5 DEF Of
    <3> QED BY <2>1, <2>2, <2>3, <3>1, RegisterShifts DEF Aside
  <2>12. GlassInv'
    BY <2>1, <2>2, <2>3, <2>4, Shown DEF GlassInv
  <2> QED BY <2>7, <2>8, <2>10, <2>11, <2>12 DEF IInv, LockInv
<1> QED BY <1>1, <1>2

(* A step that takes no command.                                           *)
LEMMA NothingTaken ==
  ASSUME IInv, Aside, UNCHANGED <<commands, surface, visible, frozen, committed, cancelled>>,
         alive' => alive, deferred' \subseteq deferred,
         frozen.epoch # 0 => glass' = glass, GlassInv'
  PROVE  IInv'
<1>1. TypeOK /\ QueuedInv /\ FrozenInv /\ RegisterInv /\ LeaseInv
  BY DEF IInv, LockInv
<1>2. TypeOK'
  BY <1>1, TypesRest DEF TypeOK
<1>3. InputInv' /\ ContactsBalanced' /\ AcceptInv' /\ LeaseInv'
  BY <1>1, HostRests DEF LeaseInv
<1>4. QueuedInv' /\ FrozenInv'
  BY <1>1 DEF QueuedInv, FrozenInv, Aside
<1>5. RegisterInv'
  BY <1>1 DEF RegisterInv, Free, Of, Aside
<1> QED BY <1>2, <1>3, <1>4, <1>5 DEF IInv, LockInv

(* Damage of the locked surface is never deferred.                         *)
LEMMA FlushDeferredKeeps ==
  ASSUME IInv, Aside, FlushDeferred
  PROVE  IInv'
<1>1. /\ visible \in deferred /\ deferred' \subseteq deferred /\ Redraw(visible)
      /\ UNCHANGED <<commands, surface, visible, frozen, committed, cancelled, alive>>
  BY DEF FlushDeferred, telemetry
<1>2. FrozenInv /\ LeaseInv /\ GlassInv
  BY DEF IInv, LockInv
<1>3. frozen.epoch = 0
  BY <1>1, <1>2 DEF FrozenInv, LeaseInv
<1>4. GlassInv'
  <2>1. CASE Connected(visible.key) /\ Present(visible.key)
    BY <1>1, <1>2, <2>1, Shown DEF GlassInv
  <2>2. CASE UNCHANGED glass
    BY <1>1, <1>2, <2>2 DEF GlassInv
  <2> QED BY <1>1, <2>1, <2>2 DEF Redraw
<1> QED BY <1>1, <1>3, <1>4, NothingTaken

LEMMA SettledKeeps ==
  ASSUME IInv, Aside, Settled
  PROVE  IInv'
<1>1. UNCHANGED <<commands, surface, visible, frozen, glass, committed, cancelled, deferred, alive>>
  BY DEF Settled, telemetry
<1>2. GlassInv'
  BY <1>1 DEF IInv, GlassInv
<1> QED BY <1>1, <1>2, NothingTaken

LEMMA FailsKeeps ==
  ASSUME IInv, Fails
  PROVE  IInv'
<1>1. /\ UNCHANGED <<commands, surface, visible, frozen, glass, committed, cancelled, deferred>>
      /\ alive' => alive
  BY DEF Fails, PanelFails, telemetry
<1>2. Aside
  BY DEF Fails, Aside, clientVars, inputVars, hostKeeps, leaseVars
<1>3. GlassInv'
  BY <1>1 DEF IInv, GlassInv
<1> QED BY <1>1, <1>2, <1>3, NothingTaken

LEMMA PanelThreadKeeps ==
  ASSUME IInv, PanelThread
  PROVE  IInv'
<1>1. Aside
  BY DEF PanelThread, Aside, clientVars, inputVars, hostKeeps, leaseVars
<1>2. CASE FlushDeferred \/ Settled
  BY <1>1, <1>2, FlushDeferredKeeps, SettledKeeps
<1>3. CASE ~(FlushDeferred \/ Settled)
  <2>1. /\ UNCHANGED alive
        /\ \/ RegisterSurface \/ DropSurface \/ Damage \/ SetForeground
           \/ ActivateForeground \/ ClearForeground \/ ConfigureInk \/ Pen
           \/ FullRefresh \/ ShowLock \/ RefreshLock \/ CancelLock
    BY <1>3 DEF PanelThread, PanelStep
  <2> QED BY <1>1, <2>1, RegisterSurfaceKeeps, DropSurfaceKeeps, DamageKeeps, SetForegroundKeeps,
             ActivateForegroundKeeps, ClearForegroundKeeps, ConfigureInkKeeps, PenKeeps,
             FullRefreshKeeps, ShowLockKeeps, RefreshLockKeeps, CancelLockKeeps
<1> QED BY <1>2, <1>3

-----------------------------------------------------------------------------
(***************************************************************************)
(* What the host's actions share                                           *)
(***************************************************************************)
(* What of the panel the host reads and leaves alone.                      *)
Glassy == UNCHANGED <<surface, visible, frozen, glass, committed, cancelled>>

(* A host's step that sends commands: any while there is no lock, tame ones*)
(* in any case, and none that registers.                                   *)
LEMMA ChannelGrows ==
  ASSUME IInv, Glassy, NEW S, Grows(commands, commands', S),
         \A c \in S : /\ c.op \notin {"register", "show"}
                      /\ Tame(c) \/ lock = Unlocked,
         UNCHANGED lock, alive' => alive,
         \A k \in Keys : client'[k] = "none" =>
           \/ client[k] = "none" \/ ~alive'
           \/ \E j \in 1..Len(commands') : j > Len(commands) /\ Of("drop", k, j)'
  PROVE  commands' \in Seq(Orders) /\ QueuedInv' /\ FrozenInv' /\ RegisterInv' /\ GlassInv'
<1>1. TypeOK /\ QueuedInv /\ FrozenInv /\ RegisterInv /\ GlassInv
  BY DEF IInv, LockInv
<1>2. QueuedInv' /\ FrozenInv'
  BY <1>1, QueueGrows DEF Glassy
<1>3. RegisterInv'
  BY <1>1, RegisterGrows DEF Glassy
<1>4. GlassInv'
  BY <1>1 DEF GlassInv, Glassy
<1> QED BY <1>2, <1>3, <1>4 DEF Grows

(* One that sends none.                                                    *)
LEMMA ChannelRests ==
  ASSUME IInv, Glassy, UNCHANGED <<commands, lock, client, alive>>
  PROVE  commands' \in Seq(Orders) /\ QueuedInv' /\ FrozenInv' /\ RegisterInv' /\ GlassInv'
<1>1. TypeOK /\ QueuedInv /\ FrozenInv /\ RegisterInv /\ GlassInv
  BY DEF IInv, LockInv
<1>2. QueuedInv' /\ FrozenInv'
  BY <1>1 DEF QueuedInv, FrozenInv, Glassy
<1>3. RegisterInv'
  BY <1>1 DEF RegisterInv, Free, Of, Glassy
<1>4. GlassInv'
  BY <1>1 DEF GlassInv, Glassy
<1> QED BY <1>1, <1>2, <1>3, <1>4 DEF TypeOK

(* A single command without the pen's.                                     *)
LEMMA SendsOne ==
  ASSUME IInv, Glassy, NEW op \in Kinds \ {"register", "show"}, NEW c \in Made({op}),
         Enqueue(c), op \in {"pen", "refreshLock", "cancel", "drop"} \/ lock = Unlocked,
         UNCHANGED <<lock, client, alive>>
  PROVE  commands' \in Seq(Orders) /\ QueuedInv' /\ FrozenInv' /\ RegisterInv' /\ GlassInv'
<1>1. commands \in Seq(Orders) /\ c \in Orders /\ commands' = Append(commands, c)
  BY DEF IInv, TypeOK, Enqueue, Made
<1>2. Grows(commands, commands', Made({op}))
  BY <1>1, Appends
<1>3. \A d \in Made({op}) : /\ d.op \notin {"register", "show"}
                            /\ Tame(d) \/ lock = Unlocked
  BY DEF Made, Tame
<1> QED BY <1>2, <1>3, ChannelGrows

(* One, and the cancelled stroke.                                          *)
LEMMA SendsFenced ==
  ASSUME IInv, Glassy, NEW op \in Kinds \ {"register", "show"}, NEW c \in Made({op}),
         EnqueueFenced(c), lock = Unlocked, UNCHANGED <<lock, client, alive>>
  PROVE  commands' \in Seq(Orders) /\ QueuedInv' /\ FrozenInv' /\ RegisterInv' /\ GlassInv'
<1>1. Grows(commands, commands', Made({op, "pen"}))
  <2>1. TypeOK /\ commands' = CancelStroke(Append(commands, c))
    BY DEF IInv, EnqueueFenced
  <2> QED BY <2>1, FencedGrows
<1>2. \A d \in Made({op, "pen"}) : /\ d.op \notin {"register", "show"}
                                   /\ Tame(d) \/ lock = Unlocked
  BY DEF Made
<1> QED BY <1>1, <1>2, ChannelGrows

(* The fence leaves nobody with a contact.                                 *)
LEMMA StaleFrames ==
  ASSUME NEW q \in Seq(Frames)
  PROVE  Stale(q) \in Seq(Frames)
<1>1. \A i \in 1..Len(q) : [q[i] EXCEPT !.current = FALSE] \in Frames
  <2>1. \A f \in Frames : [f EXCEPT !.current = FALSE] \in Frames
    BY DEF Frames
  <2> QED BY <2>1
<1>2. DOMAIN q = 1..Len(q) /\ Len(q) \in Nat
  OBVIOUS
<1> QED BY <1>1, <1>2 DEF Stale

(* What the types of the input are.                                        *)
InputTypes ==
  /\ active \subseteq Contacts /\ pen \in Slots /\ captured \in Seq(Frames)
  /\ held \in [Keys -> SUBSET (Contacts \cup Strokes)]

LEMMA FenceEmpties ==
  ASSUME IInv, FenceContacts, UNCHANGED client
  PROVE  InputTypes' /\ InputInv' /\ ContactsBalanced'
<1>1. TypeOK /\ InputInv /\ ContactsBalanced
  BY DEF IInv
<1>2. /\ held' = [k \in Keys |-> IF Hears(k) THEN held[k] \ Lifted(k) ELSE held[k]]
      /\ pen' = NoLease /\ active' = {} /\ captured' = Stale(captured)
  BY DEF FenceContacts
<1>3. InputTypes'
  <2>1. captured' \in Seq(Frames)
    BY <1>1, <1>2, StaleFrames DEF TypeOK
  <2>2. held' \in [Keys -> SUBSET (Contacts \cup Strokes)]
    BY <1>1, <1>2 DEF TypeOK
  <2> QED BY <1>2, <2>1, <2>2, SlotsAre DEF InputTypes
<1>4. \A k \in Keys : client[k] = "on" => held'[k] = {}
  BY <1>1, <1>2 DEF ContactsBalanced, Hears
<1>5. \A k \in Keys : client[k] \in {"none", "new"} => held'[k] = {}
  BY <1>1, <1>2 DEF InputInv
<1> QED BY <1>2, <1>3, <1>4, <1>5 DEF InputInv, ContactsBalanced

(* What no step of the input changes.                                      *)
LEMMA InputRests ==
  ASSUME IInv, UNCHANGED <<active, pen, captured, held, foreground>>,
         prepared' = prepared \/ prepared' = NoLease,
         \A k \in Keys : client'[k] = client[k] \/ held[k] = {}
  PROVE  InputTypes' /\ InputInv' /\ ContactsBalanced'
<1>1. TypeOK /\ InputInv /\ ContactsBalanced
  BY DEF IInv
<1>2. InputTypes'
  BY <1>1 DEF InputTypes, TypeOK
<1>3. InputInv'
  BY <1>1 DEF InputInv
<1>4. ContactsBalanced'
  BY <1>1 DEF ContactsBalanced, Lifted
<1> QED BY <1>2, <1>3, <1>4

(* The types of the rest.                                                  *)
LEMMA TypesAre ==
  ASSUME TypeOK, InputTypes', commands' \in Seq(Orders), Glassy, UNCHANGED client,
         lives' \in Nat, deferred' \subseteq Targets, {foreground', prepared'} \subseteq Slots,
         lock' \in [epoch : Nat, lease : Slots], lastSleep' \in Nat, fences' \in [Keys -> Nat]
  PROVE  TypeOK'
BY DEF TypeOK, InputTypes, Glassy

(* A fence is accepted.                                                    *)
LEMMA FencesRise ==
  ASSUME IInv, NEW k \in Keys, NEW f \in Nat, Fresh(k, f), Accept(k, f), UNCHANGED deferred
  PROVE  /\ fences' \in [Keys -> Nat]
         /\ \A l \in deferred' : l.fence <= fences'[l.key]
         /\ \A l \in Slots : Accepted(l) => Accepted(l)'
         /\ Accepted(Lease(k, f))' /\ Lease(k, f) \notin deferred
<1>1. TypeOK /\ AcceptInv
  BY DEF IInv, LockInv
<1>2. /\ fences \in [Keys -> Nat] /\ f > fences[k] /\ fences' = [fences EXCEPT ![k] = f]
      /\ deferred \subseteq Targets /\ deferred' = deferred
  BY <1>1 DEF TypeOK, Fresh, Accept
<1>3. fences' \in [Keys -> Nat] /\ \A q \in Keys : fences[q] <= fences'[q]
  BY <1>2
<1>4. \A l \in Targets : l.key \in Keys /\ l.fence \in Nat
  BY DEF Targets
<1>5. \A l \in deferred' : l.fence <= fences'[l.key]
  <2> SUFFICES ASSUME NEW l \in deferred PROVE l.fence <= fences'[l.key]
    BY <1>2
  <2>1. l.fence <= fences[l.key] /\ l.key \in Keys /\ l.fence \in Nat
    BY <1>1, <1>2, <1>4 DEF AcceptInv
  <2>2. fences[l.key] \in Nat /\ fences'[l.key] \in Nat /\ fences[l.key] <= fences'[l.key]
    BY <1>2, <1>3, <2>1
  <2> QED BY <2>1, <2>2
<1>6. \A l \in Slots : Accepted(l) => Accepted(l)'
  <2> SUFFICES ASSUME NEW l \in Slots, Accepted(l), l # NoLease PROVE l.fence <= fences'[l.key]
    BY DEF Accepted
  <2>1. l.fence <= fences[l.key] /\ l.key \in Keys /\ l.fence \in Nat
    BY <1>4, SlotsAre DEF Accepted
  <2>2. fences[l.key] \in Nat /\ fences'[l.key] \in Nat /\ fences[l.key] <= fences'[l.key]
    BY <1>2, <1>3, <2>1
  <2> QED BY <2>1, <2>2
<1>7. Lease(k, f).key = k /\ Lease(k, f).fence = f
  BY DEF Lease
<1>8. Accepted(Lease(k, f))'
  BY <1>2, <1>7 DEF Accepted
<1>9. Lease(k, f) \notin deferred
  BY <1>1, <1>2, <1>7 DEF AcceptInv
<1> QED BY <1>3, <1>5, <1>6, <1>8, <1>9

(* An action outside the lock leaves the epochs as they are.               *)
LEMMA LeaseRests ==
  ASSUME IInv, UNCHANGED <<lock, cancelled, lastSleep>>,
         lock # Unlocked => foreground' = foreground /\ deferred' \subseteq deferred,
         waiting' = waiting \/ waiting'.op # "cancel"
  PROVE  LeaseInv'
<1>1. LeaseInv
  BY DEF IInv, LockInv
<1> QED BY <1>1 DEF LeaseInv

-----------------------------------------------------------------------------
(***************************************************************************)
(* The manager's commands                                                  *)
(***************************************************************************)
LEMMA HostSetKeeps ==
  ASSUME IInv, NEW k \in Keys, NEW f \in Nat, HostSet(k, f)
  PROVE  IInv'
<1> DEFINE c == Plain("set", Lease(k, f))
<1>1. /\ lock = Unlocked /\ Fresh(k, f) /\ EnqueueFenced(c) /\ Accept(k, f)
      /\ prepared' = NoLease /\ foreground' = Lease(k, f)
      /\ UNCHANGED <<deferred, client, lives, alive, lock, lastSleep, waiting>> /\ Glassy
  BY DEF HostSet, panelRest, telemetry, clientVars, Glassy
<1>2. c \in Made({"set"}) /\ Lease(k, f) \in Slots
  BY SlotsAre, CommandIs DEF Plain, Kinds
<1> HIDE DEF c
<1>3. TypeOK
  BY DEF IInv
<1>4. commands' \in Seq(Orders) /\ QueuedInv' /\ FrozenInv' /\ RegisterInv' /\ GlassInv'
  BY <1>1, <1>2, SendsFenced DEF Kinds
<1>5. InputTypes' /\ InputInv' /\ ContactsBalanced'
  BY <1>1, FenceEmpties DEF EnqueueFenced
<1>6. fences' \in [Keys -> Nat] /\ AcceptInv'
  <2>1. /\ fences' \in [Keys -> Nat] /\ Accepted(Lease(k, f))'
        /\ \A l \in deferred' : l.fence <= fences'[l.key]
    BY <1>1, FencesRise
  <2> QED BY <1>1, <2>1 DEF AcceptInv, Accepted
<1>7. LeaseInv'
  BY <1>1, LeaseRests DEF Glassy
<1>8. TypeOK'
  BY <1>1, <1>2, <1>3, <1>4, <1>5, <1>6, SlotsAre, TypesAre DEF TypeOK
<1> QED BY <1>4, <1>5, <1>6, <1>7, <1>8 DEF IInv, LockInv

LEMMA HostPrepareKeeps ==
  ASSUME IInv, NEW k \in Keys, NEW f \in Nat, HostPrepare(k, f)
  PROVE  IInv'
<1>1. /\ lock = Unlocked /\ Fresh(k, f) /\ commands' = CancelStroke(commands) /\ FenceContacts
      /\ Accept(k, f) /\ prepared' = Lease(k, f)
      /\ UNCHANGED <<deferred, client, lives, alive, foreground, lock, lastSleep, waiting>>
      /\ Glassy
  BY DEF HostPrepare, panelRest, telemetry, clientVars, Glassy
<1>2. TypeOK /\ AcceptInv /\ Lease(k, f) \in Slots
  BY SlotsAre DEF IInv, LockInv
<1>3. commands' \in Seq(Orders) /\ QueuedInv' /\ FrozenInv' /\ RegisterInv' /\ GlassInv'
  <2>1. Grows(commands, commands', Pens)
    BY <1>1, <1>2, CancelGrows DEF TypeOK
  <2>2. \A d \in Pens : d.op \notin {"register", "show"} /\ (Tame(d) \/ lock = Unlocked)
    BY DEF Pens, Made, Tame
  <2> QED BY <1>1, <2>1, <2>2, ChannelGrows
<1>4. InputTypes' /\ InputInv' /\ ContactsBalanced'
  BY <1>1, FenceEmpties
<1>5. fences' \in [Keys -> Nat] /\ AcceptInv'
  <2>1. /\ fences' \in [Keys -> Nat] /\ Accepted(Lease(k, f))'
        /\ \A l \in deferred' : l.fence <= fences'[l.key]
        /\ \A l \in Slots : Accepted(l) => Accepted(l)'
    BY <1>1, FencesRise
  <2>2. foreground \in Slots /\ Accepted(foreground)
    BY <1>2 DEF TypeOK, AcceptInv
  <2> QED BY <1>1, <2>1, <2>2 DEF AcceptInv, Accepted
<1>6. LeaseInv'
  BY <1>1, LeaseRests DEF Glassy
<1>7. TypeOK'
  BY <1>1, <1>2, <1>3, <1>4, <1>5, TypesAre DEF TypeOK
<1> QED BY <1>3, <1>4, <1>5, <1>6, <1>7 DEF IInv, LockInv

(* The prepared successor finds nothing pressed.                           *)
LEMMA HostActivateKeeps ==
  ASSUME IInv, NEW on \in BOOLEAN, HostActivate(on)
  PROVE  IInv'
<1> DEFINE c == Command("activate", prepared, Flag(on), 0)
<1>1. /\ lock = Unlocked /\ prepared # NoLease /\ Enqueue(c)
      /\ prepared' = NoLease /\ foreground' = prepared
      /\ UNCHANGED <<active, pen, captured, held, deferred, client, lives, alive, lock, lastSleep,
                     fences, waiting>>
      /\ Glassy
  BY DEF HostActivate, panelRest, telemetry, clientVars, inputVars, Glassy
<1>2. TypeOK /\ AcceptInv /\ InputInv /\ ContactsBalanced
  BY DEF IInv, LockInv
<1>3. prepared \in Targets /\ prepared \in Slots /\ Flag(on) \in Nat
  BY <1>1, <1>2, SlotsAre DEF TypeOK, Flag
<1>4. c \in Made({"activate"})
  BY <1>3, CommandIs DEF Kinds
<1> HIDE DEF c
<1>5. commands' \in Seq(Orders) /\ QueuedInv' /\ FrozenInv' /\ RegisterInv' /\ GlassInv'
  BY <1>1, <1>4, SendsOne DEF Kinds
<1>6. InputTypes'
  BY <1>1, <1>2 DEF InputTypes, TypeOK
<1>7. InputInv' /\ ContactsBalanced'
  <2>1. active = {} /\ pen = NoLease
    BY <1>1, <1>2 DEF InputInv
  <2>2. \A k \in Keys : Lifted(k) = {}
    BY <2>1, SlotsAre DEF Lifted
  <2>3. \A k \in Keys : client[k] = "on" => held[k] = {}
    BY <1>2, <2>2 DEF ContactsBalanced
  <2> QED BY <1>1, <1>2, <2>1, <2>3 DEF InputInv, ContactsBalanced
<1>8. AcceptInv'
  BY <1>1, <1>2 DEF AcceptInv, Accepted
<1>9. LeaseInv'
  BY <1>1, LeaseRests DEF Glassy
<1>10. TypeOK'
  BY <1>1, <1>2, <1>3, <1>5, <1>6, SlotsAre, TypesAre DEF TypeOK
<1> QED BY <1>5, <1>7, <1>8, <1>9, <1>10 DEF IInv, LockInv

LEMMA HostClearKeeps ==
  ASSUME IInv, HostClear
  PROVE  IInv'
<1>1. /\ lock = Unlocked /\ prepared' = NoLease
      /\ UNCHANGED <<deferred, client, lives, alive, lock, lastSleep, fences, waiting>> /\ Glassy
  BY DEF HostClear, panelRest, telemetry, clientVars, Glassy
<1>2. TypeOK /\ AcceptInv
  BY DEF IInv, LockInv
<1>3. \/ /\ foreground # NoLease /\ EnqueueFenced(Plain("clear", foreground))
         /\ foreground' = NoLease
      \/ UNCHANGED <<commands, active, pen, captured, held, foreground>>
  BY DEF HostClear, inputVars
<1>4. /\ commands' \in Seq(Orders) /\ QueuedInv' /\ FrozenInv' /\ RegisterInv' /\ GlassInv'
      /\ InputTypes' /\ InputInv' /\ ContactsBalanced'
  <2>1. CASE /\ foreground # NoLease /\ EnqueueFenced(Plain("clear", foreground))
             /\ foreground' = NoLease
    <3>1. foreground \in Targets
      BY <1>2, <2>1, SlotsAre DEF TypeOK
    <3>2. Plain("clear", foreground) \in Made({"clear"})
      BY <3>1, CommandIs DEF Plain, Kinds
    <3>3. commands' \in Seq(Orders) /\ QueuedInv' /\ FrozenInv' /\ RegisterInv' /\ GlassInv'
      BY <1>1, <2>1, <3>2, SendsFenced DEF Kinds
    <3>4. InputTypes' /\ InputInv' /\ ContactsBalanced'
      BY <1>1, <2>1, FenceEmpties DEF EnqueueFenced
    <3> QED BY <3>3, <3>4
  <2>2. CASE UNCHANGED <<commands, active, pen, captured, held, foreground>>
    BY <1>1, <2>2, ChannelRests, InputRests
  <2> QED BY <1>3, <2>1, <2>2
<1>5. AcceptInv'
  BY <1>1, <1>2, <1>3 DEF AcceptInv, Accepted
<1>6. LeaseInv'
  BY <1>1, LeaseRests DEF Glassy
<1>7. TypeOK'
  BY <1>1, <1>2, <1>3, <1>4, SlotsAre, TypesAre DEF TypeOK
<1> QED BY <1>4, <1>5, <1>6, <1>7 DEF IInv, LockInv

(* A command that leaves the leases and the contacts alone.                *)
LEMMA SendsAside ==
  ASSUME IInv, Glassy, NEW op \in Kinds \ {"register", "show"}, NEW c \in Made({op}),
         Enqueue(c), op \in {"pen", "refreshLock", "cancel", "drop"} \/ lock = Unlocked,
         UNCHANGED <<active, pen, captured, held, foreground, prepared, lock, lastSleep, fences,
                     deferred, client, lives, alive>>,
         LeaseInv'
  PROVE  IInv'
<1>1. TypeOK /\ AcceptInv
  BY DEF IInv, LockInv
<1>2. commands' \in Seq(Orders) /\ QueuedInv' /\ FrozenInv' /\ RegisterInv' /\ GlassInv'
  BY SendsOne
<1>3. InputTypes' /\ InputInv' /\ ContactsBalanced'
  BY InputRests
<1>4. AcceptInv'
  BY <1>1 DEF AcceptInv, Accepted
<1>5. TypeOK'
  BY <1>1, <1>2, <1>3, TypesAre DEF TypeOK
<1> QED BY <1>2, <1>3, <1>4, <1>5 DEF IInv, LockInv

LEMMA HostInkKeeps ==
  ASSUME IInv, NEW on \in BOOLEAN, HostInk(on)
  PROVE  IInv'
<1>1. /\ lock = Unlocked /\ foreground # NoLease
      /\ Enqueue(Command("ink", foreground, Flag(on), 0))
      /\ waiting'.op # "cancel"
      /\ UNCHANGED <<active, pen, captured, held, foreground, prepared, lock, lastSleep, fences,
                     deferred, client, lives, alive>>
      /\ Glassy
  BY DEF HostInk, panelRest, telemetry, clientVars, inputVars, leaseVars, Glassy
<1>2. foreground \in Targets /\ Flag(on) \in Nat
  BY <1>1, SlotsAre DEF IInv, TypeOK, Flag
<1>3. Command("ink", foreground, Flag(on), 0) \in Made({"ink"})
  BY <1>2, CommandIs DEF Kinds
<1>4. LeaseInv'
  BY <1>1, LeaseRests DEF Glassy
<1> QED BY <1>1, <1>3, <1>4, SendsAside DEF Kinds

LEMMA HostRefreshKeeps ==
  ASSUME IInv, HostRefresh
  PROVE  IInv'
<1>1. /\ \/ lock # Unlocked /\ Enqueue(Command("refreshLock", lock.lease, lock.epoch, 0))
         \/ lock = Unlocked /\ foreground # NoLease /\ Enqueue(Plain("full", foreground))
      /\ UNCHANGED <<active, pen, captured, held, foreground, prepared, lock, lastSleep, fences,
                     deferred, client, lives, alive, waiting>>
      /\ Glassy
  BY DEF HostRefresh, panelRest, telemetry, clientVars, inputVars, leaseVars, Glassy
<1>2. TypeOK /\ LeaseInv
  BY DEF IInv, LockInv
<1>3. LeaseInv'
  BY <1>1, LeaseRests DEF Glassy
<1>4. CASE lock # Unlocked /\ Enqueue(Command("refreshLock", lock.lease, lock.epoch, 0))
  <2>1. lock.lease \in Targets /\ lock.epoch \in Nat
    BY <1>2, <1>4, SlotsAre DEF TypeOK, LeaseInv
  <2>2. Command("refreshLock", lock.lease, lock.epoch, 0) \in Made({"refreshLock"})
    BY <2>1, CommandIs DEF Kinds
  <2> QED BY <1>1, <1>3, <1>4, <2>2, SendsAside DEF Kinds
<1>5. CASE lock = Unlocked /\ foreground # NoLease /\ Enqueue(Plain("full", foreground))
  <2>1. foreground \in Targets
    BY <1>2, <1>5, SlotsAre DEF TypeOK
  <2>2. Plain("full", foreground) \in Made({"full"})
    BY <2>1, CommandIs DEF Plain, Kinds
  <2> QED BY <1>1, <1>3, <1>5, <2>2, SendsAside DEF Kinds
<1> QED BY <1>1, <1>4, <1>5

(* The lock is put behind a channel that holds none, above all the panel   *)
(* has cancelled, and nothing was deferred for its lease.                  *)
LEMMA HostShowLockKeeps ==
  ASSUME IInv, NEW k \in Keys, NEW f \in Nat, NEW e \in Nat, HostShowLock(k, f, e)
  PROVE  IInv'
<1> DEFINE c == Command("show", Lease(k, f), e, 0)
<1>1. /\ lock = Unlocked /\ e > lastSleep /\ Fresh(k, f) /\ EnqueueFenced(c) /\ Accept(k, f)
      /\ lastSleep' = e /\ foreground' = Lease(k, f)
      /\ lock' = [epoch |-> e, lease |-> Lease(k, f)] /\ waiting = Idle
      /\ prepared = NoLease
      /\ UNCHANGED <<deferred, client, lives, alive, prepared, waiting>> /\ Glassy
  BY DEF HostShowLock, Control, OpsFree, panelRest, telemetry, clientVars, Glassy
<1>2. TypeOK /\ AcceptInv /\ LeaseInv /\ QueuedInv /\ FrozenInv /\ RegisterInv /\ GlassInv
  BY DEF IInv, LockInv
<1>3. /\ Lease(k, f) \in Slots /\ Lease(k, f) # NoLease
      /\ c \in Made({"show"}) /\ c \in Orders /\ c.op = "show" /\ c.arg = e
      /\ c.lease = Lease(k, f)
  <2>1. Lease(k, f) \in Slots /\ Lease(k, f) # NoLease /\ Lease(k, f) \in Targets
    BY SlotsAre
  <2>2. "show" \in Kinds /\ 0 \in Nat
    BY DEF Kinds
  <2> QED BY <2>1, <2>2, CommandIs
<1> HIDE DEF c
<1>4. lastSleep \in Nat /\ cancelled \in Nat /\ cancelled <= lastSleep
  BY <1>2 DEF TypeOK, LeaseInv
<1>5. /\ e > 0 /\ cancelled # e /\ lock' # Unlocked /\ lock'.epoch = e
      /\ lock'.lease = Lease(k, f)
  BY <1>1, <1>4 DEF Unlocked
<1>6. Grows(commands, commands', Made({"show", "pen"}))
  BY <1>1, <1>2, <1>3, FencedGrows DEF EnqueueFenced, Kinds
<1>7. commands' \in Seq(Orders) /\ RegisterInv'
  <2>1. \A d \in Made({"show", "pen"}) : d.op # "register"
    BY DEF Made
  <2> QED BY <1>1, <1>2, <1>6, <2>1, RegisterGrows DEF Glassy, Grows
<1>8. /\ Len(commands) \in Nat /\ Len(commands') \in Nat /\ Len(commands) <= Len(commands')
      /\ \A i \in 1..Len(commands) : commands'[i] = commands[i] /\ commands[i].op # "show"
  BY <1>1, <1>2, <1>6 DEF Grows, TypeOK, QueuedInv
<1>9. \A i \in 1..Len(commands') : i > Len(commands) =>
        \/ i = Len(commands) + 1 /\ commands'[i] = c
        \/ commands'[i].op = "pen"
  <2> DEFINE q == Append(commands, c)
  <2>1. /\ q \in Seq(Orders) /\ Len(q) = Len(commands) + 1 /\ q[Len(commands) + 1] = c
    BY <1>2, <1>3 DEF TypeOK
  <2> HIDE DEF q
  <2>2. Grows(q, commands', Pens)
    BY <1>1, <1>2, <2>1, CancelGrows DEF EnqueueFenced, q
  <2>3. \A i \in 1..Len(commands') : i > Len(q) => commands'[i].op = "pen"
    BY <2>2 DEF Grows, Pens, Made
  <2>4. Len(q) \in 1..Len(q) => commands'[Len(q)] = q[Len(q)]
    BY <2>2 DEF Grows
  <2> QED BY <1>8, <2>1, <2>3, <2>4
<1>10. QueuedInv'
  <2> SUFFICES ASSUME NEW i \in 1..Len(commands'), commands'[i].op = "show"
               PROVE  /\ lock' # Unlocked /\ commands'[i].arg = lock'.epoch
                      /\ commands'[i].lease = lock'.lease /\ cancelled' # lock'.epoch
                      /\ \A j \in 1..Len(commands') : i < j => Tame(commands'[j])
    BY DEF QueuedInv
  <2>1. i = Len(commands) + 1 /\ commands'[i] = c
    BY <1>8, <1>9
  <2>2. \A j \in 1..Len(commands') : i < j => Tame(commands'[j])
    BY <1>8, <1>9, <2>1 DEF Tame
  <2> QED BY <1>1, <1>3, <1>5, <2>1, <2>2 DEF Glassy
<1>11. FrozenInv'
  BY <1>1, <1>2 DEF FrozenInv, Glassy
<1>12. GlassInv'
  BY <1>1, <1>2 DEF GlassInv, Glassy
<1>13. InputTypes' /\ InputInv' /\ ContactsBalanced'
  BY <1>1, FenceEmpties DEF EnqueueFenced
<1>14. fences' \in [Keys -> Nat] /\ AcceptInv' /\ Lease(k, f) \notin deferred
  <2>1. /\ fences' \in [Keys -> Nat] /\ Accepted(Lease(k, f))' /\ Lease(k, f) \notin deferred
        /\ \A l \in deferred' : l.fence <= fences'[l.key]
    BY <1>1, FencesRise
  <2> QED BY <1>1, <2>1 DEF AcceptInv, Accepted
<1>15. LeaseInv'
  BY <1>1, <1>3, <1>4, <1>5, <1>14 DEF LeaseInv, Glassy, Idle
<1>16. TypeOK'
  <2>1. lock' \in [epoch : Nat, lease : Slots]
    BY <1>1, <1>3
  <2> QED BY <1>1, <1>2, <1>3, <1>7, <1>13, <1>14, <2>1, TypesAre DEF TypeOK
<1> QED BY <1>7, <1>10, <1>11, <1>12, <1>13, <1>14, <1>15, <1>16 DEF IInv, LockInv

(* The host unlocks what the panel has cancelled: nothing of it is left.   *)
LEMMA UnlockKeeps ==
  ASSUME IInv, Glassy, Unlock, lock # Unlocked, cancelled = lock.epoch, waiting' = Idle,
         UNCHANGED <<commands, deferred, client, lives, alive, foreground, prepared, lastSleep,
                     fences>>
  PROVE  IInv'
<1>1. TypeOK /\ AcceptInv /\ LeaseInv /\ QueuedInv /\ FrozenInv /\ RegisterInv /\ GlassInv
  BY DEF IInv, LockInv
<1>2. lock' = Unlocked
  BY DEF Unlock
<1>3. QueuedInv' /\ FrozenInv'
  BY <1>1 DEF QueuedInv, FrozenInv, Glassy
<1>4. RegisterInv'
  BY <1>1 DEF RegisterInv, Free, Of, Glassy
<1>5. GlassInv'
  BY <1>1 DEF GlassInv, Glassy
<1>6. InputTypes' /\ InputInv' /\ ContactsBalanced'
  BY FenceEmpties DEF Unlock
<1>7. AcceptInv'
  BY <1>1 DEF AcceptInv, Accepted
<1>8. LeaseInv'
  BY <1>1, <1>2 DEF LeaseInv, Unlocked, Glassy, Idle, TypeOK
<1>9. TypeOK'
  <2>1. lock' \in [epoch : Nat, lease : Slots]
    BY <1>2, SlotsAre DEF Unlocked
  <2> QED BY <1>1, <1>6, <2>1, TypesAre DEF TypeOK
<1> QED BY <1>3, <1>4, <1>5, <1>6, <1>7, <1>8, <1>9 DEF IInv, LockInv

LEMMA HostCancelLockKeeps ==
  ASSUME IInv, NEW n \in Nat, HostCancelLock(n)
  PROVE  IInv'
<1> DEFINE c == Command("cancel", lock.lease, lock.epoch, n)
<1>1. /\ lock # Unlocked /\ waiting = Idle
      /\ UNCHANGED <<deferred, client, lives, alive, foreground, prepared, lastSleep, fences>>
      /\ Glassy
  BY DEF HostCancelLock, Control, OpsFree, panelRest, telemetry, clientVars, Glassy
<1>2. \/ cancelled = lock.epoch /\ Unlock /\ UNCHANGED <<commands, waiting>>
      \/ /\ Enqueue(c)
         /\ waiting' = [op |-> "cancel", lease |-> lock.lease, arg |-> lock.epoch]
         /\ UNCHANGED <<active, pen, captured, held, lock>>
  BY DEF HostCancelLock, inputVars
<1>3. CASE cancelled = lock.epoch /\ Unlock /\ UNCHANGED <<commands, waiting>>
  BY <1>1, <1>3, UnlockKeeps
<1>4. CASE /\ Enqueue(c)
           /\ waiting' = [op |-> "cancel", lease |-> lock.lease, arg |-> lock.epoch]
           /\ UNCHANGED <<active, pen, captured, held, lock>>
  <2>1. TypeOK /\ LeaseInv
    BY DEF IInv, LockInv
  <2>2. lock.lease \in Targets /\ lock.epoch \in Nat
    BY <1>1, <2>1, SlotsAre DEF TypeOK, LeaseInv
  <2>3. c \in Made({"cancel"})
    BY <2>2, CommandIs DEF Kinds
  <2> HIDE DEF c
  <2>4. LeaseInv'
    BY <1>1, <1>4, <2>1 DEF LeaseInv, Glassy
  <2> QED BY <1>1, <1>4, <2>3, <2>4, SendsAside DEF Kinds
<1> QED BY <1>2, <1>3, <1>4

(* A step that touches nothing of the panel, the leases and the contacts.  *)
LEMMA NothingSent ==
  ASSUME IInv, Glassy, UNCHANGED <<commands, active, pen, held, foreground, prepared, lock,
                                   lastSleep, fences, deferred, lives, client, alive>>,
         captured' \in Seq(Frames), waiting' \in {waiting, Idle}
  PROVE  IInv'
<1>1. TypeOK /\ AcceptInv /\ LeaseInv /\ InputInv /\ ContactsBalanced
  BY DEF IInv, LockInv
<1>2. commands' \in Seq(Orders) /\ QueuedInv' /\ FrozenInv' /\ RegisterInv' /\ GlassInv'
  BY ChannelRests
<1>3. InputInv' /\ ContactsBalanced' /\ InputTypes'
  BY <1>1 DEF InputInv, ContactsBalanced, Lifted, InputTypes, TypeOK
<1>4. AcceptInv' /\ LeaseInv'
  BY <1>1 DEF AcceptInv, Accepted, LeaseInv, Glassy, Idle
<1>5. TypeOK'
  BY <1>1, <1>2, <1>3, TypesAre DEF TypeOK
<1> QED BY <1>2, <1>3, <1>4, <1>5 DEF IInv, LockInv

LEMMA HostAcknowledgedKeeps ==
  ASSUME IInv, HostAcknowledged
  PROVE  IInv'
<1>1. /\ Acknowledged /\ waiting' = Idle
      /\ \/ waiting.op = "ink" /\ UNCHANGED <<active, pen, captured, held, lock>>
         \/ waiting.op = "cancel" /\ Unlock
      /\ UNCHANGED <<commands, deferred, client, lives, alive, foreground, prepared, lastSleep,
                     fences>>
      /\ Glassy
  BY DEF HostAcknowledged, panelRest, telemetry, clientVars, inputVars, Glassy
<1>2. CASE waiting.op = "ink" /\ UNCHANGED <<active, pen, captured, held, lock>>
  BY <1>1, <1>2, NothingSent DEF IInv, TypeOK
<1>3. CASE waiting.op = "cancel" /\ Unlock
  <2>1. cancelled = lock.epoch /\ lock # Unlocked
    BY <1>1, <1>3 DEF Acknowledged, IInv, LockInv, LeaseInv
  <2> QED BY <1>1, <1>3, <2>1, UnlockKeeps
<1> QED BY <1>1, <1>2, <1>3

LEMMA HostGivesUpKeeps ==
  ASSUME IInv, HostGivesUp
  PROVE  IInv'
<1>1. /\ waiting' = Idle
      /\ UNCHANGED <<commands, active, pen, captured, held, foreground, prepared, lock, lastSleep,
                     fences, deferred, lives, client, alive>>
      /\ Glassy
  BY DEF HostGivesUp, panelVars, telemetry, clientVars, inputVars, leaseVars, Glassy
<1> QED BY <1>1, NothingSent DEF IInv, TypeOK

LEMMA ManagerKeeps ==
  ASSUME IInv, Manager
  PROVE  IInv'
<1>1. \A k \in Keys : \A f \in NextFence(k) : f \in Nat
  BY PanelAssumption DEF NextFence
<1>2. ASSUME NEW k \in Keys, NEW f \in NextFence(k), HostSet(k, f) \/ HostPrepare(k, f)
      PROVE  IInv'
  BY <1>1, <1>2, HostSetKeeps, HostPrepareKeeps
<1>3. ASSUME NEW on \in BOOLEAN, HostActivate(on) \/ HostInk(on) PROVE IInv'
  BY <1>3, HostActivateKeeps, HostInkKeeps
<1>4. CASE HostClear \/ HostRefresh
  BY <1>4, HostClearKeeps, HostRefreshKeeps
<1>5. ASSUME NEW f \in NextFence(Home), NEW e \in 1..MaxSleep, HostShowLock(Home, f, e)
      PROVE  IInv'
  BY <1>1, <1>5, HostAssumption, HostShowLockKeeps
<1>6. ASSUME NEW n \in 1..MaxCommits, HostCancelLock(n) PROVE IInv'
  BY <1>6, HostAssumption, HostCancelLockKeeps
<1> QED BY <1>2, <1>3, <1>4, <1>5, <1>6 DEF Manager

-----------------------------------------------------------------------------
(***************************************************************************)
(* The clients' threads                                                    *)
(***************************************************************************)
(* What they share with the leases and the contacts.                       *)
Hosting == UNCHANGED <<foreground, prepared, lock, lastSleep, fences, waiting>>

(* A new client is told nothing before its reply.                          *)
LEMMA RegisterKeeps ==
  ASSUME IInv, NEW k \in Keys, Register(k)
  PROVE  IInv'
<1> DEFINE c == Surface("register", k, lives + 1)
<1>1. /\ client[k] = "none" /\ Enqueue(c) /\ client' = [client EXCEPT ![k] = "new"]
      /\ lives' = lives + 1
      /\ UNCHANGED <<active, pen, captured, held, deferred, alive>> /\ Hosting /\ Glassy
  BY DEF Register, panelKeeps, telemetry, inputVars, hostKeeps, leaseVars, Glassy, Hosting
<1>2. /\ TypeOK /\ AcceptInv /\ LeaseInv /\ InputInv /\ QueuedInv /\ FrozenInv /\ RegisterInv
      /\ GlassInv
  BY DEF IInv, LockInv
<1>3. c \in Made({"register"}) /\ c \in Orders /\ c.op = "register" /\ c.lease.key = k
  <2>1. Lease(k, 0) \in Targets /\ Lease(k, 0).key = k
    BY SlotsAre
  <2>2. "register" \in Kinds /\ 0 \in Nat
    BY DEF Kinds
  <2>3. PICK n \in Nat : n = lives + 1
    BY <1>2 DEF TypeOK
  <2>4. /\ Command("register", Lease(k, 0), n, 0) \in Made({"register"})
        /\ Command("register", Lease(k, 0), n, 0) \in Orders
        /\ Command("register", Lease(k, 0), n, 0).op = "register"
        /\ Command("register", Lease(k, 0), n, 0).lease = Lease(k, 0)
    BY <2>1, <2>2, CommandIs
  <2> QED BY <2>1, <2>3, <2>4 DEF Surface
<1> HIDE DEF c
<1>4. alive /\ commands' = Append(commands, c)
  BY <1>1 DEF Enqueue, Room
<1>5. Grows(commands, commands', Made({"register"}))
  BY <1>2, <1>3, <1>4, Appends DEF TypeOK
<1>6. QueuedInv' /\ FrozenInv'
  <2>1. \A d \in Made({"register"}) : Tame(d)
    BY DEF Made, Tame
  <2> QED BY <1>1, <1>2, <1>5, <2>1, QueueGrows DEF Glassy, Hosting
<1>7. RegisterInv'
  BY <1>1, <1>2, <1>3, <1>4, RegisterFirst DEF Glassy
<1>8. GlassInv'
  BY <1>1, <1>2 DEF GlassInv, Glassy
<1>9. client' \in [Keys -> {"none", "new", "on", "deaf"}]
  BY <1>1, <1>2 DEF TypeOK
<1>10. InputTypes' /\ InputInv' /\ ContactsBalanced'
  <2>1. \A q \in Keys : client'[q] = client[q] \/ held[q] = {}
    BY <1>1, <1>2 DEF InputInv, TypeOK
  <2> QED BY <1>1, <2>1, InputRests DEF Hosting
<1>11. AcceptInv' /\ LeaseInv'
  BY <1>1, <1>2 DEF AcceptInv, Accepted, LeaseInv, Glassy, Hosting
<1>12. TypeOK'
  BY <1>1, <1>2, <1>5, <1>9, <1>10 DEF TypeOK, InputTypes, Glassy, Hosting, Grows
<1> QED BY <1>6, <1>7, <1>8, <1>10, <1>11, <1>12 DEF IInv, LockInv

(* A client's state changes while it holds nothing or does not hear.       *)
LEMMA ClientTurns ==
  ASSUME IInv, Hosting, Glassy, NEW k \in Keys, NEW new \in {"on", "deaf"},
         client[k] \in {"new", "on"}, new = "on" => client[k] = "new",
         client' = [client EXCEPT ![k] = new],
         UNCHANGED <<commands, active, pen, captured, held, deferred, lives, alive>>
  PROVE  IInv'
<1>1. /\ TypeOK /\ AcceptInv /\ LeaseInv /\ InputInv /\ ContactsBalanced /\ QueuedInv /\ FrozenInv
      /\ RegisterInv /\ GlassInv
  BY DEF IInv, LockInv
<1>2. client' \in [Keys -> {"none", "new", "on", "deaf"}]
  BY <1>1 DEF TypeOK
<1>3. \A q \in Keys : /\ client'[q] = "none" => client[q] = "none"
                      /\ client'[q] = "new" => client[q] = "new"
                      /\ client'[q] = "on" => client[q] = "on" \/ held[q] = {}
  BY <1>1 DEF TypeOK, InputInv
<1>4. QueuedInv' /\ FrozenInv'
  BY <1>1 DEF QueuedInv, FrozenInv, Glassy, Hosting
<1>5. RegisterInv'
  BY <1>1, <1>3 DEF RegisterInv, Free, Of, Glassy
<1>6. GlassInv'
  BY <1>1 DEF GlassInv, Glassy
<1>7. InputInv'
  BY <1>1, <1>3 DEF InputInv, Hosting
<1>8. ContactsBalanced'
  BY <1>1, <1>3 DEF ContactsBalanced, Lifted, Hosting
<1>9. AcceptInv' /\ LeaseInv'
  BY <1>1 DEF AcceptInv, Accepted, LeaseInv, Glassy, Hosting
<1>10. TypeOK'
  BY <1>1, <1>2 DEF TypeOK, Glassy, Hosting
<1> QED BY <1>4, <1>5, <1>6, <1>7, <1>8, <1>9, <1>10 DEF IInv, LockInv

LEMMA ActivateClientKeeps ==
  ASSUME IInv, NEW k \in Keys, ActivateClient(k)
  PROVE  IInv'
BY ClientTurns DEF ActivateClient, panelVars, telemetry, inputVars, hostKeeps, leaseVars, Glassy,
                   Hosting

LEMMA OverflowKeeps ==
  ASSUME IInv, NEW k \in Keys, Overflow(k)
  PROVE  IInv'
BY ClientTurns DEF Overflow, panelVars, telemetry, inputVars, hostKeeps, leaseVars, Glassy, Hosting

(* The drop of a surface that its client has left.                         *)
LEMMA DropIs ==
  ASSUME TypeOK, NEW k \in Keys
  PROVE  /\ Surface("drop", k, 0) \in Made({"drop"}) /\ Surface("drop", k, 0) \in Orders
         /\ Surface("drop", k, 0).op = "drop" /\ Surface("drop", k, 0).lease.key = k
<1>1. Lease(k, 0) \in Targets /\ Lease(k, 0).key = k
  BY SlotsAre
<1>2. "drop" \in Kinds /\ 0 \in Nat
  BY DEF Kinds
<1> QED BY <1>1, <1>2, CommandIs DEF Surface

(* Commands behind that drop, or the end of the process.                   *)
LEMMA GoneKeeps ==
  ASSUME IInv, Glassy, NEW k \in Keys, NEW S, Grows(commands, commands', S),
         \A c \in S : c.op \notin {"register", "show"} /\ (Tame(c) \/ lock = Unlocked),
         UNCHANGED lock, client' = [client EXCEPT ![k] = "none"],
         alive' => /\ alive /\ Len(commands) < Len(commands')
                   /\ commands'[Len(commands) + 1] = Surface("drop", k, 0)
  PROVE  commands' \in Seq(Orders) /\ QueuedInv' /\ FrozenInv' /\ RegisterInv' /\ GlassInv'
<1>1. TypeOK
  BY DEF IInv
<1>2. \A q \in Keys : client'[q] = "none" =>
        \/ client[q] = "none" \/ ~alive'
        \/ \E j \in 1..Len(commands') : j > Len(commands) /\ Of("drop", q, j)'
  <2> SUFFICES ASSUME alive'
               PROVE  \E j \in 1..Len(commands') : j > Len(commands) /\ Of("drop", k, j)'
    BY <1>1 DEF TypeOK
  <2>1. PICK j \in 1..Len(commands') : j = Len(commands) + 1
    BY <1>1 DEF Grows, TypeOK
  <2>2. j > Len(commands) /\ commands'[j] = Surface("drop", k, 0)
    BY <1>1, <2>1 DEF TypeOK
  <2> QED BY <1>1, <2>2, DropIs DEF Of
<1> QED BY <1>2, ChannelGrows

LEMMA AbortRegistrationKeeps ==
  ASSUME IInv, NEW k \in Keys, AbortRegistration(k)
  PROVE  IInv'
<1> DEFINE c == Surface("drop", k, 0)
<1>1. /\ client[k] = "new" /\ client' = [client EXCEPT ![k] = "none"]
      /\ \/ Enqueue(c) /\ UNCHANGED alive
         \/ ~alive' /\ UNCHANGED commands
      /\ UNCHANGED <<active, pen, captured, held, deferred, lives>> /\ Hosting /\ Glassy
  BY DEF AbortRegistration, Gone, FailClosed, panelKeeps, telemetry, inputVars, hostKeeps, leaseVars,
         Glassy, Hosting
<1>2. TypeOK /\ AcceptInv /\ LeaseInv /\ InputInv
  BY DEF IInv, LockInv
<1>3. c \in Made({"drop"}) /\ c \in Orders
  BY <1>2, DropIs
<1> HIDE DEF c
<1>4. /\ Grows(commands, commands', Made({"drop"}))
      /\ alive' => /\ alive /\ Len(commands) < Len(commands')
                   /\ commands'[Len(commands) + 1] = c
  <2>1. commands \in Seq(Orders)
    BY <1>2 DEF TypeOK
  <2>2. CASE Enqueue(c) /\ UNCHANGED alive
    <3>1. commands' = Append(commands, c) /\ alive
      BY <2>2 DEF Enqueue, Room
    <3>2. Len(commands) < Len(commands') /\ commands'[Len(commands) + 1] = c
      BY <1>3, <2>1, <3>1
    <3> QED BY <1>3, <2>1, <3>1, <3>2, Appends
  <2>3. CASE ~alive' /\ UNCHANGED commands
    BY <1>3, <2>1, <2>3, Appends
  <2> QED BY <1>1, <2>2, <2>3
<1>5. \A d \in Made({"drop"}) : d.op \notin {"register", "show"} /\ Tame(d)
  BY DEF Made, Tame
<1>6. commands' \in Seq(Orders) /\ QueuedInv' /\ FrozenInv' /\ RegisterInv' /\ GlassInv'
  BY <1>1, <1>4, <1>5, GoneKeeps DEF Hosting, c
<1>7. client' \in [Keys -> {"none", "new", "on", "deaf"}]
  BY <1>1, <1>2 DEF TypeOK
<1>8. InputTypes' /\ InputInv' /\ ContactsBalanced'
  <2>1. \A q \in Keys : client'[q] = client[q] \/ held[q] = {}
    BY <1>1, <1>2 DEF InputInv, TypeOK
  <2> QED BY <1>1, <2>1, InputRests DEF Hosting
<1>9. AcceptInv' /\ LeaseInv'
  BY <1>1, <1>2 DEF AcceptInv, Accepted, LeaseInv, Glassy, Hosting
<1>10. TypeOK'
  BY <1>1, <1>2, <1>6, <1>7, <1>8 DEF TypeOK, InputTypes, Glassy, Hosting
<1> QED BY <1>6, <1>8, <1>9, <1>10 DEF IInv, LockInv

(* Without a lock a client takes its foreground along, and with it every   *)
(* contact; the clear comes behind the drop and the cancelled stroke.      *)
LEMMA UnregisterKeeps ==
  ASSUME IInv, NEW k \in Keys, Unregister(k)
  PROVE  IInv'
<1> DEFINE c == Surface("drop", k, 0)
           q == CancelStroke(Append(commands, c))
<1>1. /\ client' = [client EXCEPT ![k] = "none"] /\ held' = [held EXCEPT ![k] = {}]
      /\ prepared' = (IF prepared.key = k THEN NoLease ELSE prepared)
      /\ Fenced(k) /\ alive
      /\ UNCHANGED <<deferred, lives, lock, lastSleep, fences, waiting>> /\ Glassy
  BY DEF Unregister, OpsFree, Gone, panelKeeps, telemetry, Glassy
<1>2. \/ /\ Clears(k) /\ commands' = Append(q, Plain("clear", foreground))
         /\ foreground' = NoLease
      \/ /\ ~Clears(k) /\ commands' = Append(commands, c) /\ UNCHANGED foreground
      \/ ~alive' /\ UNCHANGED <<commands, foreground>>
  BY DEF Unregister, FailClosed
<1>3. /\ TypeOK /\ AcceptInv /\ LeaseInv /\ InputInv /\ ContactsBalanced
  BY DEF IInv, LockInv
<1>4. c \in Made({"drop"}) /\ c \in Orders
  BY <1>3, DropIs
<1> HIDE DEF c, q
<1>5. Clears(k) => lock = Unlocked /\ foreground.key = k
  BY <1>3 DEF Clears, LeaseInv
<1>6. client' \in [Keys -> {"none", "new", "on", "deaf"}]
  BY <1>1, <1>3 DEF TypeOK
<1>7. commands' \in Seq(Orders) /\ QueuedInv' /\ FrozenInv' /\ RegisterInv' /\ GlassInv'
  <2>1. commands \in Seq(Orders) /\ Append(commands, c) \in Seq(Orders)
    BY <1>3, <1>4 DEF TypeOK
  <2>2. /\ Len(Append(commands, c)) = Len(commands) + 1 /\ Len(commands) \in Nat
        /\ Append(commands, c)[Len(commands) + 1] = c
    BY <1>4, <2>1
  <2>3. Grows(commands, Append(commands, c), Made({"drop"}))
    BY <1>4, <2>1, Appends
  <2>4. CASE /\ Clears(k) /\ commands' = Append(q, Plain("clear", foreground))
             /\ foreground' = NoLease
    <3>1. Plain("clear", foreground) \in Made({"clear"}) /\ Plain("clear", foreground) \in Orders
      <4>1. foreground \in Targets
        BY <1>3, <1>5, <2>4, SlotsAre DEF TypeOK
      <4>2. "clear" \in Kinds /\ 0 \in Nat
        BY DEF Kinds
      <4> QED BY <4>1, <4>2, CommandIs DEF Plain
    <3>2. Grows(Append(commands, c), q, Pens)
      BY <1>3, <2>1, CancelGrows DEF q
    <3>3. Grows(q, commands', Made({"clear"}))
      <4>1. q \in Seq(Orders)
        BY <3>2 DEF Grows
      <4> QED BY <2>4, <3>1, <4>1, Appends
    <3>4. Grows(Append(commands, c), commands', Pens \cup Made({"clear"}))
      BY <2>1, <3>2, <3>3, GrowsOn
    <3>5. Grows(commands, commands', Made({"drop"}) \cup (Pens \cup Made({"clear"})))
      BY <2>1, <2>3, <3>4, GrowsOn
    <3>6. Len(commands) < Len(commands') /\ commands'[Len(commands) + 1] = c
      BY <2>2, <3>4 DEF Grows
    <3>7. \A d \in Made({"drop"}) \cup (Pens \cup Made({"clear"})) :
            d.op \notin {"register", "show"} /\ (Tame(d) \/ lock = Unlocked)
      BY <1>5, <2>4 DEF Made, Pens
    <3> QED BY <1>1, <3>5, <3>6, <3>7, GoneKeeps DEF c
  <2>5. CASE ~Clears(k) /\ commands' = Append(commands, c) /\ UNCHANGED foreground
    <3>1. Len(commands) < Len(commands') /\ commands'[Len(commands) + 1] = c
      BY <2>2, <2>5
    <3>2. \A d \in Made({"drop"}) : d.op \notin {"register", "show"} /\ Tame(d)
      BY DEF Made, Tame
    <3> QED BY <1>1, <2>3, <2>5, <3>1, <3>2, GoneKeeps DEF c
  <2>6. CASE ~alive' /\ UNCHANGED <<commands, foreground>>
    <3>1. Grows(commands, commands', Made({"drop"}))
      BY <1>4, <2>1, <2>6, Appends
    <3>2. \A d \in Made({"drop"}) : d.op \notin {"register", "show"} /\ Tame(d)
      BY DEF Made, Tame
    <3> QED BY <1>1, <2>6, <3>1, <3>2, GoneKeeps
  <2> QED BY <1>2, <2>4, <2>5, <2>6
<1>8. InputTypes'
  <2>1. captured' \in Seq(Frames)
    BY <1>1, <1>3, StaleFrames DEF TypeOK, Fenced, inputVars
  <2>2. active' \subseteq Contacts /\ pen' \in Slots
    BY <1>1, <1>3, SlotsAre DEF TypeOK, Fenced, inputVars
  <2>3. held' \in [Keys -> SUBSET (Contacts \cup Strokes)]
    BY <1>1, <1>3 DEF TypeOK
  <2> QED BY <2>1, <2>2, <2>3 DEF InputTypes
<1>9. \A j \in Keys : /\ j # k => client'[j] = client[j] /\ held'[j] = held[j]
                      /\ client'[k] = "none" /\ held'[k] = {}
  BY <1>1, <1>3 DEF TypeOK
<1>10. InputInv' /\ ContactsBalanced'
  <2>1. CASE Clears(k)
    <3>1. pen' = NoLease /\ active' = {}
      BY <1>1, <2>1 DEF Fenced
    <3>2. ASSUME NEW j \in Keys, j # k, client[j] = "on" PROVE held[j] = {}
      <4>1. foreground.key # j /\ pen.key # j
        BY <1>3, <1>5, <2>1, <3>2, SlotsAre DEF InputInv
      <4> QED BY <1>3, <3>2, <4>1 DEF ContactsBalanced, Lifted
    <3> QED BY <1>3, <1>9, <3>1, <3>2 DEF InputInv, ContactsBalanced
  <2>2. CASE ~Clears(k)
    <3>1. UNCHANGED <<active, pen, foreground>>
      BY <1>1, <1>2, <2>2 DEF Fenced, inputVars
    <3> QED BY <1>1, <1>3, <1>9, <3>1 DEF InputInv, ContactsBalanced, Lifted
  <2> QED BY <2>1, <2>2
<1>11. AcceptInv'
  BY <1>1, <1>2, <1>3 DEF AcceptInv, Accepted
<1>12. LeaseInv'
  <2>1. lock # Unlocked => foreground' = foreground
    BY <1>2, <1>5
  <2> QED BY <1>1, <2>1, LeaseRests DEF Glassy
<1>13. TypeOK'
  <2>1. {foreground', prepared'} \subseteq Slots
    BY <1>1, <1>2, <1>3, SlotsAre DEF TypeOK
  <2> QED BY <1>1, <1>3, <1>6, <1>7, <1>8, <2>1 DEF TypeOK, InputTypes, Glassy
<1> QED BY <1>7, <1>8, <1>10, <1>11, <1>12, <1>13 DEF IInv, LockInv

LEMMA DrawKeeps ==
  ASSUME IInv, NEW k \in Keys, Draw(k)
  PROVE  IInv'
<1>1. /\ Glassy
      /\ UNCHANGED <<commands, active, pen, captured, held, foreground, prepared, lock, lastSleep,
                     fences, deferred, lives, client, alive, waiting>>
  BY DEF Draw, panelVars, telemetry, inputVars, hostKeeps, leaseVars, Glassy
<1> QED BY <1>1, NothingSent DEF IInv, TypeOK

(* Damage is deferred for the accepted foreground, and never for a lock.   *)
LEMMA PassDamageKeeps ==
  ASSUME IInv, NEW k \in Keys, PassDamage(k)
  PROVE  IInv'
<1>1. /\ UNCHANGED <<active, pen, captured, held, lives, client, alive>> /\ Hosting /\ Glassy
      /\ \/ lock = Unlocked /\ foreground.key = k
            /\ \/ Enqueue(Plain("damage", foreground)) /\ UNCHANGED deferred
               \/ deferred' = deferred \cup {foreground} /\ UNCHANGED commands
         \/ UNCHANGED <<commands, deferred>>
  BY DEF PassDamage, Passes, Defer, panelKeeps, telemetry, inputVars, hostKeeps, leaseVars, Hosting,
         Glassy
<1>2. TypeOK /\ AcceptInv /\ LeaseInv
  BY DEF IInv, LockInv
<1>3. foreground.key = k => foreground \in Targets /\ foreground # NoLease
  BY <1>2, SlotsAre DEF TypeOK
<1>4. commands' \in Seq(Orders) /\ QueuedInv' /\ FrozenInv' /\ RegisterInv' /\ GlassInv'
  <2>1. CASE lock = Unlocked /\ foreground.key = k /\ Enqueue(Plain("damage", foreground))
    <3>1. Plain("damage", foreground) \in Made({"damage"})
      <4>1. "damage" \in Kinds /\ 0 \in Nat
        BY DEF Kinds
      <4> QED BY <1>3, <2>1, <4>1, CommandIs DEF Plain
    <3> QED BY <1>1, <2>1, <3>1, SendsOne DEF Kinds, Hosting
  <2>2. CASE UNCHANGED commands
    BY <1>1, <2>2, ChannelRests DEF Hosting
  <2> QED BY <1>1, <2>1, <2>2
<1>5. InputTypes' /\ InputInv' /\ ContactsBalanced'
  BY <1>1, InputRests DEF Hosting
<1>6. /\ deferred' \subseteq Targets
      /\ \A l \in deferred' : l \in deferred \/ (lock = Unlocked /\ l = foreground /\ l # NoLease)
  BY <1>1, <1>2, <1>3 DEF TypeOK
<1>7. AcceptInv'
  BY <1>1, <1>2, <1>6 DEF AcceptInv, Accepted, Hosting
<1>8. LeaseInv'
  BY <1>1, <1>6, LeaseRests DEF Hosting, Glassy
<1>9. TypeOK'
  BY <1>1, <1>2, <1>4, <1>5, <1>6, TypesAre DEF TypeOK, Hosting
<1> QED BY <1>4, <1>5, <1>7, <1>8, <1>9 DEF IInv, LockInv

LEMMA RequestFullRefreshKeeps ==
  ASSUME IInv, NEW k \in Keys, RequestFullRefresh(k)
  PROVE  IInv'
<1>1. /\ lock = Unlocked /\ foreground.key = k /\ Enqueue(Plain("full", foreground))
      /\ UNCHANGED <<active, pen, captured, held, foreground, prepared, lock, lastSleep, fences,
                     deferred, client, lives, alive, waiting>>
      /\ Glassy
  BY DEF RequestFullRefresh, Passes, panelKeeps, telemetry, clientVars, inputVars, leaseVars, Glassy
<1>2. foreground \in Targets
  BY <1>1, SlotsAre DEF IInv, TypeOK
<1>3. Plain("full", foreground) \in Made({"full"})
  <2>1. "full" \in Kinds /\ 0 \in Nat
    BY DEF Kinds
  <2> QED BY <1>2, <2>1, CommandIs DEF Plain
<1>4. LeaseInv'
  BY <1>1, LeaseRests DEF Glassy
<1> QED BY <1>1, <1>3, <1>4, SendsAside DEF Kinds

LEMMA ClientKeeps ==
  ASSUME IInv, NEW k \in Keys, Client(k)
  PROVE  IInv'
BY RegisterKeeps, ActivateClientKeeps, AbortRegistrationKeeps, UnregisterKeeps, DrawKeeps,
   PassDamageKeeps, RequestFullRefreshKeeps, OverflowKeeps DEF Client

-----------------------------------------------------------------------------
(***************************************************************************)
(* Input                                                                   *)
(***************************************************************************)
LEMMA HandKeeps ==
  ASSUME IInv, NEW c \in Contacts \cup Strokes, NEW phase \in {"down", "up"}, Hand(c, phase)
  PROVE  IInv'
<1>1. /\ Glassy /\ captured' = Append(captured, Frame(c, phase))
      /\ UNCHANGED <<commands, active, pen, held, foreground, prepared, lock, lastSleep, fences,
                     deferred, lives, client, alive, waiting>>
  BY DEF Hand, panelVars, telemetry, clientVars, leaseVars, Glassy
<1>2. captured' \in Seq(Frames)
  <2>1. Frame(c, phase) \in Frames /\ captured \in Seq(Frames)
    BY DEF Frame, Frames, IInv, TypeOK
  <2> QED BY <1>1, <2>1
<1> QED BY <1>1, <1>2, NothingSent

(* What a routed touch changes stays balanced for the foreground's client, *)
(* and concerns no other.                                                  *)
LEMMA RouteTouchKeeps ==
  ASSUME IInv, NEW f \in Frames, Routable, RouteTouch(f), captured' \in Seq(Frames),
         UNCHANGED <<client, foreground, prepared>>
  PROVE  InputTypes' /\ InputInv' /\ ContactsBalanced' /\ UNCHANGED commands
<1>1. TypeOK /\ InputInv /\ ContactsBalanced
  BY DEF IInv
<1>2. foreground \in Slots /\ foreground # NoLease /\ foreground.key \in Keys /\ prepared = NoLease
  BY <1>1, SlotsAre DEF TypeOK, Routable, RequestedOnly
<1>3. f.contact \in Contacts /\ UNCHANGED <<pen, commands>>
  BY DEF RouteTouch
<1>4. \/ active' = active \cup {f.contact} /\ Press(foreground.key, f.contact)
      \/ active' = active \ {f.contact} /\ Release(foreground.key, {f.contact})
      \/ UNCHANGED <<active, held>>
  BY DEF RouteTouch
<1>5. InputTypes'
  <2>1. active' \subseteq Contacts /\ pen' \in Slots
    BY <1>1, <1>3, <1>4 DEF TypeOK
  <2>2. held' \in [Keys -> SUBSET (Contacts \cup Strokes)]
    BY <1>1, <1>2, <1>3, <1>4 DEF TypeOK, Press, Release
  <2> QED BY <2>1, <2>2 DEF InputTypes
<1>6. ASSUME NEW k \in Keys, client[k] = "on"
      PROVE  /\ k = foreground.key =>
                  \/ held'[k] = held[k] \cup {f.contact} /\ active' = active \cup {f.contact}
                  \/ held'[k] = held[k] \ {f.contact} /\ active' = active \ {f.contact}
                  \/ held'[k] = held[k] /\ active' = active
             /\ k # foreground.key => held'[k] = held[k]
  BY <1>1, <1>2, <1>4, <1>6 DEF TypeOK, Press, Release, Hears
<1>7. ContactsBalanced'
  BY <1>1, <1>3, <1>6 DEF ContactsBalanced, Lifted
<1>8. InputInv'
  <2>1. \A k \in Keys : client[k] \in {"none", "new"} => held'[k] = held[k]
    BY <1>1, <1>2, <1>4 DEF TypeOK, Press, Release, Hears
  <2> QED BY <1>1, <1>2, <1>3, <2>1 DEF InputInv
<1> QED BY <1>3, <1>5, <1>7, <1>8

LEMMA RoutePenKeeps ==
  ASSUME IInv, NEW f \in Frames, Routable, RoutePen(f), captured' \in Seq(Frames),
         UNCHANGED <<client, foreground, prepared>>
  PROVE  InputTypes' /\ InputInv' /\ ContactsBalanced' /\ Grows(commands, commands', Pens)
<1>1. TypeOK /\ InputInv /\ ContactsBalanced /\ commands \in Seq(Orders)
  BY DEF IInv, TypeOK
<1>2. /\ foreground \in Slots /\ foreground # NoLease /\ foreground.key \in Keys
      /\ foreground \in Targets /\ prepared = NoLease
  BY <1>1, SlotsAre DEF TypeOK, Routable, RequestedOnly
<1>3. f.contact \in Strokes /\ UNCHANGED active
  BY DEF RoutePen
<1>4. pen # NoLease => pen = foreground
  BY <1>1 DEF InputInv
<1>5. \/ /\ pen' = foreground /\ Press(foreground.key, f.contact)
         /\ commands' = Offer(CancelStroke(commands), Command("pen", foreground, 1, 0))
      \/ /\ pen' = NoLease /\ pen = foreground /\ Release(foreground.key, Strokes)
         /\ commands' = Offer(commands, Command("pen", foreground, 0, 0))
      \/ pen' = NoLease /\ pen # foreground /\ UNCHANGED <<held, commands>>
  BY DEF RoutePen
<1>6. InputTypes'
  <2>1. active' \subseteq Contacts /\ pen' \in Slots
    BY <1>1, <1>2, <1>3, <1>5, SlotsAre DEF TypeOK
  <2>2. held' \in [Keys -> SUBSET (Contacts \cup Strokes)]
    <3>1. held \in [Keys -> SUBSET (Contacts \cup Strokes)] /\ f.contact \in Strokes
      BY <1>1, <1>3 DEF TypeOK
    <3>2. CASE Press(foreground.key, f.contact)
      BY <1>2, <3>1, <3>2 DEF Press
    <3>3. CASE Release(foreground.key, Strokes)
      BY <1>2, <3>1, <3>3 DEF Release
    <3>4. CASE UNCHANGED held
      BY <3>1, <3>4
    <3> QED BY <1>5, <3>2, <3>3, <3>4
  <2> QED BY <2>1, <2>2 DEF InputTypes
<1>7. ASSUME NEW k \in Keys, client[k] = "on"
      PROVE  /\ k = foreground.key =>
                  \/ held'[k] = held[k] \cup {f.contact} /\ pen' = foreground
                  \/ held'[k] = held[k] \ Strokes
                  \/ held'[k] = held[k] /\ pen = NoLease
             /\ k # foreground.key => held'[k] = held[k]
  BY <1>1, <1>2, <1>4, <1>5, <1>7 DEF TypeOK, Press, Release, Hears
<1>8. ContactsBalanced'
  <2> SUFFICES ASSUME NEW k \in Keys, client[k] = "on"
               PROVE  held'[k] \subseteq (IF foreground.key = k THEN active ELSE {})
                                         \cup (IF pen'.key = k THEN Strokes ELSE {})
    BY <1>3 DEF ContactsBalanced, Lifted
  <2>1. held[k] \subseteq (IF foreground.key = k THEN active ELSE {})
                          \cup (IF pen.key = k THEN Strokes ELSE {})
    BY <1>1 DEF ContactsBalanced, Lifted
  <2>2. CASE k = foreground.key
    <3>1. pen = NoLease => pen.key # k
      BY SlotsAre
    <3> QED BY <1>3, <1>4, <1>7, <2>1, <2>2, <3>1
  <2>3. CASE k # foreground.key
    <3>1. pen.key # k
      BY <1>4, <2>3, SlotsAre
    <3> QED BY <1>7, <2>1, <2>3, <3>1
  <2> QED BY <2>2, <2>3
<1>9. InputInv'
  <2>1. \A k \in Keys : client[k] \in {"none", "new"} => held'[k] = held[k]
    BY <1>1, <1>2, <1>5 DEF TypeOK, Press, Release, Hears
  <2> QED BY <1>1, <1>2, <1>5, <2>1 DEF InputInv
<1>10. Grows(commands, commands', Pens)
  <2>1. CASE commands' = Offer(CancelStroke(commands), Command("pen", foreground, 1, 0))
    <3>1. Grows(commands, CancelStroke(commands), Pens) /\ CancelStroke(commands) \in Seq(Orders)
      BY <1>1, CancelGrows DEF Grows
    <3>2. Grows(CancelStroke(commands), commands', Pens)
      BY <1>2, <2>1, <3>1, OfferGrows
    <3>3. Grows(commands, commands', Pens \cup Pens)
      BY <1>1, <3>1, <3>2, GrowsOn
    <3> QED BY <3>3, GrowsMore
  <2>2. CASE commands' = Offer(commands, Command("pen", foreground, 0, 0))
    BY <1>1, <1>2, <2>2, OfferGrows
  <2>3. CASE UNCHANGED commands
    BY <1>1, <2>3 DEF Grows
  <2> QED BY <1>5, <2>1, <2>2, <2>3
<1> QED BY <1>6, <1>8, <1>9, <1>10

LEMMA DispatchKeeps ==
  ASSUME IInv, Dispatch
  PROVE  IInv'
<1> DEFINE f == Head(captured)
<1>1. /\ captured # <<>> /\ captured' = Tail(captured)
      /\ Suppress(f) \/ Discard(f) \/ (Routable /\ (RouteTouch(f) \/ RoutePen(f)))
      /\ UNCHANGED <<deferred, client, lives, alive>> /\ Hosting /\ Glassy
  BY DEF Dispatch, panelKeeps, telemetry, clientVars, leaseVars, Hosting, Glassy
<1>2. f \in Frames /\ captured' \in Seq(Frames)
  <2>1. captured \in Seq(Frames)
    BY DEF IInv, TypeOK
  <2> QED BY <1>1, <2>1
<1> HIDE DEF f
<1>3. CASE Suppress(f) \/ Discard(f)
  <2>1. UNCHANGED <<active, pen, held, commands>>
    BY <1>3 DEF Suppress, Discard
  <2> QED BY <1>1, <1>2, <2>1, NothingSent DEF Hosting
<1>4. CASE Routable /\ (RouteTouch(f) \/ RoutePen(f))
  <2>1. TypeOK /\ AcceptInv /\ LeaseInv /\ commands \in Seq(Orders)
    BY DEF IInv, LockInv, TypeOK
  <2>2. InputTypes' /\ InputInv' /\ ContactsBalanced' /\ Grows(commands, commands', Pens)
    <3>1. CASE RouteTouch(f)
      <4>1. UNCHANGED <<client, foreground, prepared>>
        BY <1>1 DEF Hosting
      <4>2. InputTypes' /\ InputInv' /\ ContactsBalanced' /\ UNCHANGED commands
        BY <1>2, <1>4, <3>1, <4>1, RouteTouchKeeps
      <4> QED BY <2>1, <4>2 DEF Grows
    <3>2. CASE RoutePen(f)
      BY <1>1, <1>2, <1>4, <3>2, RoutePenKeeps DEF Hosting
    <3> QED BY <1>4, <3>1, <3>2
  <2>3. \A d \in Pens : d.op \notin {"register", "show"} /\ Tame(d)
    BY DEF Pens, Made, Tame
  <2>4. commands' \in Seq(Orders) /\ QueuedInv' /\ FrozenInv' /\ RegisterInv' /\ GlassInv'
    BY <1>1, <2>2, <2>3, ChannelGrows DEF Hosting
  <2>5. AcceptInv' /\ LeaseInv'
    BY <1>1, <2>1 DEF AcceptInv, Accepted, LeaseInv, Hosting, Glassy
  <2>6. TypeOK'
    BY <1>1, <2>1, <2>2, <2>4, TypesAre DEF TypeOK, Hosting
  <2> QED BY <2>2, <2>4, <2>5, <2>6 DEF IInv, LockInv
<1> QED BY <1>1, <1>3, <1>4

-----------------------------------------------------------------------------
(***************************************************************************)
(* The invariant, and what it says                                         *)
(***************************************************************************)
LEMMA InitInv == Init => IInv
<1> SUFFICES ASSUME Init PROVE IInv
  OBVIOUS
<1>1. /\ commands = <<>> /\ surface = [k \in Keys |-> 0] /\ visible = NoLease /\ frozen = NotFrozen
      /\ committed = NoLease /\ cancelled = 0 /\ deferred = {} /\ lock = Unlocked
      /\ foreground = NoLease /\ prepared = NoLease /\ pen = NoLease /\ active = {}
      /\ captured = <<>> /\ held = [k \in Keys |-> {}] /\ client = [k \in Keys |-> "none"]
      /\ lives = 0 /\ lastSleep = 0 /\ fences = [k \in Keys |-> 0] /\ waiting = Idle
  BY DEF Init, PanelInit
<1>2. TypeOK
  BY <1>1, SlotsAre DEF TypeOK, Unlocked
<1>3. InputInv /\ ContactsBalanced
  BY <1>1 DEF InputInv, ContactsBalanced
<1>4. AcceptInv /\ LeaseInv
  BY <1>1 DEF AcceptInv, Accepted, LeaseInv, Unlocked, Idle
<1>5. QueuedInv /\ FrozenInv
  BY <1>1 DEF QueuedInv, FrozenInv, NotFrozen
<1>6. RegisterInv
  BY <1>1 DEF RegisterInv, Free, Of
<1>7. GlassInv
  BY <1>1 DEF GlassInv
<1> QED BY <1>2, <1>3, <1>4, <1>5, <1>6, <1>7 DEF IInv, LockInv

LEMMA NextInv == IInv /\ [Next]_vars => IInv'
<1> SUFFICES ASSUME IInv, [Next]_vars PROVE IInv'
  OBVIOUS
<1>1. CASE PanelThread \/ Fails
  BY <1>1, PanelThreadKeeps, FailsKeeps
<1>2. CASE Manager \/ HostAcknowledged \/ HostGivesUp
  BY <1>2, ManagerKeeps, HostAcknowledgedKeeps, HostGivesUpKeeps
<1>3. CASE \E k \in Keys : Client(k)
  BY <1>3, ClientKeeps
<1>4. CASE \/ \E c \in Contacts \cup Strokes, phase \in {"down", "up"} : Hand(c, phase)
           \/ Dispatch
  BY <1>4, HandKeeps, DispatchKeeps
<1>5. CASE UNCHANGED vars
  <2>1. /\ Glassy
        /\ UNCHANGED <<commands, active, pen, captured, held, foreground, prepared, lock, lastSleep,
                       fences, deferred, lives, client, alive, waiting>>
    BY <1>5 DEF vars, panelVars, telemetry, inputVars, leaseVars, clientVars, Glassy
  <2> QED BY <2>1, NothingSent DEF IInv, TypeOK
<1> QED BY <1>1, <1>2, <1>3, <1>4, <1>5 DEF Next

(* The inductive invariant holds in every reachable state.                 *)
THEOREM Invariance == Spec => []IInv
BY InitInv, NextInv, PTL DEF Spec

(* No client that hears is left with a contact nobody will lift: the fence *)
(* and the release reach all it was told of (qtfb/input.rs).               *)
THEOREM NoContactIsLost == Spec => []ContactsBalanced
<1>1. IInv => ContactsBalanced
  BY DEF IInv
<1> QED BY <1>1, Invariance, PTL

(* The committed lock keeps its picture on the glass, and an unlocked host *)
(* has no lock in the panel nor on its way there (qtfb/surfaces/lock.rs).  *)
THEOREM LockAlwaysHolds == Spec => []LockHolds
<1>1. IInv => LockHolds
  <2> SUFFICES ASSUME IInv PROVE LockHolds
    OBVIOUS
  <2>1. QueuedInv /\ FrozenInv /\ commands \in Seq(Orders)
    BY DEF IInv, LockInv, TypeOK
  <2>2. frozen.epoch # 0 => glass = frozen.picture /\ lock # Unlocked
    BY <2>1 DEF FrozenInv
  <2>3. frozen.epoch = 0 => frozen = NotFrozen
    BY <2>1 DEF FrozenInv
  <2>4. \A i \in DOMAIN commands : commands[i].op = "show" => lock # Unlocked
    BY <2>1 DEF QueuedInv
  <2> QED BY <2>2, <2>3, <2>4 DEF LockHolds
<1> QED BY <1>1, Invariance, PTL

(* Only the dispatcher tells a client of a contact, and only the client of *)
(* the surface that the panel has committed.                               *)
LEMMA OnlyDispatchPresses ==
  ASSUME IInv, [Next]_vars, NEW k \in Keys, held'[k] \ held[k] # {}
  PROVE  Dispatch /\ Routable /\ k = foreground.key
<1>1. held \in [Keys -> SUBSET (Contacts \cup Strokes)]
  BY DEF IInv, TypeOK
<1>2. held' # held
  OBVIOUS
<1>3. ~(PanelThread \/ Fails)
  BY <1>2 DEF PanelThread, Fails
<1>4. ~FenceContacts
  BY <1>1 DEF FenceContacts
<1>5. ~(HostAcknowledged \/ HostGivesUp)
  BY <1>2, <1>4 DEF HostAcknowledged, HostGivesUp, Unlock
<1>6. ~Manager
  <2>1. \A q, f : ~HostSet(q, f) /\ ~HostPrepare(q, f)
    BY <1>4 DEF HostSet, HostPrepare, EnqueueFenced
  <2>2. \A on : ~HostActivate(on) /\ ~HostInk(on)
    BY <1>2 DEF HostActivate, HostInk
  <2>3. ~HostClear /\ ~HostRefresh
    BY <1>2, <1>4 DEF HostClear, HostRefresh, EnqueueFenced
  <2>4. \A q, f, e : ~HostShowLock(q, f, e)
    BY <1>4 DEF HostShowLock, EnqueueFenced
  <2>5. \A n : ~HostCancelLock(n)
    BY <1>2, <1>4 DEF HostCancelLock, Unlock
  <2> QED BY <2>1, <2>2, <2>3, <2>4, <2>5 DEF Manager
<1>7. ASSUME NEW q \in Keys PROVE ~Client(q)
  <2>1. ~Register(q) /\ ~ActivateClient(q) /\ ~AbortRegistration(q) /\ ~Draw(q) /\ ~PassDamage(q)
        /\ ~RequestFullRefresh(q) /\ ~Overflow(q)
    BY <1>2 DEF Register, ActivateClient, AbortRegistration, Draw, PassDamage, RequestFullRefresh,
                Overflow
  <2>2. ~Unregister(q)
    <3>1. held' = [held EXCEPT ![q] = {}] => held'[k] \subseteq held[k]
      BY <1>1
    <3> QED BY <3>1 DEF Unregister
  <2> QED BY <2>1, <2>2 DEF Client
<1>8. ~(\E c \in Contacts \cup Strokes, phase \in {"down", "up"} : Hand(c, phase))
  BY <1>2 DEF Hand
<1>9. ~(UNCHANGED vars)
  BY <1>2 DEF vars
<1>10. Dispatch
  BY <1>3, <1>5, <1>6, <1>7, <1>8, <1>9 DEF Next
<1>11. Routable /\ k = foreground.key
  <2>1. PICK f : Suppress(f) \/ Discard(f) \/ (Routable /\ (RouteTouch(f) \/ RoutePen(f)))
    BY <1>10 DEF Dispatch
  <2>2. Routable /\ (RouteTouch(f) \/ RoutePen(f))
    BY <1>2, <2>1 DEF Suppress, Discard
  <2>3. \/ \E c : Press(foreground.key, c)
        \/ \E cs : Release(foreground.key, cs)
    BY <1>2, <2>2 DEF RouteTouch, RoutePen
  <2> QED BY <1>1, <2>2, <2>3 DEF Press, Release
<1> QED BY <1>10, <1>11

(* Whoever is told of a contact for the first time is on the glass, with   *)
(* its present registration, and the panel shows no lock.                  *)
THEOREM PressedIsAlwaysVisible == Spec => PressedIsVisible
<1>1. ASSUME IInv, [Next]_vars, NEW k \in Keys, held'[k] \ held[k] # {}
      PROVE  glass.key = k /\ surface[k] \in {0, glass.life} /\ frozen = NotFrozen
  <2>1. Routable /\ k = foreground.key
    BY <1>1, OnlyDispatchPresses
  <2>2. FrozenInv /\ GlassInv
    BY <1>1 DEF IInv, LockInv
  <2>3. frozen = NotFrozen /\ frozen.epoch = 0
    BY <2>1, <2>2 DEF FrozenInv, Routable, RequestedOnly, NotFrozen
  <2>4. visible = foreground /\ visible # NoLease
    BY <2>1, <2>2 DEF GlassInv, Routable, RequestedOnly
  <2> QED BY <2>1, <2>2, <2>3, <2>4 DEF GlassInv
<1>2. IInv /\ [Next]_vars =>
        [\A k \in Keys : held'[k] \ held[k] # {} =>
           /\ glass.key = k
           /\ surface[k] \in {0, glass.life}
           /\ frozen = NotFrozen]_vars
  BY <1>1
<1> QED BY <1>2, Invariance, PTL DEF Spec, PressedIsVisible
=============================================================================
