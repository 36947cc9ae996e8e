----------------------------- MODULE PmmProofs -----------------------------
(***************************************************************************)
(* For every number of pages and every size of a list page: the allocator  *)
(* of pmm.cpp never hands out a page twice.                                *)
(***************************************************************************)
EXTENDS Pmm, FiniteSetTheorems, TLAPS

-----------------------------------------------------------------------------
(* Arithmetic with a symbolic divisor.                                     *)

\* Quotient and remainder rebuild the number.
LEMMA DivMod ==
  ASSUME NEW D \in Nat \ {0}, NEW a \in Int
  PROVE  /\ a \div D \in Int
         /\ a % D \in 0 .. D - 1
         /\ a = D * (a \div D) + (a % D)
  BY SMTT(30)

\* A positive multiple of D is at least D.
LEMMA MulAtLeast ==
  ASSUME NEW D \in Nat \ {0}, NEW k \in Int, k >= 1
  PROVE  D * k >= D
  OBVIOUS

\* They are the only ones that do.
LEMMA ModIs ==
  ASSUME NEW D \in Nat \ {0}, NEW x \in Int,
         NEW q \in Int, NEW r \in 0 .. D - 1, x = D * q + r
  PROVE  x % D = r /\ x \div D = q
  BY SMTT(30)


-----------------------------------------------------------------------------
(* Where the entries of a list page are.                                   *)

LEMMA TopFacts ==
  ASSUME NEW i \in Nat
  PROVE  /\ i % Entries \in 0 .. Entries - 1
         /\ Top(i) \in Nat /\ i <= Top(i) /\ Top(i) <= i + Entries - 1
         /\ Link(i) <=> Top(i) = i
<1>1. Entries \in Nat \ {0} /\ i \in Int
  BY PmmAssumption
<1>2. PICK m \in 0 .. Entries - 1 : m = i % Entries
  BY <1>1, DivMod
<1>3. Top(i) = i + (Entries - 1 - m) /\ (Link(i) <=> m = Entries - 1)
  BY <1>2 DEF Top, Link
<1>4. i % Entries \in 0 .. Entries - 1
  BY <1>2
<1>5. Top(i) \in Nat /\ i <= Top(i) /\ Top(i) <= i + Entries - 1 /\ (Link(i) <=> Top(i) = i)
  BY <1>1, <1>3
<1> QED
  BY <1>4, <1>5

\* From one index to the next.
LEMMA TopNext ==
  ASSUME NEW i \in Nat
  PROVE  /\ ~ Link(i) => (i + 1) % Entries = (i % Entries) + 1 /\ Top(i + 1) = Top(i)
         /\ Link(i) => (i + 1) % Entries = 0 /\ Top(i + 1) = i + Entries
<1>1. Entries \in Nat \ {0} /\ Entries > 1 /\ i \in Int
  BY PmmAssumption
<1>2. PICK q \in Int, r \in 0 .. Entries - 1 : r = i % Entries /\ i = Entries * q + r
  BY <1>1, DivMod
<1>3. CASE ~ Link(i)
  <2>1. r + 1 \in 0 .. Entries - 1 /\ i + 1 = Entries * q + (r + 1) /\ i + 1 \in Int
    BY <1>1, <1>2, <1>3 DEF Link
  <2>2. (i + 1) % Entries = r + 1
    BY <1>1, <2>1, ModIs
  <2> QED
    BY <1>1, <1>2, <1>3, <2>2 DEF Top
<1>4. CASE Link(i)
  <2>1. Entries * (q + 1) = Entries * q + Entries
    BY <1>1
  <2>2. i + 1 = Entries * (q + 1) + 0 /\ i + 1 \in Int /\ q + 1 \in Int /\ 0 \in 0 .. Entries - 1
    BY <1>1, <1>2, <1>4, <2>1 DEF Link
  <2>3. (i + 1) % Entries = 0
    BY <1>1, <2>2, ModIs
  <2> QED
    BY <1>1, <1>4, <2>3 DEF Top
<1> QED
  BY <1>3, <1>4

\* An earlier index is on the same list page, or its list page ends earlier.
LEMMA TopOrder ==
  ASSUME NEW i \in Nat, NEW k \in Nat, i <= k
  PROVE  Top(i) = Top(k) \/ Top(i) < k
<1>1. Entries \in Nat \ {0} /\ i \in Int /\ k \in Int
  BY PmmAssumption
<1>2. PICK q \in Int, r \in 0 .. Entries - 1 : r = i % Entries /\ i = Entries * q + r
  BY <1>1, DivMod
<1>3. PICK p \in Int, s \in 0 .. Entries - 1 : s = k % Entries /\ k = Entries * p + s
  BY <1>1, DivMod
<1>4. Top(i) = Entries * q + (Entries - 1) /\ Top(k) = Entries * p + (Entries - 1)
  BY <1>1, <1>2, <1>3 DEF Top
<1>5. CASE p - q >= 1
  <2>1. Entries * (p - q) >= Entries
    BY <1>1, <1>5, MulAtLeast
  <2>2. Entries * (p - q) = Entries * p - Entries * q
    BY <1>1
  <2> QED
    BY <1>1, <1>3, <1>4, <2>1, <2>2
<1>6. CASE q - p >= 1
  <2>1. Entries * (q - p) >= Entries
    BY <1>1, <1>6, MulAtLeast
  <2>2. Entries * (q - p) = Entries * q - Entries * p
    BY <1>1
  <2> QED
    BY <1>1, <1>2, <1>3, <2>1, <2>2
<1>7. CASE p = q
  BY <1>4, <1>7
<1> QED
  BY <1>5, <1>6, <1>7

\* Links are Entries apart.
LEMMA LinkShift ==
  ASSUME NEW i \in Nat
  PROVE  Link(i + Entries) <=> Link(i)
<1>1. Entries \in Nat \ {0} /\ i \in Int /\ i + Entries \in Int
  BY PmmAssumption
<1>2. PICK q \in Int, r \in 0 .. Entries - 1 : r = i % Entries /\ i = Entries * q + r
  BY <1>1, DivMod
<1>3. Entries * (q + 1) = Entries * q + Entries
  BY <1>1
<1>4. i + Entries = Entries * (q + 1) + r /\ q + 1 \in Int
  BY <1>1, <1>2, <1>3
<1>5. (i + Entries) % Entries = r
  BY <1>1, <1>4, ModIs
<1> QED
  BY <1>2, <1>5 DEF Link

\* Two indices of one list page have different entries.
LEMMA TopEntry ==
  ASSUME NEW i \in Nat, NEW k \in Nat, Top(i) = Top(k), i % Entries = k % Entries
  PROVE  i = k
<1>1. i % Entries \in Int /\ Entries \in Int
  BY TopFacts, PmmAssumption
<1> QED
  BY <1>1 DEF Top

\* The last entry of a list page is a link.
LEMMA TopLink ==
  ASSUME NEW i \in Nat
  PROVE  Link(Top(i))
<1>1. Entries \in Nat \ {0} /\ i \in Int /\ Top(i) \in Nat
  BY PmmAssumption, TopFacts
<1>2. PICK q \in Int, r \in 0 .. Entries - 1 : r = i % Entries /\ i = Entries * q + r
  BY <1>1, DivMod
<1>3. PICK t \in Int : t = Top(i)
  BY <1>1
<1>4. t = Entries * q + (Entries - 1) /\ Entries - 1 \in 0 .. Entries - 1
  BY <1>1, <1>2, <1>3 DEF Top
<1>5. t % Entries = Entries - 1
  BY <1>1, <1>4, ModIs
<1> QED
  BY <1>3, <1>5 DEF Link
-----------------------------------------------------------------------------
(* The state.                                                              *)

\* A store changes one entry of one page.
LEMMA StoreAt ==
  ASSUME mem \in [Frames -> Page],
         NEW w \in Frames, NEW e \in 0 .. Entries - 1, NEW v \in Frames \cup {Junk}
  PROVE  /\ Store(w, e, v) \in [Frames -> Page]
         /\ \A f \in Frames : \A d \in 0 .. Entries - 1 :
              Store(w, e, v)[f][d] = IF f = w /\ d = e THEN v ELSE mem[f][d]
<1>1. mem[w] \in Page
  OBVIOUS
<1>2. [mem[w] EXCEPT ![e] = v] \in Page
  BY <1>1 DEF Page
<1>3. Store(w, e, v) \in [Frames -> Page]
  BY <1>2 DEF Store
<1>4. ASSUME NEW f \in Frames, NEW d \in 0 .. Entries - 1
      PROVE  Store(w, e, v)[f][d] = IF f = w /\ d = e THEN v ELSE mem[f][d]
  BY <1>1, <1>4 DEF Store, Page
<1> QED
  BY <1>3, <1>4

LEMMA Ranges ==
  /\ N \in Nat /\ Entries \in Nat /\ Entries > 1
  /\ Last \in Nat /\ N <= Last /\ Last <= N + Entries - 1
  /\ Link(N) <=> N = Last
<1>1. N \in Nat /\ Entries \in Nat /\ Entries > 1
  BY PmmAssumption
<1> QED
  BY <1>1, TopFacts DEF Last

LEMMA InitInv == Init => IInv
<1> SUFFICES ASSUME Init PROVE IInv
  OBVIOUS
<1>0. N \in Nat /\ Entries \in Nat /\ Entries > 1
  BY Ranges
<1>1. 0 % Entries = 0 /\ Top(0) = Entries - 1
  <2>1. 0 = Entries * 0 + 0 /\ 0 \in 0 .. Entries - 1 /\ Entries \in Nat \ {0}
    BY <1>0
  <2>2. 0 % Entries = 0
    BY <2>1, ModIs
  <2> QED
    BY <1>0, <2>2 DEF Top
<1>2. TypeOK
  BY <1>0 DEF Init, TypeOK, Page, Frames
<1>3. Built = {Entries - 1}
  BY <1>0, <1>1 DEF Init, Built
<1>4. list[Entries - 1] = Initial /\ win = Initial
  BY <1>0 DEF Init
<1>5. \A i \in 0 .. N + 2 * Entries : i # Entries - 1 => list[i] = Junk
  BY DEF Init
<1>6. \A f \in Frames : \A e \in 0 .. Entries - 1 : mem[f][e] = Junk
  BY DEF Init
<1>7. Initial \in Frames
  BY DEF Frames
<1>8. BuildInv
  BY <1>0, <1>1, <1>3, <1>4, <1>5, <1>6, <1>7 DEF BuildInv, Init, Seen
<1> QED
  BY <1>2, <1>8 DEF IInv, Init

-----------------------------------------------------------------------------
\* A round of pmm_init that fills an ordinary entry.
LEMMA InitEntryInv ==
  ASSUME TypeOK, BuildInv, pmm_init_page, ~ Link(pcount)
  PROVE  TypeOK' /\ BuildInv'
<1>0. /\ N \in Nat /\ Entries \in Nat /\ Entries > 1
      /\ pcount \in Nat /\ pcount < N /\ pcount' = pcount + 1 /\ phase = "init"
      /\ mem \in [Frames -> Page] /\ list \in [0 .. N + 2 * Entries -> Frames \cup {Junk}]
  BY Ranges DEF TypeOK, pmm_init_page
<1>1. PICK addr \in Frames : addr = Listed[pcount + 1]
  BY <1>0 DEF Frames
<1>2. /\ mem' = Store(win, pcount % Entries, addr)
      /\ win' = win /\ list' = [list EXCEPT ![pcount] = addr]
      /\ UNCHANGED <<phase, pidx, pfree, ret, held>>
  BY <1>1 DEF pmm_init_page
<1>3. /\ pcount % Entries \in 0 .. Entries - 1 /\ (pcount + 1) % Entries = (pcount % Entries) + 1
      /\ Top(pcount + 1) = Top(pcount) /\ Top(pcount) \in Nat /\ pcount < Top(pcount)
      /\ Top(pcount) <= pcount + Entries - 1
  BY <1>0, TopFacts, TopNext, SMTT(20)
<1>4. win = list[Top(pcount)] /\ Top(pcount) \in Built
  BY <1>3 DEF BuildInv, Built
<1>5. /\ Seen(pcount) \subseteq Frames /\ Seen(pcount) \subseteq Seen(pcount + 1)
      /\ addr \in Seen(pcount + 1) /\ addr \notin Seen(pcount) /\ addr # Junk
  BY <1>0, <1>1, PmmAssumption DEF Seen, Frames
<1>6. win \in Frames
  BY <1>4, <1>5 DEF BuildInv
<1>7. Built' = Built \cup {pcount} /\ pcount \notin Built
  BY <1>0, <1>3 DEF Built
<1>8. /\ mem' \in [Frames -> Page]
      /\ \A f \in Frames : \A d \in 0 .. Entries - 1 :
           mem'[f][d] = IF f = win /\ d = pcount % Entries THEN addr ELSE mem[f][d]
  BY <1>0, <1>2, <1>3, <1>6, StoreAt
<1>9. TypeOK'
  BY <1>0, <1>1, <1>2, <1>8 DEF TypeOK
<1>10. \A i \in 0 .. N + 2 * Entries : list'[i] = IF i = pcount THEN addr ELSE list[i]
  BY <1>0, <1>2
<1>11. Built \subseteq 0 .. N + 2 * Entries
  BY <1>0, <1>3 DEF Built
<1>12. \A i \in Built : list[i] \in Seen(pcount)
  BY DEF BuildInv
<1>13. ASSUME NEW i \in 0 .. pcount PROVE Linked(i)'
  <2>0. i \in Nat /\ i \in 0 .. N + 2 * Entries /\ i <= pcount /\ i % Entries \in 0 .. Entries - 1
    <3>1. i \in Nat /\ i \in 0 .. N + 2 * Entries /\ i <= pcount
      BY <1>0
    <3> QED
      BY <3>1, TopFacts
  <2>1. /\ Top(i) \in Nat /\ i <= Top(i) /\ (Top(i) = Top(pcount) \/ Top(i) < pcount)
        /\ Top(i) \in 0 .. N + 2 * Entries /\ Top(i) \in Built /\ Top(i) # pcount
    <3>1. Top(i) \in Nat /\ i <= Top(i) /\ (Top(i) = Top(pcount) \/ Top(i) < pcount)
      BY <1>0, <2>0, TopFacts, TopOrder
    <3> QED
      BY <1>0, <1>3, <3>1 DEF Built
  <2>2. list'[Top(i)] = list[Top(i)] /\ list[Top(i)] \in Frames
    BY <1>5, <1>10, <1>12, <2>1
  <2>3. CASE i = pcount
    <3>1. mem'[win][pcount % Entries] = addr
      BY <1>3, <1>6, <1>8
    <3> QED
      BY <1>4, <1>10, <2>0, <2>2, <2>3, <3>1 DEF Linked
  <2>4. CASE i < pcount
    <3>0. Linked(i) /\ list'[i] = list[i]
      BY <1>0, <1>10, <2>0, <2>4 DEF BuildInv
    <3>1. CASE Link(i)
      <4>1. i + Entries # pcount /\ i + Entries \in 0 .. N + 2 * Entries
        <5>1. Link(i + Entries)
          BY <2>0, <3>1, LinkShift
        <5> QED
          BY <1>0, <2>0, <2>4, <5>1
      <4>2. list[i] \in Frames
        BY <2>2, <2>0, <3>1, TopFacts
      <4>3. pcount % Entries # Entries - 1 /\ Entries - 1 \in 0 .. Entries - 1
        BY <1>0 DEF Link
      <4> QED
        BY <1>8, <1>10, <3>0, <3>1, <4>1, <4>2, <4>3 DEF Linked
    <3>2. CASE ~ Link(i)
      <4>1. ~ (list[Top(i)] = win /\ i % Entries = pcount % Entries)
        <5> SUFFICES ASSUME list[Top(i)] = win, i % Entries = pcount % Entries PROVE FALSE
          OBVIOUS
        <5>1. Top(i) = Top(pcount)
          BY <1>4, <2>1 DEF BuildInv
        <5>2. i = pcount
          BY <5>1, <2>0, <1>0, TopEntry
        <5> QED
          BY <5>2, <2>4, <1>0
      <4> QED
        BY <1>8, <2>0, <2>2, <3>0, <3>2, <4>1 DEF Linked
    <3> QED
      BY <3>1, <3>2
  <2> QED
    BY <1>0, <2>3, <2>4
<1>14. BuildInv'
  <2>1. pidx' = 0 /\ pfree' = 0 /\ held' = {} /\ pcount' <= N
    BY <1>0, <1>2 DEF BuildInv
  <2>2. list'[Entries - 1] = Initial
    <3>1. Entries - 1 # pcount
      <4>1. Entries - 1 = Entries * 0 + (Entries - 1) /\ Entries - 1 \in 0 .. Entries - 1
            /\ Entries \in Nat \ {0}
        BY <1>0
      <4>2. (Entries - 1) % Entries = Entries - 1
        BY <4>1, ModIs
      <4> QED
        BY <4>2 DEF Link
    <3> QED
      BY <1>0, <1>10, <3>1 DEF BuildInv
  <2>3. win' = list'[Top(pcount')]
    BY <1>0, <1>2, <1>3, <1>4, <1>10
  <2>4. \A i \in Built' : list'[i] \in Seen(pcount')
    BY <1>0, <1>5, <1>7, <1>10, <1>11, <1>12
  <2>5. \A i \in 0 .. N + 2 * Entries : i \notin Built' => list'[i] = Junk
    BY <1>7, <1>10 DEF BuildInv
  <2>6. \A i, j \in Built' : list'[i] = list'[j] => i = j
    <3>1. list'[pcount] = addr
      BY <1>0, <1>10
    <3>2. \A i \in Built : list'[i] = list[i] /\ list[i] # addr
      BY <1>5, <1>7, <1>10, <1>11, <1>12
    <3> QED
      BY <1>7, <3>1, <3>2 DEF BuildInv
  <2>7. \A i \in 0 .. pcount' - 1 : Linked(i)'
    BY <1>0, <1>13
  <2>8. \A f \in Frames \ Seen(pcount') : \A e \in 0 .. Entries - 1 : mem'[f][e] = Junk
    BY <1>0, <1>4, <1>5, <1>8, <1>12 DEF BuildInv
  <2>9. \A e \in pcount' % Entries .. Entries - 1 : mem'[win'][e] = Junk
    <3> SUFFICES ASSUME NEW e \in (pcount % Entries) + 1 .. Entries - 1
                 PROVE  mem'[win][e] = Junk
      BY <1>0, <1>2, <1>3
    <3>1. e \in pcount % Entries .. Entries - 1 /\ e \in 0 .. Entries - 1 /\ e # pcount % Entries
      BY <1>0, <1>3
    <3> QED
      BY <1>6, <1>8, <3>1 DEF BuildInv
  <2> QED
    BY <2>1, <2>2, <2>3, <2>4, <2>5, <2>6, <2>7, <2>8, <2>9 DEF BuildInv
<1> QED
  BY <1>9, <1>14

\* A round of pmm_init that fills the last entry of a list page: the page
\* becomes the next list page.
LEMMA InitLinkInv ==
  ASSUME TypeOK, BuildInv, pmm_init_page, Link(pcount)
  PROVE  TypeOK' /\ BuildInv'
<1>0. /\ N \in Nat /\ Entries \in Nat /\ Entries > 1
      /\ pcount \in Nat /\ pcount < N /\ pcount' = pcount + 1 /\ phase = "init"
      /\ mem \in [Frames -> Page] /\ list \in [0 .. N + 2 * Entries -> Frames \cup {Junk}]
  BY Ranges DEF TypeOK, pmm_init_page
<1>1. PICK addr \in Frames : addr = Listed[pcount + 1]
  BY <1>0 DEF Frames
<1>2. /\ mem' = Store(win, Entries - 1, addr)
      /\ win' = addr /\ list' = [list EXCEPT ![pcount + Entries] = addr]
      /\ UNCHANGED <<phase, pidx, pfree, ret, held>>
  BY <1>1 DEF pmm_init_page, Link
<1>3. /\ (pcount + 1) % Entries = 0 /\ pcount % Entries = Entries - 1
      /\ Top(pcount + 1) = pcount + Entries /\ Top(pcount) = pcount
  BY <1>0, TopFacts, TopNext DEF Link
<1>4. win = list[pcount] /\ pcount \in Built
  BY <1>0, <1>3 DEF BuildInv, Built
<1>5. /\ Seen(pcount) \subseteq Frames /\ Seen(pcount) \subseteq Seen(pcount + 1)
      /\ addr \in Seen(pcount + 1) /\ addr \notin Seen(pcount) /\ addr # Junk
  BY <1>0, <1>1, PmmAssumption DEF Seen, Frames
<1>6. win \in Frames /\ win \in Seen(pcount) /\ win # addr
  BY <1>4, <1>5 DEF BuildInv
<1>7. Built' = Built \cup {pcount + Entries} /\ pcount + Entries \notin Built
  BY <1>0, <1>3 DEF Built
<1>8. /\ mem' \in [Frames -> Page]
      /\ \A f \in Frames : \A d \in 0 .. Entries - 1 :
           mem'[f][d] = IF f = win /\ d = Entries - 1 THEN addr ELSE mem[f][d]
  <2>1. PICK e \in 0 .. Entries - 1 : e = Entries - 1
    BY <1>0
  <2>2. mem' = Store(win, e, addr)
    BY <1>2, <2>1
  <2>3. /\ mem' \in [Frames -> Page]
        /\ \A f \in Frames : \A d \in 0 .. Entries - 1 :
             mem'[f][d] = IF f = win /\ d = e THEN addr ELSE mem[f][d]
    BY <1>0, <1>6, <2>2, StoreAt
  <2> QED
    BY <2>1, <2>3
<1>9. TypeOK'
  BY <1>0, <1>1, <1>2, <1>8 DEF TypeOK
<1>10. \A i \in 0 .. N + 2 * Entries : list'[i] = IF i = pcount + Entries THEN addr ELSE list[i]
  BY <1>0, <1>2
<1>11. Built \subseteq 0 .. pcount
  BY <1>0, <1>3 DEF Built
<1>12. \A i \in Built : list[i] \in Seen(pcount)
  BY DEF BuildInv
<1>r. 0 .. pcount \subseteq 0 .. N + 2 * Entries /\ pcount + Entries \in 0 .. N + 2 * Entries
  BY <1>0
<1>13. ASSUME NEW i \in 0 .. pcount PROVE Linked(i)'
  <2>0. i \in Nat /\ i \in 0 .. N + 2 * Entries /\ i <= pcount /\ i # pcount + Entries
    BY <1>0
  <2>t. i % Entries \in 0 .. Entries - 1
    BY <2>0, TopFacts
  <2>1. Top(i) \in Nat /\ Top(i) \in 0 .. pcount /\ Top(i) \in Built /\ Top(i) # pcount + Entries
    <3>1. Top(i) \in Nat /\ i <= Top(i) /\ (Top(i) = Top(pcount) \/ Top(i) < pcount)
      BY <1>0, <2>0, TopFacts, TopOrder
    <3> QED
      BY <1>0, <1>3, <3>1 DEF Built
  <2>2. list'[Top(i)] = list[Top(i)] /\ list[Top(i)] \in Frames /\ list'[i] = list[i]
    BY <1>5, <1>10, <1>12, <1>r, <2>0, <2>1
  <2>3. CASE i = pcount
    <3>1. mem'[win][Entries - 1] = addr
      BY <1>0, <1>6, <1>8
    <3>2. list'[i + Entries] = addr
      BY <1>10, <1>r, <2>3
    <3> QED
      BY <1>4, <2>2, <2>3, <3>1, <3>2 DEF Linked
  <2>4. CASE i < pcount
    <3>0. Linked(i)
      BY <1>0, <2>0, <2>4 DEF BuildInv
    <3>1. CASE Link(i)
      <4>1. i + Entries # pcount + Entries /\ i + Entries \in 0 .. N + 2 * Entries
        BY <1>0, <2>0, <2>4
      <4>2. list[i] \in Frames /\ i \in Built
        BY <2>1, <2>2, <2>0, <3>1, TopFacts
      <4>3. list[i] # win
        BY <1>0, <1>4, <2>4, <4>2 DEF BuildInv
      <4>4. Entries - 1 \in 0 .. Entries - 1
        BY <1>0
      <4> QED
        BY <1>8, <1>10, <2>2, <3>0, <3>1, <4>1, <4>2, <4>3, <4>4 DEF Linked
    <3>2. CASE ~ Link(i)
      BY <1>8, <2>t, <2>2, <3>0, <3>2 DEF Linked, Link
    <3> QED
      BY <3>1, <3>2
  <2> QED
    BY <1>0, <2>3, <2>4
<1>14. BuildInv'
  <2>1. pidx' = 0 /\ pfree' = 0 /\ held' = {} /\ pcount' <= N
    BY <1>0, <1>2 DEF BuildInv
  <2>2. list'[Entries - 1] = Initial
    BY <1>0, <1>10 DEF BuildInv
  <2>3. win' = list'[Top(pcount')]
    BY <1>0, <1>2, <1>3, <1>10, <1>r
  <2>4. \A i \in Built' : list'[i] \in Seen(pcount')
    BY <1>0, <1>5, <1>7, <1>10, <1>11, <1>12, <1>r
  <2>5. \A i \in 0 .. N + 2 * Entries : i \notin Built' => list'[i] = Junk
    BY <1>7, <1>10 DEF BuildInv
  <2>6. \A i, j \in Built' : list'[i] = list'[j] => i = j
    <3>1. list'[pcount + Entries] = addr
      BY <1>10, <1>r
    <3>2. \A i \in Built : list'[i] = list[i] /\ list[i] # addr
      BY <1>5, <1>7, <1>10, <1>11, <1>12, <1>r
    <3> QED
      BY <1>7, <3>1, <3>2 DEF BuildInv
  <2>7. \A i \in 0 .. pcount' - 1 : Linked(i)'
    BY <1>0, <1>13
  <2>8. \A f \in Frames \ Seen(pcount') : \A e \in 0 .. Entries - 1 : mem'[f][e] = Junk
    BY <1>0, <1>5, <1>6, <1>8 DEF BuildInv
  <2>9. \A e \in pcount' % Entries .. Entries - 1 : mem'[win'][e] = Junk
    BY <1>0, <1>1, <1>2, <1>3, <1>5, <1>6, <1>8 DEF BuildInv
  <2> QED
    BY <2>1, <2>2, <2>3, <2>4, <2>5, <2>6, <2>7, <2>8, <2>9 DEF BuildInv
<1> QED
  BY <1>9, <1>14

\* The end of pmm_init: what is built is a complete free list.
LEMMA InitDoneInv ==
  ASSUME TypeOK, BuildInv, pmm_init
  PROVE  TypeOK' /\ (MemInv /\ DistinctInv /\ CountInv)'
<1>0. /\ N \in Nat /\ Entries \in Nat /\ Entries > 1 /\ pcount = N
      /\ Last \in Nat /\ N <= Last /\ Last <= N + Entries - 1 /\ Last = Top(pcount)
      /\ pidx = 0 /\ held = {} /\ pidx' = 0 /\ held' = {} /\ mem' = mem /\ list' = list
      /\ win' = Initial /\ pfree' = N + 1 /\ pcount' = N + 1 /\ phase' = "run" /\ ret' = ret
  BY Ranges DEF pmm_init, BuildInv, Last
<1>1. TypeOK'
  BY <1>0 DEF TypeOK, Frames
<1>2. Built = {i \in 0 .. Last : i < N \/ i = Last} /\ Live' = Built
  BY <1>0 DEF Built, Live
<1>3. Seen(N) = Frames
  BY DEF Seen, Frames
<1>4. DistinctInv'
  BY <1>0, <1>2, <1>3 DEF DistinctInv, BuildInv
<1>5. CountInv'
  BY <1>0, FS_EmptySet DEF CountInv
<1>6. Top(0) = Entries - 1
  <2>1. 0 = Entries * 0 + 0 /\ 0 \in 0 .. Entries - 1 /\ Entries \in Nat \ {0}
    BY <1>0
  <2>2. 0 % Entries = 0
    BY <2>1, ModIs
  <2> QED
    BY <1>0, <2>2 DEF Top
<1>7. \A i \in N .. Last - 1 : list[i] = Junk
  BY <1>0, <1>2 DEF BuildInv
<1>8. ASSUME NEW i \in 0 .. Last PROVE Linked(i)
  <2>1. CASE i < N
    BY <1>0, <2>1 DEF BuildInv
  <2>2. CASE N <= i
    <3>1. i \in Nat /\ N \in Nat /\ Top(i) = Last
      <4>1. i \in Nat /\ N \in Nat
        BY <1>0
      <4>2. Top(N) = Top(i) \/ Top(N) < i
        BY <4>1, <2>2, TopOrder
      <4> QED
        BY <1>0, <4>1, <4>2 DEF Last
    <3>2. i % Entries \in N % Entries .. Entries - 1 /\ i % Entries \in 0 .. Entries - 1
      <4>1. i % Entries \in 0 .. Entries - 1 /\ N % Entries \in 0 .. Entries - 1
        BY <3>1, TopFacts
      <4>2. i + (Entries - 1 - (i % Entries)) = N + (Entries - 1 - (N % Entries))
        BY <3>1 DEF Last, Top
      <4> QED
        BY <1>0, <2>2, <3>1, <4>1, <4>2
    <3>3. mem[win][i % Entries] = Junk /\ win = list[Last]
      BY <1>0, <3>2 DEF BuildInv
    <3>4. CASE Link(i)
      <4>1. i = Last /\ i % Entries = Entries - 1
        BY <3>1, <3>4, TopFacts DEF Link
      <4>2. list[Last + Entries] = Junk
        BY <1>0, <1>2 DEF BuildInv
      <4> QED
        BY <3>3, <3>4, <4>1, <4>2 DEF Linked
    <3>5. CASE ~ Link(i)
      <4>1. i # Last
        BY <3>1, <3>5, TopFacts
      <4>2. list[i] = Junk
        BY <1>0, <1>7, <2>2, <4>1
      <4> QED
        BY <3>1, <3>3, <3>5, <4>2 DEF Linked
    <3> QED
      BY <3>4, <3>5
  <2> QED
    BY <1>0, <2>1, <2>2
<1>9. MemInv'
  BY <1>0, <1>6, <1>7, <1>8 DEF MemInv, BuildInv, Linked
<1> QED
  BY <1>1, <1>4, <1>5, <1>9

-----------------------------------------------------------------------------
(* The running allocator.                                                  *)

\* The list page of a live index is free, and so is its place.
LEMMA ListPages ==
  ASSUME TypeOK, DistinctInv, NEW i \in pidx .. Last
  PROVE  /\ i \in Nat /\ i % Entries \in 0 .. Entries - 1
         /\ Top(i) \in Nat /\ i <= Top(i) /\ Top(i) \in Live
         /\ list[Top(i)] \in Frames /\ list[Top(i)] \notin held
         /\ i \in 0 .. N + 2 * Entries /\ Top(i) \in 0 .. N + 2 * Entries
         /\ i + Entries \in 0 .. N + 2 * Entries
<1>0. /\ N \in Nat /\ Entries \in Nat /\ Entries > 1 /\ pidx \in Nat
      /\ Last \in Nat /\ N <= Last /\ Last <= N + Entries - 1 /\ i \in Nat /\ i <= Last
  BY Ranges DEF TypeOK
<1>1. i % Entries \in 0 .. Entries - 1 /\ Top(i) \in Nat /\ i <= Top(i)
  BY <1>0, TopFacts
<1>2. Top(i) = Last \/ Top(i) < N
  <2>1. CASE i <= N
    BY <1>0, <2>1, TopOrder DEF Last
  <2>2. CASE N <= i
    <3>1. Top(N) = Top(i) \/ Top(N) < i
      BY <1>0, <2>2, TopOrder
    <3> QED
      BY <1>0, <3>1 DEF Last
  <2> QED
    BY <1>0, <2>1, <2>2
<1>3. Top(i) \in Live
  BY <1>0, <1>1, <1>2 DEF Live
<1> QED
  BY <1>0, <1>1, <1>2, <1>3 DEF DistinctInv

\* An allocation pops the stack.
LEMMA AllocInv ==
  ASSUME TypeOK, MemInv, DistinctInv, CountInv, pmm_alloc_ppage
  PROVE  /\ TypeOK' /\ (MemInv /\ DistinctInv /\ CountInv)'
         /\ ret' = list[pidx] /\ ret' \notin held
         /\ ret' \in Frames \/ (pfree = 1 /\ ~ Link(N))
<1>0. /\ N \in Nat /\ Entries \in Nat /\ Entries > 1 /\ pidx \in Nat /\ pidx <= N
      /\ Last \in Nat /\ N <= Last /\ Last <= N + Entries - 1
      /\ pidx' = pidx + 1 /\ pfree' = pfree - 1 /\ pfree = N + 1 - pidx /\ mem' = mem
      /\ phase' = phase /\ pcount' = pcount /\ held' = held \cup {ret'}
      /\ list' = [list EXCEPT ![pidx] = Junk]
      /\ list \in [0 .. N + 2 * Entries -> Frames \cup {Junk}]
      /\ Link(N) <=> N = Last
  BY Ranges DEF TypeOK, CountInv, pmm_alloc_ppage
<1>1. pidx \in pidx .. Last
  BY <1>0
<1>2. /\ pidx % Entries \in 0 .. Entries - 1 /\ Top(pidx) \in Nat /\ pidx <= Top(pidx)
      /\ Top(pidx) \in 0 .. N + 2 * Entries /\ pidx + Entries \in 0 .. N + 2 * Entries
      /\ pidx \in 0 .. N + 2 * Entries
      /\ list[Top(pidx)] \in Frames
  BY <1>1, ListPages
<1>3. win = list[Top(pidx)] /\ Linked(pidx)
  BY <1>1 DEF MemInv
<1>4. ret' = list[pidx] /\ win' = list[Top(pidx + 1)]
  <2>1. CASE Link(pidx)
    <3>1. Top(pidx) = pidx /\ Top(pidx + 1) = pidx + Entries
      BY <1>0, <2>1, TopFacts, TopNext
    <3> QED
      BY <1>3, <2>1, <3>1 DEF pmm_alloc_ppage, Linked
  <2>2. CASE ~ Link(pidx)
    <3>1. Top(pidx + 1) = Top(pidx)
      BY <1>0, <2>2, TopNext
    <3> QED
      BY <1>3, <2>2, <3>1 DEF pmm_alloc_ppage, Linked
  <2> QED
    BY <2>1, <2>2
<1>5. \/ pidx \in Live /\ ret' \in Frames /\ ret' \notin held
      \/ pidx = N /\ N # Last /\ ret' = Junk /\ Junk \notin held
  <2>1. CASE pidx < N \/ pidx = Last
    <3>1. pidx \in Live
      BY <1>0, <2>1 DEF Live
    <3> QED
      BY <1>4, <3>1 DEF DistinctInv
  <2>2. CASE ~ (pidx < N \/ pidx = Last)
    <3>1. pidx = N /\ N # Last /\ pidx \in N .. Last - 1
      BY <1>0, <2>2
    <3>2. Junk \notin held
      BY <1>0, <3>1 DEF CountInv
    <3> QED
      BY <1>4, <3>1, <3>2 DEF MemInv
  <2> QED
    BY <2>1, <2>2
<1>6. Junk \notin Frames
  BY PmmAssumption
<1>7. Top(pidx + 1) \in 0 .. N + 2 * Entries /\ Top(pidx + 1) # pidx
  <2>1. PICK k \in Nat : k = pidx + 1
    BY <1>0
  <2>2. Top(k) \in Nat /\ k <= Top(k) /\ Top(k) <= k + Entries - 1
    BY TopFacts
  <2> QED
    BY <1>0, <2>1, <2>2
<1>8. TypeOK'
  BY <1>0, <1>4, <1>5, <1>7 DEF TypeOK
<1>9. \A i \in 0 .. N + 2 * Entries : list'[i] = IF i = pidx THEN Junk ELSE list[i]
  BY <1>0
<1>10. MemInv'
  <2>1. win' = list'[Top(pidx')]
    BY <1>0, <1>4, <1>7, <1>9
  <2>2. ASSUME NEW i \in pidx' .. Last PROVE Linked(i)'
    <3>0. i \in pidx .. Last /\ i # pidx /\ i > pidx
      BY <1>0
    <3>1. /\ i \in 0 .. N + 2 * Entries /\ Top(i) \in 0 .. N + 2 * Entries
          /\ i + Entries \in 0 .. N + 2 * Entries /\ Top(i) \in Nat /\ i <= Top(i) /\ i \in Nat
      BY <3>0, ListPages
    <3>2. list'[i] = list[i] /\ list'[Top(i)] = list[Top(i)] /\ list'[i + Entries] = list[i + Entries]
      BY <1>0, <1>9, <3>0, <3>1
    <3>3. Linked(i)
      BY <3>0 DEF MemInv
    <3> QED
      BY <1>0, <3>2, <3>3 DEF Linked
  <2>3. \A i \in N .. Last - 1 : list'[i] = Junk
    <3> SUFFICES ASSUME NEW i \in N .. Last - 1 PROVE list'[i] = Junk
      OBVIOUS
    <3>1. i \in 0 .. N + 2 * Entries
      BY <1>0
    <3> QED
      BY <1>9, <3>1 DEF MemInv
  <2> QED
    BY <2>1, <2>2, <2>3 DEF MemInv
<1>11. Live' \subseteq Live /\ pidx \notin Live' /\ Live \subseteq 0 .. N + 2 * Entries
  BY <1>0 DEF Live
<1>12. DistinctInv'
  <2>1. \A i \in Live' : i \in Live /\ list'[i] = list[i]
    BY <1>9, <1>11
  <2>2. \A i \in Live' : list[i] # list[pidx]
    BY <1>4, <1>5, <1>6, <1>11 DEF DistinctInv
  <2> QED
    BY <1>0, <1>4, <2>1, <2>2 DEF DistinctInv
<1>13. CountInv'
  <2>1. IsFiniteSet(held') /\ Cardinality(held') = pidx'
    BY <1>0, <1>5, FS_AddElement DEF CountInv
  <2> QED
    BY <1>0, <1>5, <1>6, <2>1 DEF CountInv, Live
<1> QED
  BY <1>0, <1>4, <1>5, <1>8, <1>10, <1>12, <1>13

\* A page that is freed goes to the place below the top of the stack.
LEMMA FreeInv ==
  ASSUME TypeOK, MemInv, DistinctInv, CountInv,
         NEW p, pmm_free_ppage(p)
  PROVE  TypeOK' /\ (MemInv /\ DistinctInv /\ CountInv)'
<1>0. /\ N \in Nat /\ Entries \in Nat /\ Entries > 1 /\ pidx \in Nat /\ pidx <= N + 1
      /\ Last \in Nat /\ N <= Last /\ Last <= N + Entries - 1
      /\ pidx' = pidx - 1 /\ pfree' = pfree + 1 /\ pfree = N + 1 - pidx
      /\ phase' = phase /\ pcount' = pcount /\ ret' = ret /\ held' = held \ {p}
      /\ list' = [list EXCEPT ![pidx'] = p]
      /\ list \in [0 .. N + 2 * Entries -> Frames \cup {Junk}] /\ mem \in [Frames -> Page]
      /\ Link(N) <=> N = Last
  BY Ranges DEF TypeOK, CountInv, pmm_free_ppage
<1>1. p \in held /\ p \in Frames /\ Junk \notin held /\ Junk \notin Frames
  BY PmmAssumption DEF pmm_free_ppage, TypeOK
<1>2. PICK k \in Nat : k = pidx - 1 /\ k + 1 = pidx /\ k <= N /\ (k < N \/ k = Last)
  <2>1. pidx >= 1
    <3>1. pidx # 0
      BY <1>1, FS_EmptySet DEF CountInv
    <3> QED
      BY <1>0, <3>1
  <2> QED
    BY <1>0, <1>1, <2>1 DEF CountInv
<1>3. IsFiniteSet(held') /\ Cardinality(held') = k
  BY <1>0, <1>1, <1>2, FS_RemoveElement DEF CountInv
<1>4. CountInv'
  BY <1>0, <1>1, <1>2, <1>3 DEF CountInv
<1>5. /\ k % Entries \in 0 .. Entries - 1 /\ Top(k) \in Nat /\ k <= Top(k) /\ k \in 0 .. N + 2 * Entries
      /\ Top(k) <= k + Entries - 1 /\ Top(k) \in 0 .. N + 2 * Entries
  <2>1. k % Entries \in 0 .. Entries - 1 /\ Top(k) \in Nat /\ k <= Top(k) /\ Top(k) <= k + Entries - 1
    BY TopFacts
  <2> QED
    BY <1>0, <1>2, <2>1
<1>6. \A i \in 0 .. N + 2 * Entries : list'[i] = IF i = k THEN p ELSE list[i]
  BY <1>0, <1>2
<1>7. \A i \in pidx .. Last : k < i /\ list'[i] = list[i] /\ list'[Top(i)] = list[Top(i)]
                             /\ list'[i + Entries] = list[i + Entries]
  <2> SUFFICES ASSUME NEW i \in pidx .. Last
               PROVE  k < i /\ list'[i] = list[i] /\ list'[Top(i)] = list[Top(i)]
                             /\ list'[i + Entries] = list[i + Entries]
    OBVIOUS
  <2>1. /\ i \in 0 .. N + 2 * Entries /\ Top(i) \in 0 .. N + 2 * Entries
        /\ i + Entries \in 0 .. N + 2 * Entries /\ Top(i) \in Nat /\ i <= Top(i) /\ i \in Nat
    BY ListPages
  <2>2. k < i
    BY <1>0, <1>2
  <2> QED
    BY <1>0, <1>2, <1>6, <2>1, <2>2
<1>8. Live' = Live \cup {k} /\ k \notin Live /\ Live \subseteq 0 .. N + 2 * Entries
  BY <1>0, <1>2 DEF Live
<1>9. DistinctInv'
  <2>1. \A i \in Live : list'[i] = list[i] /\ list[i] # p
    BY <1>1, <1>6, <1>8 DEF DistinctInv
  <2>2. list'[k] = p
    BY <1>5, <1>6
  <2> QED
    BY <1>0, <1>1, <1>8, <2>1, <2>2 DEF DistinctInv
<1>10. \A i \in N .. Last - 1 : list'[i] = Junk
  <2> SUFFICES ASSUME NEW i \in N .. Last - 1 PROVE list'[i] = Junk
    OBVIOUS
  <2>1. i \in 0 .. N + 2 * Entries /\ i # k
    BY <1>0, <1>2
  <2> QED
    BY <1>6, <2>1 DEF MemInv
<1>11. CASE Link(k)
  <2>1. Top(k) = k /\ Top(pidx) = k + Entries
    BY <1>2, <1>11, TopFacts, TopNext
  <2>2. win \in Frames \cup {Junk} /\ win = list[k + Entries]
    BY <2>1 DEF TypeOK, MemInv
  <2>3. win' = p /\ mem' = Store(p, Entries - 1, win)
    BY <1>0, <1>2, <1>11 DEF pmm_free_ppage
  <2>4. /\ mem' \in [Frames -> Page]
        /\ \A f \in Frames : \A d \in 0 .. Entries - 1 :
             mem'[f][d] = IF f = p /\ d = Entries - 1 THEN win ELSE mem[f][d]
    <3>1. PICK e \in 0 .. Entries - 1 : e = Entries - 1
      BY <1>0
    <3>2. mem' = Store(p, e, win)
      BY <2>3, <3>1
    <3>3. /\ mem' \in [Frames -> Page]
          /\ \A f \in Frames : \A d \in 0 .. Entries - 1 :
               mem'[f][d] = IF f = p /\ d = e THEN win ELSE mem[f][d]
      BY <1>0, <1>1, <2>2, <3>2, StoreAt
    <3> QED
      BY <3>1, <3>3
  <2>5. TypeOK'
    BY <1>0, <1>1, <1>2, <2>3, <2>4 DEF TypeOK
  <2>6. Linked(k)'
    <3>1. k + Entries \in 0 .. N + 2 * Entries /\ k + Entries # k /\ Entries - 1 \in 0 .. Entries - 1
      BY <1>0, <1>2
    <3> QED
      BY <1>1, <1>5, <1>6, <1>11, <2>2, <2>4, <3>1 DEF Linked
  <2>7. ASSUME NEW i \in pidx .. Last PROVE Linked(i)'
    <3>1. list[Top(i)] \in Frames /\ list[Top(i)] # p /\ i \in Nat /\ i % Entries \in 0 .. Entries - 1
      BY <1>1, ListPages
    <3>2. Link(i) => Top(i) = i
      BY <3>1, TopFacts
    <3>3. Linked(i) /\ Entries - 1 \in 0 .. Entries - 1
      BY <1>0 DEF MemInv
    <3> QED
      BY <1>7, <2>4, <3>1, <3>2, <3>3 DEF Linked
  <2>8. MemInv'
    <3>1. \A i \in pidx' .. Last : i = k \/ i \in pidx .. Last
      BY <1>0, <1>2
    <3>2. win' = list'[Top(pidx')]
      BY <1>0, <1>2, <1>5, <1>6, <2>1, <2>3
    <3> QED
      BY <1>10, <2>6, <2>7, <3>1, <3>2 DEF MemInv
  <2> QED
    BY <1>4, <1>9, <2>5, <2>8
<1>12. CASE ~ Link(k)
  <2>1. Top(k) = Top(pidx) /\ Top(k) # k /\ k # Last
    BY <1>0, <1>2, <1>12, TopFacts, TopNext, TopLink DEF Last
  <2>2. pidx \in pidx .. Last
    BY <1>0, <1>2, <2>1
  <2>3. win = list[Top(k)] /\ win \in Frames /\ Top(k) \in Live
    BY <2>1, <2>2, ListPages DEF MemInv
  <2>4. win' = win /\ mem' = Store(win, k % Entries, p)
    BY <1>0, <1>2, <1>12 DEF pmm_free_ppage
  <2>5. /\ mem' \in [Frames -> Page]
        /\ \A f \in Frames : \A d \in 0 .. Entries - 1 :
             mem'[f][d] = IF f = win /\ d = k % Entries THEN p ELSE mem[f][d]
    BY <1>0, <1>1, <1>5, <2>3, <2>4, StoreAt
  <2>6. TypeOK'
    BY <1>0, <1>1, <1>2, <2>3, <2>4, <2>5 DEF TypeOK
  <2>7. Linked(k)'
    BY <1>1, <1>5, <1>6, <1>12, <2>1, <2>3, <2>5 DEF Linked
  <2>8. ASSUME NEW i \in pidx .. Last PROVE Linked(i)'
    <3>1. /\ list[Top(i)] \in Frames /\ Top(i) \in Live /\ i \in Nat
          /\ i % Entries \in 0 .. Entries - 1
      BY ListPages
    <3>2. Link(i) => Top(i) = i
      BY <3>1, TopFacts
    <3>3. Linked(i) /\ Entries - 1 \in 0 .. Entries - 1 /\ k % Entries # Entries - 1
      BY <1>0, <1>12 DEF MemInv, Link
    <3>4. ~ (list[Top(i)] = win /\ i % Entries = k % Entries)
      <4> SUFFICES ASSUME list[Top(i)] = win, i % Entries = k % Entries PROVE FALSE
        OBVIOUS
      <4>1. Top(i) = Top(k)
        BY <2>3, <3>1 DEF DistinctInv
      <4>2. i = k
        BY <4>1, <3>1, TopEntry
      <4> QED
        BY <1>7, <1>2, <4>2
    <3> QED
      BY <1>7, <2>5, <3>1, <3>2, <3>3, <3>4 DEF Linked
  <2>9. MemInv'
    <3>1. \A i \in pidx' .. Last : i = k \/ i \in pidx .. Last
      BY <1>0, <1>2
    <3>2. win' = list'[Top(pidx')]
      BY <1>0, <1>2, <1>5, <1>6, <2>1, <2>3, <2>4
    <3> QED
      BY <1>10, <2>7, <2>8, <3>1, <3>2 DEF MemInv
  <2> QED
    BY <1>4, <1>9, <2>6, <2>9
<1> QED
  BY <1>11, <1>12

\* What the owner of a page writes to it does not reach the free list.
LEMMA ScribbleInv ==
  ASSUME TypeOK, MemInv, DistinctInv, CountInv, NEW p, Scribble(p)
  PROVE  TypeOK' /\ (MemInv /\ DistinctInv /\ CountInv)'
<1>0. /\ p \in held /\ p \in Frames /\ mem \in [Frames -> Page]
      /\ UNCHANGED <<phase, win, pcount, pidx, pfree, ret, held, list>>
      /\ Entries \in Nat /\ Entries > 1
  BY Ranges DEF Scribble, TypeOK
<1>1. [e \in 0 .. Entries - 1 |-> Junk] \in Page
  BY DEF Page
<1>2. mem' \in [Frames -> Page] /\ \A f \in Frames : f # p => mem'[f] = mem[f]
  BY <1>0, <1>1 DEF Scribble
<1>3. TypeOK'
  BY <1>0, <1>2 DEF TypeOK
<1>4. ASSUME NEW i \in pidx .. Last PROVE Linked(i)'
  <2>1. list[Top(i)] \in Frames /\ list[Top(i)] # p /\ i \in Nat
    BY <1>0, ListPages
  <2>2. Link(i) => Top(i) = i
    BY <2>1, TopFacts
  <2>3. Linked(i)
    BY DEF MemInv
  <2> QED
    BY <1>0, <1>2, <2>1, <2>2, <2>3 DEF Linked
<1>5. MemInv'
  BY <1>0, <1>4 DEF MemInv
<1>6. DistinctInv' /\ CountInv'
  BY <1>0 DEF DistinctInv, CountInv, Live
<1> QED
  BY <1>3, <1>5, <1>6

-----------------------------------------------------------------------------
LEMMA NextInv ==
  ASSUME IInv, [Next]_vars
  PROVE  IInv'
<1>1. CASE pmm_init_page
  <2>1. TypeOK /\ BuildInv /\ phase' = "init"
    BY <1>1 DEF IInv, pmm_init_page
  <2>2. TypeOK' /\ BuildInv'
    BY <1>1, <2>1, InitEntryInv, InitLinkInv
  <2> QED
    BY <2>1, <2>2 DEF IInv
<1>2. CASE pmm_init
  <2>1. TypeOK /\ BuildInv /\ phase' = "run"
    BY <1>2 DEF IInv, pmm_init
  <2> QED
    BY <1>2, <2>1, InitDoneInv DEF IInv
<1>3. CASE pmm_alloc_ppage
  <2>1. TypeOK /\ MemInv /\ DistinctInv /\ CountInv /\ phase' = "run"
    BY <1>3 DEF IInv, pmm_alloc_ppage
  <2> QED
    BY <1>3, <2>1, AllocInv DEF IInv
<1>4. CASE pmm_alloc_ppage_none
  <2>1. /\ TypeOK /\ MemInv /\ DistinctInv /\ CountInv /\ phase' = "run" /\ ret' = Invalid
        /\ UNCHANGED <<phase, mem, win, pcount, pidx, pfree, held, list>>
    BY <1>4 DEF IInv, pmm_alloc_ppage_none
  <2>2. TypeOK'
    BY <2>1 DEF TypeOK
  <2>3. (MemInv /\ DistinctInv /\ CountInv)'
    BY <2>1 DEF MemInv, DistinctInv, CountInv, Live, Linked
  <2> QED
    BY <2>1, <2>2, <2>3 DEF IInv
<1>5. ASSUME NEW p \in held, pmm_free_ppage(p) PROVE IInv'
  <2>1. TypeOK /\ MemInv /\ DistinctInv /\ CountInv /\ phase' = "run"
    BY <1>5 DEF IInv, pmm_free_ppage
  <2> QED
    BY <1>5, <2>1, FreeInv DEF IInv
<1>6. ASSUME NEW p \in held, Scribble(p) PROVE IInv'
  <2>1. phase = "run"
    BY <1>6 DEF IInv, BuildInv, TypeOK
  <2>2. TypeOK /\ MemInv /\ DistinctInv /\ CountInv /\ phase' = "run"
    BY <1>6, <2>1 DEF IInv, Scribble
  <2> QED
    BY <1>6, <2>2, ScribbleInv DEF IInv
<1>7. CASE UNCHANGED vars
  BY <1>7 DEF vars, IInv, TypeOK, BuildInv, MemInv, DistinctInv, CountInv, Live, Linked, Built
<1> QED
  BY <1>1, <1>2, <1>3, <1>4, <1>5, <1>6, <1>7 DEF Next

\* The inductive invariant of the allocator: memory holds the free list.
THEOREM Invariant == Spec => []IInv
<1>1. IInv /\ [Next]_vars => IInv'
  BY NextInv
<1> QED
  BY InitInv, <1>1, PTL DEF Spec

\* Every variable keeps its type: the indices and counters stay between 0 and
\* the number of pages, so that neither pidx nor pfree wraps.
THEOREM TypeCorrect == Spec => []TypeOK
<1>1. IInv => TypeOK
  BY DEF IInv
<1> QED
  BY Invariant, <1>1, PTL

\* The list page under the window of curr_pages is never an allocated page.
THEOREM WindowFree == Spec => []WindowIsFree
<1>1. IInv => WindowIsFree
  <2> SUFFICES ASSUME IInv, phase = "run", pfree > 0 PROVE win \in Frames \ held
    BY DEF WindowIsFree
  <2>1. TypeOK /\ MemInv /\ DistinctInv /\ CountInv
    BY DEF IInv
  <2>2. pidx \in pidx .. Last
    BY <2>1, Ranges DEF TypeOK, CountInv
  <2> QED
    BY <2>1, <2>2, ListPages DEF MemInv
<1> QED
  BY Invariant, <1>1, PTL

\* No page is handed out twice, and, but for the very last allocation, only
\* pages are handed out.
THEOREM NoDoubleAllocation == Spec => AllocFresh
<1>1. IInv /\ [Next]_vars => [Fresh]_vars
  <2> SUFFICES ASSUME IInv, Next PROVE Fresh
    OBVIOUS
  <2>0. pidx \in Int /\ pidx + 1 # pidx /\ pidx - 1 # pidx + 1
    BY DEF IInv, TypeOK
  <2>1. CASE pmm_alloc_ppage
    <3>1. TypeOK /\ MemInv /\ DistinctInv /\ CountInv
      BY <2>1 DEF IInv, pmm_alloc_ppage
    <3> QED
      BY <2>1, <3>1, AllocInv DEF Fresh
  <2>2. CASE pmm_init_page \/ pmm_init \/ pmm_alloc_ppage_none
    BY <2>0, <2>2 DEF Fresh, pmm_init_page, pmm_init, pmm_alloc_ppage_none
  <2>3. ASSUME NEW p \in held, pmm_free_ppage(p) \/ Scribble(p) PROVE Fresh
    BY <2>0, <2>3 DEF Fresh, pmm_free_ppage, Scribble
  <2> QED
    BY <2>1, <2>2, <2>3 DEF Next
<1> QED
  BY Invariant, <1>1, PTL DEF Spec, AllocFresh
=============================================================================
