---------------------------- MODULE ClientsProofs ----------------------------
(***************************************************************************)
(* Theorems about what a user sees and edits, for every value of the       *)
(* constants: the lists of providers and of devices, what a save of the    *)
(* configuration leaves alone, what sessions, terminals and messages show, *)
(* and what editors, wizards and the composer do to what they show.        *)
(***************************************************************************)
EXTENDS MCClients, SequenceLemmas, FiniteSetTheorems, SequenceTheorems,
        WellFoundedInduction, NaturalsInduction, TLAPS

-----------------------------------------------------------------------------
(* Sequences *)

\* Two sequences, one after the other.
LEMMA ConcatIs ==
  ASSUME NEW S, NEW a \in Seq(S), NEW b \in Seq(S)
  PROVE  /\ a \o b \in Seq(S) /\ Len(a \o b) = Len(a) + Len(b)
         /\ \A j \in 1..Len(a) : (a \o b)[j] = a[j]
         /\ \A j \in 1..Len(b) : (a \o b)[Len(a) + j] = b[j]
  OBVIOUS

-----------------------------------------------------------------------------
(* The files *)

\* The first entry of a name.
First(ps, n, i) == i \in DOMAIN ps /\ ps[i].name = n /\ \A j \in 1..(i - 1) : ps[j].name # n

LEMMA FirstExists ==
  ASSUME NEW ps \in Seq(Entries), NEW n, HasName(ps, n)
  PROVE  \E i \in DOMAIN ps : First(ps, n, i)
<1> DEFINE T == {i \in 1..Len(ps) : ps[i].name = n}
<1>1. DOMAIN ps = 1..Len(ps) /\ Len(ps) \in Nat
  OBVIOUS
<1>2. T # {} /\ T \subseteq Nat
  BY <1>1 DEF HasName
<1>3. PICK i \in T : \A j \in T : i <= j
  BY <1>2, NatMin
<1>4. \A j \in 1..(i - 1) : j \in 1..Len(ps) /\ ~(i <= j)
  BY <1>1, <1>3
<1> QED BY <1>1, <1>3, <1>4 DEF First

LEMMA FirstIs ==
  ASSUME NEW ps \in Seq(Entries), NEW n, NEW i, First(ps, n, i)
  PROVE  HasName(ps, n) /\ IndexOf(ps, n) = i
<1>1. DOMAIN ps = 1..Len(ps) /\ Len(ps) \in Nat
  OBVIOUS
<1>2. HasName(ps, n)
  BY DEF First, HasName
<1>3. ASSUME NEW k \in DOMAIN ps, ps[k].name = n /\ \A j \in 1..(k - 1) : ps[j].name # n
      PROVE  k = i
  <2>1. i \in 1..Len(ps) /\ ps[i].name = n /\ \A j \in 1..(i - 1) : ps[j].name # n
    BY <1>1 DEF First
  <2>2. ~(k < i) /\ ~(i < k)
    BY <1>1, <1>3, <2>1
  <2> QED BY <1>1, <2>1, <2>2
<1>4. \E k \in DOMAIN ps : ps[k].name = n /\ \A j \in 1..(k - 1) : ps[j].name # n
  BY DEF First
<1>5. IndexOf(ps, n) \in DOMAIN ps /\ ps[IndexOf(ps, n)].name = n
      /\ \A j \in 1..(IndexOf(ps, n) - 1) : ps[j].name # n
  BY <1>4, Zenon DEF IndexOf
<1> QED BY <1>2, <1>3, <1>5

LEMMA IndexIsFirst ==
  ASSUME NEW ps \in Seq(Entries), NEW n, HasName(ps, n)
  PROVE  First(ps, n, IndexOf(ps, n)) /\ IndexOf(ps, n) \in DOMAIN ps
<1>1. PICK i \in DOMAIN ps : First(ps, n, i)
  BY FirstExists
<1>2. IndexOf(ps, n) = i
  BY <1>1, FirstIs
<1> QED BY <1>1, <1>2

-----------------------------------------------------------------------------
(* What the files list *)

\* What the list shows of an entry beside its key.
Shows(p) == [name |-> p.name, url |-> IF p.url # Unset THEN p.url ELSE p.opt, models |-> p.models]

\* The first entries of a name, in the one sequence and in the other, show the same.
SameFor(ps, qs, n) ==
    \/ ~HasName(ps, n) /\ ~HasName(qs, n)
    \/ \E i \in DOMAIN ps, k \in DOMAIN qs :
          First(ps, n, i) /\ First(qs, n, k) /\ Shows(ps[i]) = Shows(qs[k])

Resolved(c) == [c EXCEPT !.providers = [i \in DOMAIN @ |-> ResolveProviderInterpolation(@[i])]]

LEMMA ResolveKeeps ==
  ASSUME NEW p \in Entries
  PROVE  /\ ResolveProviderInterpolation(p) \in Entries
         /\ Shows(ResolveProviderInterpolation(p)) = Shows(p)
         /\ ResolveProviderInterpolation(p).name = p.name
  BY DEF ResolveProviderInterpolation, Entries, Shows

LEMMA ResolvedKeeps ==
  ASSUME NEW c \in Configs
  PROVE  /\ Resolved(c) \in Configs /\ Resolved(c).cloud = c.cloud
         /\ Resolved(c).providers = [i \in DOMAIN c.providers |-> ResolveProviderInterpolation(c.providers[i])]
         /\ DOMAIN Resolved(c).providers = DOMAIN c.providers
         /\ \A i \in DOMAIN c.providers :
               /\ Resolved(c).providers[i] = ResolveProviderInterpolation(c.providers[i])
               /\ Shows(Resolved(c).providers[i]) = Shows(c.providers[i])
               /\ Resolved(c).providers[i].name = c.providers[i].name
<1> DEFINE ps == c.providers
           qs == [i \in DOMAIN ps |-> ResolveProviderInterpolation(ps[i])]
<1>1. ps \in Seq(Entries) /\ c.cloud \in BOOLEAN
  BY DEF Configs
<1>2. \A i \in DOMAIN ps : ps[i] \in Entries
  BY <1>1
<1>3. \A i \in DOMAIN ps : qs[i] \in Entries /\ Shows(qs[i]) = Shows(ps[i]) /\ qs[i].name = ps[i].name
  BY <1>2, ResolveKeeps
<1>4. qs \in [1..Len(ps) -> Entries] /\ Len(ps) \in Nat
  <2>1. DOMAIN ps = 1..Len(ps) /\ Len(ps) \in Nat
    BY <1>1
  <2> HIDE DEF ps
  <2> QED BY <1>3, <2>1
<1>5. qs \in Seq(Entries)
  BY <1>4, IsSeqOf
<1> HIDE DEF qs
<1>6. Resolved(c) = [c EXCEPT !.providers = qs]
  BY DEF Resolved, qs
<1>7. Resolved(c) \in Configs /\ Resolved(c).cloud = c.cloud /\ Resolved(c).providers = qs
  BY <1>5, <1>6 DEF Configs
<1> QED BY <1>3, <1>7 DEF qs

\* The file that is read.
ReadFrom(d) == IF d.cwd # Unset THEN d.cwd ELSE IF d.home # Unset THEN d.home ELSE NoConfig

LEMMA LoadedIs ==
  ASSUME NEW d \in Disks
  PROVE  ReadFrom(d) \in Configs /\ LoadConfig(d) = Resolved(ReadFrom(d)) /\ LoadConfig(d) \in Configs
<1>1. NoConfig \in Configs
  BY DEF NoConfig, Configs
<1>2. ReadFrom(d) \in Configs
  BY <1>1 DEF ReadFrom, Disks
<1>3. LoadConfig(d) = Resolved(ReadFrom(d))
  BY DEF LoadConfig, Resolved, ReadFrom
<1> QED BY <1>2, <1>3, ResolvedKeeps

\* What is saved is what is read next.
LEMMA SavedIsRead ==
  ASSUME NEW d \in Disks, NEW c \in Configs
  PROVE  /\ SaveConfig(d, c) \in Disks /\ SaveConfig(d, c).auth = d.auth
         /\ ReadFrom(SaveConfig(d, c)) = c
<1>1. SaveConfig(d, c) \in Disks /\ SaveConfig(d, c).auth = d.auth /\ SaveConfig(d, c).cwd = c
  BY DEF SaveConfig, Disks
<1> QED BY <1>1, ConfigAssumption DEF ReadFrom
-----------------------------------------------------------------------------
(* Rows of the list *)

\* Files that show the same of a name, and keep its key, list the same of it.
LEMMA SameRow ==
  ASSUME NEW d \in Disks, NEW e \in Disks, NEW n \in Names, e.auth[n] = d.auth[n],
         SameFor(LoadConfig(d).providers, ReadFrom(e).providers, n)
  PROVE  Row(e, n) = Row(d, n)
<1> DEFINE ps == LoadConfig(d).providers
           qs == ReadFrom(e).providers
           us == ListProviders(d)
           vs == ListProviders(e)
           lq == LoadConfig(e).providers
           line(x, p) == [name |-> p.name, url |-> IF p.url # Unset THEN p.url ELSE p.opt,
                          key |-> IF HasApiKey(x, p.name) THEN GetApiKey(x, p.name) ELSE Unset,
                          models |-> p.models]
<1>1. /\ ps \in Seq(Entries) /\ qs \in Seq(Entries) /\ lq \in Seq(Entries)
      /\ DOMAIN lq = DOMAIN qs
      /\ \A i \in DOMAIN qs : lq[i].name = qs[i].name /\ Shows(lq[i]) = Shows(qs[i])
  <2>1. /\ ReadFrom(d) \in Configs /\ LoadConfig(d) = Resolved(ReadFrom(d)) /\ LoadConfig(d) \in Configs
        /\ ReadFrom(e) \in Configs /\ LoadConfig(e) = Resolved(ReadFrom(e)) /\ LoadConfig(e) \in Configs
    BY LoadedIs
  <2>2. ps \in Seq(Entries) /\ qs \in Seq(Entries) /\ lq \in Seq(Entries)
    BY <2>1 DEF Configs
  <2>3. /\ DOMAIN Resolved(ReadFrom(e)).providers = DOMAIN qs
        /\ \A i \in DOMAIN qs : /\ Resolved(ReadFrom(e)).providers[i].name = qs[i].name
                                /\ Shows(Resolved(ReadFrom(e)).providers[i]) = Shows(qs[i])
    BY <2>1, ResolvedKeeps
  <2> QED BY <2>1, <2>2, <2>3
<1>2. us = [i \in DOMAIN ps |-> line(d, ps[i])] /\ vs = [i \in DOMAIN lq |-> line(e, lq[i])]
  BY DEF ListProviders
<1> HIDE DEF ps, qs, lq, us, vs
<1>3. \A i \in DOMAIN ps : us[i].name = ps[i].name /\ us[i] = line(d, ps[i])
  BY <1>1, <1>2
<1>4. \A i \in DOMAIN qs : vs[i].name = qs[i].name /\ vs[i] = line(e, lq[i])
  BY <1>1, <1>2
<1>5. DOMAIN us = DOMAIN ps /\ DOMAIN vs = DOMAIN qs
  BY <1>1, <1>2
<1>6. HasName(us, n) <=> HasName(ps, n)
  BY <1>3, <1>5 DEF HasName
<1>7. HasName(vs, n) <=> HasName(qs, n)
  BY <1>4, <1>5 DEF HasName
<1>8. CASE ~HasName(ps, n) /\ ~HasName(qs, n)
  BY <1>6, <1>7, <1>8 DEF Row, us, vs
<1>9. ASSUME NEW i \in DOMAIN ps, NEW k \in DOMAIN qs,
             First(ps, n, i), First(qs, n, k), Shows(ps[i]) = Shows(qs[k])
      PROVE  Row(e, n) = Row(d, n)
  <2>1. HasName(ps, n) /\ HasName(qs, n)
    BY <1>9 DEF First, HasName
  <2>2. IndexOf(us, n) = i
    <3>1. \A j \in 1..(i - 1) : j \in DOMAIN ps
      BY <1>1
    <3>2. us[i].name = n /\ i \in DOMAIN us /\ \A j \in 1..(i - 1) : us[j].name # n
      BY <1>3, <1>5, <1>9, <3>1 DEF First
    <3>3. ASSUME NEW m \in DOMAIN us, us[m].name = n, \A j \in 1..(m - 1) : us[j].name # n
          PROVE  m = i
      <4>1. m \in 1..Len(ps) /\ i \in 1..Len(ps) /\ Len(ps) \in Nat
        BY <1>1, <1>5
      <4>2. ~(m < i) /\ ~(i < m)
        BY <3>2, <3>3, <4>1
      <4> QED BY <4>1, <4>2
    <3>4. /\ IndexOf(us, n) \in DOMAIN us /\ us[IndexOf(us, n)].name = n
          /\ \A j \in 1..(IndexOf(us, n) - 1) : us[j].name # n
      BY <3>2, Zenon DEF IndexOf
    <3> QED BY <3>3, <3>4
  <2>3. IndexOf(vs, n) = k
    <3>1. \A j \in 1..(k - 1) : j \in DOMAIN qs
      BY <1>1
    <3>2. vs[k].name = n /\ k \in DOMAIN vs /\ \A j \in 1..(k - 1) : vs[j].name # n
      BY <1>4, <1>5, <1>9, <3>1 DEF First
    <3>3. ASSUME NEW m \in DOMAIN vs, vs[m].name = n, \A j \in 1..(m - 1) : vs[j].name # n
          PROVE  m = k
      <4>1. m \in 1..Len(qs) /\ k \in 1..Len(qs) /\ Len(qs) \in Nat
        BY <1>1, <1>5
      <4>2. ~(m < k) /\ ~(k < m)
        BY <3>2, <3>3, <4>1
      <4> QED BY <4>1, <4>2
    <3>4. /\ IndexOf(vs, n) \in DOMAIN vs /\ vs[IndexOf(vs, n)].name = n
          /\ \A j \in 1..(IndexOf(vs, n) - 1) : vs[j].name # n
      BY <3>2, Zenon DEF IndexOf
    <3> QED BY <3>3, <3>4
  <2>4. us[i] = vs[k]
    <3>1. Shows(ps[i]) = Shows(lq[k])
      BY <1>1, <1>9
    <3>2. ps[i].name = n /\ lq[k].name = n
      BY <1>1, <1>9 DEF First
    <3>3. HasApiKey(e, n) <=> HasApiKey(d, n)
      BY DEF HasApiKey, GetApiKey
    <3>4. GetApiKey(e, n) = GetApiKey(d, n)
      BY DEF GetApiKey
    <3>5. line(d, ps[i]) = line(e, lq[k])
      <4>1. /\ Shows(ps[i]).name = Shows(lq[k]).name /\ Shows(ps[i]).url = Shows(lq[k]).url
            /\ Shows(ps[i]).models = Shows(lq[k]).models
        BY <3>1
      <4>2. /\ ps[i].models = lq[k].models
            /\ (IF ps[i].url # Unset THEN ps[i].url ELSE ps[i].opt)
                 = (IF lq[k].url # Unset THEN lq[k].url ELSE lq[k].opt)
        BY <4>1 DEF Shows
      <4> QED BY <3>2, <3>3, <3>4, <4>2
    <3> QED BY <1>3, <1>4, <3>5
  <2>5. Row(d, n) = us[i] /\ Row(e, n) = vs[k]
    BY <1>6, <1>7, <2>1, <2>2, <2>3 DEF Row, us, vs
  <2> QED BY <2>4, <2>5
<1> QED BY <1>8, <1>9 DEF SameFor, ps, qs

\* Entries of a name that are left alone, while none is added, show the same.
LEMMA SameWhereKept ==
  ASSUME NEW ps \in Seq(Entries), NEW qs \in Seq(Entries), NEW n, Len(ps) <= Len(qs),
         \A j \in 1..Len(ps) : /\ qs[j].name = ps[j].name
                               /\ ps[j].name = n => Shows(qs[j]) = Shows(ps[j]),
         \A j \in (Len(ps) + 1)..Len(qs) : qs[j].name # n
  PROVE  SameFor(ps, qs, n)
<1>1. DOMAIN ps = 1..Len(ps) /\ DOMAIN qs = 1..Len(qs) /\ Len(ps) \in Nat /\ Len(qs) \in Nat
  OBVIOUS
<1>2. CASE ~HasName(ps, n)
  <2>1. \A j \in 1..Len(qs) : j \in 1..Len(ps) \/ j \in (Len(ps) + 1)..Len(qs)
    BY <1>1
  <2>2. ~HasName(qs, n)
    BY <1>1, <1>2, <2>1 DEF HasName
  <2> QED BY <1>2, <2>2 DEF SameFor
<1>3. CASE HasName(ps, n)
  <2>1. PICK i \in DOMAIN ps : First(ps, n, i)
    BY <1>3, FirstExists
  <2>2. i \in 1..Len(ps) /\ i \in 1..Len(qs) /\ ps[i].name = n /\ \A j \in 1..(i - 1) : ps[j].name # n
    BY <1>1, <2>1 DEF First
  <2>3. \A j \in 1..(i - 1) : j \in 1..Len(ps)
    BY <1>1, <2>2
  <2>4. First(qs, n, i) /\ Shows(ps[i]) = Shows(qs[i])
    BY <1>1, <2>2, <2>3 DEF First
  <2> QED BY <1>1, <2>1, <2>2, <2>4 DEF SameFor
<1> QED BY <1>2, <1>3

\* The entry of another name is taken away.
LEMMA SameWithout ==
  ASSUME NEW ps \in Seq(Entries), NEW n, NEW k \in DOMAIN ps, ps[k].name # n
  PROVE  RemoveAt(ps, k) \in Seq(Entries) /\ SameFor(ps, RemoveAt(ps, k), n)
<1>0. \A x, y \in Seq(Entries) :
        /\ x \o y \in Seq(Entries) /\ Len(x \o y) = Len(x) + Len(y)
        /\ \A j \in 1..Len(x) : (x \o y)[j] = x[j]
        /\ \A j \in 1..Len(y) : (x \o y)[Len(x) + j] = y[j]
  BY ConcatIs
<1> DEFINE len == Len(ps)
           qs == RemoveAt(ps, k)
<1>1. len \in Nat /\ DOMAIN ps = 1..len /\ k \in 1..len /\ ps \in [1..len -> Entries]
  OBVIOUS
<1>2. /\ qs \in Seq(Entries) /\ Len(qs) = len - 1
      /\ \A j \in 1..(len - 1) : qs[j] = IF j < k THEN ps[j] ELSE ps[j + 1]
  <2> DEFINE a == SubSeq(ps, 1, k - 1)
             b == SubSeq(ps, k + 1, len)
  <2>1. a \in Seq(Entries) /\ Len(a) = k - 1 /\ \A j \in 1..(k - 1) : a[j] = ps[j]
    <3>1. a = [j \in 1..(k - 1) |-> ps[j]]
      BY <1>1
    <3>2. \A j \in 1..(k - 1) : ps[j] \in Entries
      BY <1>1
    <3> HIDE DEF a
    <3>3. a \in [1..(k - 1) -> Entries]
      BY <3>1, <3>2
    <3>4. k - 1 \in Nat
      BY <1>1
    <3> QED BY <3>1, <3>3, <3>4, IsSeqOf
  <2>2. b \in Seq(Entries) /\ Len(b) = len - k /\ \A j \in 1..(len - k) : b[j] = ps[k + j]
    <3>1. b = [j \in 1..(len - k) |-> ps[k + j]]
      BY <1>1
    <3>2. \A j \in 1..(len - k) : ps[k + j] \in Entries
      BY <1>1
    <3> HIDE DEF b
    <3>3. b \in [1..(len - k) -> Entries]
      BY <3>1, <3>2
    <3>4. len - k \in Nat
      BY <1>1
    <3> QED BY <3>1, <3>3, <3>4, IsSeqOf
  <2>3. qs = a \o b
    BY DEF RemoveAt
  <2> HIDE DEF a, b, qs
  <2>4. /\ qs \in Seq(Entries) /\ Len(qs) = (k - 1) + (len - k)
        /\ \A j \in 1..(k - 1) : qs[j] = a[j]
        /\ \A j \in 1..(len - k) : qs[(k - 1) + j] = b[j]
    <3>1. /\ a \o b \in Seq(Entries) /\ Len(a \o b) = Len(a) + Len(b)
          /\ \A j \in 1..Len(a) : (a \o b)[j] = a[j]
          /\ \A j \in 1..Len(b) : (a \o b)[Len(a) + j] = b[j]
      <4>1. a \in Seq(Entries) /\ b \in Seq(Entries)
        BY <2>1, <2>2
      <4> QED BY <1>0, <4>1
    <3> QED BY <2>1, <2>2, <2>3, <3>1
  <2>5. Len(qs) = len - 1
    BY <1>1, <2>4
  <2>6. ASSUME NEW j \in 1..(len - 1) PROVE qs[j] = IF j < k THEN ps[j] ELSE ps[j + 1]
    <3>1. CASE j < k
      <4>1. j \in 1..(k - 1)
        BY <1>1, <3>1
      <4> QED BY <2>1, <2>4, <3>1, <4>1
    <3>2. CASE ~(j < k)
      <4> DEFINE m == j - (k - 1)
      <4>1. m \in 1..(len - k) /\ (k - 1) + m = j /\ k + m = j + 1
        BY <1>1, <3>2
      <4> HIDE DEF m
      <4> QED BY <2>2, <2>4, <3>2, <4>1
    <3> QED BY <3>1, <3>2
  <2> QED BY <2>4, <2>5, <2>6
<1> HIDE DEF qs
<1>3. DOMAIN qs = 1..(len - 1)
  BY <1>2
<1>4. CASE ~HasName(ps, n)
  <2>1. \A j \in 1..(len - 1) : j \in DOMAIN ps /\ j + 1 \in DOMAIN ps
    BY <1>1
  <2>2. ~HasName(qs, n)
    BY <1>2, <1>3, <1>4, <2>1 DEF HasName
  <2> QED BY <1>2, <1>4, <2>2 DEF SameFor, qs
<1>5. CASE HasName(ps, n)
  <2>1. PICK i \in DOMAIN ps : First(ps, n, i)
    BY <1>5, FirstExists
  <2>2. i \in 1..len /\ ps[i].name = n /\ i # k /\ \A j \in 1..(i - 1) : ps[j].name # n
    BY <1>1, <2>1 DEF First
  <2>3. CASE i < k
    <3>1. i \in 1..(len - 1) /\ qs[i] = ps[i]
      BY <1>1, <1>2, <2>2, <2>3
    <3>2. \A j \in 1..(i - 1) : j \in 1..(len - 1) /\ j < k
      BY <1>1, <2>2, <2>3
    <3>3. First(qs, n, i) /\ Shows(ps[i]) = Shows(qs[i])
      BY <1>2, <1>3, <2>2, <3>1, <3>2 DEF First
    <3> QED BY <1>2, <1>3, <2>1, <3>1, <3>3 DEF SameFor, qs
  <2>4. CASE k < i
    <3> DEFINE m == i - 1
    <3>1. m \in 1..(len - 1) /\ ~(m < k) /\ m + 1 = i
      BY <1>1, <2>2, <2>4
    <3>2. \A j \in 1..(m - 1) : j \in 1..(len - 1) /\ j \in 1..(i - 1) /\ j + 1 \in 1..(i - 1)
      BY <1>1, <2>2
    <3> HIDE DEF m
    <3>3. qs[m] = ps[i]
      BY <1>2, <3>1
    <3>4. First(qs, n, m) /\ Shows(ps[i]) = Shows(qs[m])
      BY <1>2, <1>3, <2>2, <3>1, <3>2, <3>3 DEF First
    <3> QED BY <1>2, <1>3, <2>1, <3>1, <3>4 DEF SameFor, qs
  <2> QED BY <1>1, <2>2, <2>3, <2>4
<1> QED BY <1>2, <1>4, <1>5 DEF qs

-----------------------------------------------------------------------------
(* What each function leaves *)

\* A row of another name is as before.
LEMMA SavedKeeps ==
  ASSUME NEW d \in Disks, NEW c \in Configs, NEW n \in Names,
         SameFor(LoadConfig(d).providers, c.providers, n)
  PROVE  Row(SaveConfig(d, c), n) = Row(d, n)
<1>1. /\ SaveConfig(d, c) \in Disks /\ SaveConfig(d, c).auth = d.auth
      /\ ReadFrom(SaveConfig(d, c)) = c
  BY SavedIsRead
<1> DEFINE e == SaveConfig(d, c)
<1> HIDE DEF e
<1> QED BY <1>1, SameRow DEF e

LEMMA KeyKeeps ==
  ASSUME NEW d \in Disks, NEW name \in Names, NEW key \in Maybe(Keys)
  PROVE  /\ SetApiKey(d, name, key) \in Disks
         /\ \A n \in Names \ {name} : Row(SetApiKey(d, name, key), n) = Row(d, n)
<1> DEFINE e == SetApiKey(d, name, key)
<1>1. /\ e \in Disks /\ e.cwd = d.cwd /\ e.home = d.home
      /\ \A n \in Names \ {name} : e.auth[n] = d.auth[n]
  BY DEF SetApiKey, Disks
<1> HIDE DEF e
<1>2. ASSUME NEW n \in Names \ {name} PROVE Row(e, n) = Row(d, n)
  <2>1. ReadFrom(e) = ReadFrom(d)
    BY <1>1 DEF ReadFrom
  <2>2. /\ ReadFrom(d) \in Configs /\ LoadConfig(d) = Resolved(ReadFrom(d)) /\ LoadConfig(d) \in Configs
    BY LoadedIs
  <2> DEFINE ps == LoadConfig(d).providers
             qs == ReadFrom(e).providers
  <2>3. /\ ps \in Seq(Entries) /\ qs \in Seq(Entries) /\ DOMAIN ps = DOMAIN qs
        /\ \A i \in DOMAIN qs : ps[i].name = qs[i].name /\ Shows(ps[i]) = Shows(qs[i])
    <3>1. /\ DOMAIN Resolved(ReadFrom(d)).providers = DOMAIN ReadFrom(d).providers
          /\ \A i \in DOMAIN ReadFrom(d).providers :
                /\ Resolved(ReadFrom(d)).providers[i].name = ReadFrom(d).providers[i].name
                /\ Shows(Resolved(ReadFrom(d)).providers[i]) = Shows(ReadFrom(d).providers[i])
      BY <2>2, ResolvedKeeps
    <3>2. ps \in Seq(Entries) /\ ReadFrom(d).providers \in Seq(Entries)
      BY <2>2 DEF Configs
    <3> QED BY <2>1, <2>2, <3>1, <3>2
  <2> HIDE DEF ps, qs
  <2>4. Len(ps) = Len(qs) /\ DOMAIN ps = 1..Len(ps) /\ Len(ps) \in Nat
    BY <2>3
  <2>5. SameFor(ps, qs, n)
    BY <2>3, <2>4, SameWhereKept
  <2> QED BY <1>1, <2>5, SameRow DEF ps, qs
<1> QED BY <1>1, <1>2 DEF e

LEMMA AddKeeps ==
  ASSUME NEW d \in Disks, NEW name \in Names, NEW url \in Maybe(Urls), NEW key \in Maybe(Keys),
         NEW models \in BOOLEAN
  PROVE  /\ AddProvider(d, name, url, key, models) \in Disks
         /\ \A n \in Names \ {name} : Row(AddProvider(d, name, url, key, models), n) = Row(d, n)
<1> DEFINE cfg == LoadConfig(d)
           old == cfg.providers
           ps == IF HasName(old, name)
                 THEN [old EXCEPT ![IndexOf(old, name)].url = url, ![IndexOf(old, name)].models = @ \/ models]
                 ELSE Append(old, Entry(name, url, models))
           qs == IF url \in {Unset, Blank} THEN ps ELSE [ps EXCEPT ![IndexOf(ps, name)].opt = url]
           new == [cfg EXCEPT !.providers = qs]
<1>1. cfg \in Configs /\ old \in Seq(Entries)
  BY LoadedIs DEF Configs
<1>2. AddProvider(d, name, url, key, models) = SetApiKey(SaveConfig(d, new), name, key)
  BY DEF AddProvider
<1> HIDE DEF cfg
<1>3. /\ ps \in Seq(Entries) /\ HasName(ps, name) /\ Len(old) <= Len(ps)
      /\ \A j \in 1..Len(old) : ps[j].name = old[j].name /\ (old[j].name # name => ps[j] = old[j])
      /\ \A j \in (Len(old) + 1)..Len(ps) : ps[j].name = name
  <2>1. CASE HasName(old, name)
    <3> DEFINE i == IndexOf(old, name)
               p == [old[i] EXCEPT !.url = url, !.models = @ \/ models]
    <3>1. i \in DOMAIN old /\ old[i].name = name
      BY <1>1, <2>1, IndexIsFirst DEF First
    <3>2. ps = [old EXCEPT ![i] = p]
      BY <2>1
    <3> HIDE DEF i, ps
    <3>3. old[i] \in Entries
      BY <1>1, <3>1
    <3>4. p \in Entries /\ p.name = name
      BY <3>1, <3>3 DEF Entries, Maybe
    <3> HIDE DEF p, old
    <3>5. ps \in Seq(Entries) /\ Len(ps) = Len(old) /\ \A j \in 1..Len(old) : ps[j] = IF j = i THEN p ELSE old[j]
      BY <1>1, <3>1, <3>2, <3>4
    <3>6. DOMAIN ps = 1..Len(ps) /\ DOMAIN old = 1..Len(old) /\ Len(old) \in Nat
      BY <1>1, <3>5
    <3>7. HasName(ps, name)
      BY <3>1, <3>4, <3>5, <3>6 DEF HasName
    <3> QED BY <3>1, <3>4, <3>5, <3>6, <3>7
  <2>2. CASE ~HasName(old, name)
    <3> DEFINE p == Entry(name, url, models)
    <3>1. p \in Entries /\ p.name = name
      BY DEF Entry, Entries, Maybe
    <3>2. ps = Append(old, p)
      BY <2>2
    <3> HIDE DEF p, ps, old
    <3>3. /\ ps \in Seq(Entries) /\ Len(ps) = Len(old) + 1 /\ Len(old) \in Nat
          /\ ps[Len(old) + 1] = p /\ \A j \in 1..Len(old) : ps[j] = old[j]
      BY <1>1, <3>1, <3>2, AppendProperties
    <3>4. DOMAIN ps = 1..Len(ps)
      BY <3>3
    <3>5. HasName(ps, name)
      BY <3>1, <3>3, <3>4 DEF HasName
    <3>6. \A j \in (Len(old) + 1)..Len(ps) : j = Len(old) + 1
      BY <3>3
    <3> QED BY <3>1, <3>3, <3>5, <3>6
  <2> QED BY <2>1, <2>2
<1> HIDE DEF ps, old
<1>4. /\ qs \in Seq(Entries) /\ Len(qs) = Len(ps)
      /\ \A j \in 1..Len(ps) : qs[j].name = ps[j].name /\ (ps[j].name # name => qs[j] = ps[j])
  <2>1. CASE url \in {Unset, Blank}
    BY <1>3, <2>1
  <2>2. CASE url \notin {Unset, Blank}
    <3> DEFINE i == IndexOf(ps, name)
               p == [ps[i] EXCEPT !.opt = url]
    <3>1. i \in DOMAIN ps /\ ps[i].name = name
      BY <1>3, IndexIsFirst DEF First
    <3>2. qs = [ps EXCEPT ![i] = p]
      BY <2>2
    <3> HIDE DEF i, qs
    <3>3. ps[i] \in Entries
      BY <1>3, <3>1
    <3>4. p \in Entries /\ p.name = name
      BY <3>1, <3>3 DEF Entries, Maybe
    <3> HIDE DEF p
    <3>5. qs \in Seq(Entries) /\ Len(qs) = Len(ps) /\ \A j \in 1..Len(ps) : qs[j] = IF j = i THEN p ELSE ps[j]
      BY <1>3, <3>1, <3>2, <3>4
    <3> QED BY <3>1, <3>4, <3>5
  <2> QED BY <2>1, <2>2
<1> HIDE DEF qs
<1>5. new \in Configs /\ new.providers = qs
  BY <1>1, <1>4 DEF Configs
<1> HIDE DEF new
<1>6. SaveConfig(d, new) \in Disks
  BY <1>5, SavedIsRead
<1>7. ASSUME NEW n \in Names \ {name} PROVE Row(SaveConfig(d, new), n) = Row(d, n)
  <2>1. Len(old) <= Len(qs) /\ Len(old) \in Nat
    BY <1>1, <1>3, <1>4
  <2>2. ASSUME NEW j \in 1..Len(old)
        PROVE  qs[j].name = old[j].name /\ (old[j].name = n => Shows(qs[j]) = Shows(old[j]))
    <3>1. j \in 1..Len(ps)
      BY <1>3, <2>1
    <3>2. /\ qs[j].name = ps[j].name /\ ps[j].name = old[j].name
          /\ old[j].name # name => qs[j] = old[j]
      BY <1>3, <1>4, <3>1
    <3> QED BY <3>2
  <2>3. ASSUME NEW j \in (Len(old) + 1)..Len(qs) PROVE qs[j].name # n
    <3>1. j \in 1..Len(ps)
      BY <1>4, <2>1
    <3> QED BY <1>3, <1>4, <3>1
  <2>4. SameFor(old, qs, n)
    BY <1>1, <1>4, <2>1, <2>2, <2>3, SameWhereKept
  <2> QED BY <1>5, <2>4, SavedKeeps DEF old, cfg
<1>8. \A n \in Names \ {name} : Row(SetApiKey(SaveConfig(d, new), name, key), n) = Row(SaveConfig(d, new), n)
  BY <1>6, KeyKeeps
<1>9. SetApiKey(SaveConfig(d, new), name, key) \in Disks
  BY <1>6, KeyKeeps
<1> QED BY <1>2, <1>7, <1>8, <1>9
-----------------------------------------------------------------------------
(* Entry after entry *)

\* What is done to a disk n times, once for each of the numbers up to n, leaves a disk after each.
LEMMA IterationExists ==
  ASSUME NEW n \in Nat, NEW d \in Disks, NEW step \in [((1..n) \X Disks) -> Disks]
  PROVE  \E f \in [0..n -> Disks] : f[0] = d /\ \A k \in 1..n : f[k] = step[<<k, f[k - 1]>>]
<1> DEFINE Done(m, f) == f[0] = d /\ \A k \in 1..m : f[k] = step[<<k, f[k - 1]>>]
           Bad == {m \in 0..n : ~ \E f \in [0..m -> Disks] : Done(m, f)}
<1> SUFFICES ASSUME Bad # {} PROVE FALSE
  <2>1. n \in 0..n
    OBVIOUS
  <2>2. CASE n \in Bad
    BY <2>2
  <2>3. CASE n \notin Bad
    <3>1. \E f \in [0..n -> Disks] : Done(n, f)
      BY <2>1, <2>3
    <3> QED BY <3>1
  <2> QED BY <2>2, <2>3
<1>1. Bad \subseteq Nat
  OBVIOUS
<1>2. PICK m \in Bad : \A j \in Bad : m <= j
  BY <1>1, NatMin
<1>3. m # 0
  <2> DEFINE f == [i \in 0..0 |-> d]
  <2>1. f \in [0..0 -> Disks] /\ Done(0, f)
    OBVIOUS
  <2> HIDE DEF f
  <2> QED BY <1>2, <2>1
<1>4. m - 1 \in 0..n /\ m - 1 \notin Bad /\ m \in 1..n /\ m \in Nat
  <2>1. m \in 0..n
    BY <1>2
  <2>2. m - 1 \in 0..n /\ m \in 1..n /\ ~(m <= m - 1)
    BY <1>3, <2>1
  <2>3. m - 1 \notin Bad
    BY <1>2, <2>2
  <2> QED BY <2>1, <2>2, <2>3
<1>5. PICK f \in [0..(m - 1) -> Disks] : Done(m - 1, f)
  BY <1>4
<1> DEFINE g == [i \in 0..m |-> IF i = m THEN step[<<m, f[m - 1]>>] ELSE f[i]]
<1>6. f[m - 1] \in Disks /\ step[<<m, f[m - 1]>>] \in Disks
  BY <1>4
<1>7. g \in [0..m -> Disks]
  BY <1>4, <1>6
<1>8. \A i \in 0..(m - 1) : g[i] = f[i]
  BY <1>4
<1>9. Done(m, g)
  <2>1. g[0] = d
    BY <1>4, <1>5, <1>8
  <2>2. ASSUME NEW k \in 1..m PROVE g[k] = step[<<k, g[k - 1]>>]
    <3>1. k - 1 \in 0..(m - 1) /\ g[k - 1] = f[k - 1]
      BY <1>4, <1>8
    <3>2. CASE k = m
      BY <3>1, <3>2
    <3>3. CASE k # m
      <4>1. k \in 1..(m - 1) /\ k \in 0..(m - 1)
        BY <1>4, <3>3
      <4> QED BY <1>5, <1>8, <3>1, <4>1
    <3> QED BY <3>2, <3>3
  <2> QED BY <2>1, <2>2
<1> HIDE DEF g
<1> QED BY <1>2, <1>7, <1>9

\* Each of the steps leaves a disk with the same rows of the names among others.
KeepsEach(g, n, others) ==
    \A k \in 1..n : g[k - 1] \in Disks =>
       g[k] \in Disks /\ \A m \in others : Row(g[k], m) = Row(g[k - 1], m)

\* What each of the steps keeps of the list, all of them keep.
LEMMA IterationKeeps ==
  ASSUME NEW n \in Nat, NEW d \in Disks, NEW g, NEW Others, g[0] = d,
         KeepsEach(g, n, Others)
  PROVE  g[n] \in Disks /\ \A m \in Others : Row(g[n], m) = Row(d, m)
<1> DEFINE Good(k) == g[k] \in Disks /\ \A m \in Others : Row(g[k], m) = Row(d, m)
           Bad == {k \in 0..n : ~Good(k)}
<1>1. Bad = {}
  <2> SUFFICES ASSUME Bad # {} PROVE FALSE
    OBVIOUS
  <2>1. Bad \subseteq Nat
    OBVIOUS
  <2>2. PICK k \in Bad : \A j \in Bad : k <= j
    BY <2>1, NatMin
  <2>3. k \in 0..n /\ k # 0
    BY <2>2
  <2>4. k \in 1..n /\ k - 1 \in 0..n /\ ~(k <= k - 1)
    BY <2>3
  <2>5. k - 1 \notin Bad
    BY <2>2, <2>4
  <2>6. Good(k - 1)
    BY <2>4, <2>5
  <2>7. Good(k)
    BY <2>4, <2>6 DEF KeepsEach
  <2> QED BY <2>2, <2>7
<1> QED BY <1>1

LEMMA RemoveKeeps ==
  ASSUME NEW d \in Disks, NEW name
  PROVE  /\ RemoveProvider(d, name) \in Disks
         /\ \A n \in Names \ {name} : Row(RemoveProvider(d, name), n) = Row(d, n)
<1> DEFINE cfg == LoadConfig(d)
           old == cfg.providers
           i == IndexOf(old, name)
           qs == RemoveAt(old, i)
           new == [cfg EXCEPT !.providers = qs]
<1>1. cfg \in Configs /\ old \in Seq(Entries)
  BY LoadedIs DEF Configs
<1>2. CASE ~HasName(old, name)
  BY <1>2 DEF RemoveProvider
<1>3. CASE HasName(old, name)
  <2>1. RemoveProvider(d, name) = SaveConfig(d, new)
    BY <1>3 DEF RemoveProvider
  <2>2. i \in DOMAIN old /\ old[i].name = name
    BY <1>1, <1>3, IndexIsFirst DEF First
  <2> HIDE DEF i, cfg
  <2>3. qs \in Seq(Entries)
    <3>1. \E n : n # name
      <4>1. Unset # Blank
        BY ConfigAssumption
      <4>2. Unset # name \/ Blank # name
        BY <4>1
      <4> QED BY <4>2
    <3>2. PICK n : n # name
      BY <3>1
    <3> HIDE DEF old
    <3> QED BY <1>1, <2>2, <3>2, SameWithout
  <2>4. ASSUME NEW n \in Names \ {name} PROVE SameFor(old, qs, n)
    <3> HIDE DEF old
    <3> QED BY <1>1, <2>2, SameWithout
  <2> HIDE DEF qs
  <2>5. new \in Configs /\ new.providers = qs
    BY <1>1, <2>3 DEF Configs
  <2> HIDE DEF new
  <2>6. SaveConfig(d, new) \in Disks
    BY <2>5, SavedIsRead
  <2>7. ASSUME NEW n \in Names \ {name} PROVE Row(SaveConfig(d, new), n) = Row(d, n)
    BY <2>4, <2>5, SavedKeeps DEF cfg
  <2> QED BY <2>1, <2>6, <2>7
<1> QED BY <1>2, <1>3

LEMMA UpdateKeeps ==
  ASSUME NEW d \in Disks, NEW name, NEW url \in Maybe(Urls)
  PROVE  /\ UpdateProvider(d, name, url) \in Disks
         /\ \A n \in Names \ {name} : Row(UpdateProvider(d, name, url), n) = Row(d, n)
<1> DEFINE cfg == LoadConfig(d)
           old == cfg.providers
           k == IndexOf(old, name)
           qs == [i \in DOMAIN old |-> IF i = k /\ url # Blank
                                       THEN [old[i] EXCEPT !.url = url, !.opt = url] ELSE old[i]]
           new == [cfg EXCEPT !.providers = qs]
<1>1. cfg \in Configs /\ old \in Seq(Entries)
  BY LoadedIs DEF Configs
<1>2. CASE ~HasName(old, name)
  BY <1>2 DEF UpdateProvider
<1>3. CASE HasName(old, name)
  <2>1. UpdateProvider(d, name, url) = SaveConfig(d, new)
    BY <1>3 DEF UpdateProvider
  <2>2. k \in DOMAIN old /\ old[k].name = name
    BY <1>1, <1>3, IndexIsFirst DEF First
  <2> HIDE DEF k, cfg
  <2>3. DOMAIN old = 1..Len(old) /\ Len(old) \in Nat
    BY <1>1
  <2>4. ASSUME NEW i \in DOMAIN old
        PROVE  qs[i] \in Entries /\ qs[i].name = old[i].name /\ (i # k => qs[i] = old[i])
    <3>1. old[i] \in Entries
      BY <1>1
    <3> HIDE DEF old
    <3> QED BY <3>1 DEF Entries, Maybe
  <2>5. qs \in [1..Len(old) -> Entries]
    <3> HIDE DEF old
    <3> QED BY <2>3, <2>4
  <2> HIDE DEF qs, old
  <2>6. qs \in Seq(Entries) /\ Len(qs) = Len(old)
    BY <2>3, <2>5, IsSeqOf
  <2>7. ASSUME NEW n \in Names \ {name} PROVE SameFor(old, qs, n)
    <3>1. \A j \in 1..Len(old) : qs[j].name = old[j].name /\ (old[j].name = n => Shows(qs[j]) = Shows(old[j]))
      BY <2>2, <2>3, <2>4
    <3>2. \A j \in (Len(old) + 1)..Len(qs) : qs[j].name # n
      BY <2>3, <2>6
    <3> QED BY <1>1, <2>3, <2>6, <3>1, <3>2, SameWhereKept
  <2>8. new \in Configs /\ new.providers = qs
    BY <1>1, <2>6 DEF Configs
  <2> HIDE DEF new
  <2>9. SaveConfig(d, new) \in Disks
    BY <2>8, SavedIsRead
  <2>10. ASSUME NEW n \in Names \ {name} PROVE Row(SaveConfig(d, new), n) = Row(d, n)
    BY <2>7, <2>8, SavedKeeps DEF cfg, old
  <2> QED BY <2>1, <2>9, <2>10
<1> QED BY <1>2, <1>3

LEMMA ImportOneKeeps ==
  ASSUME NEW d \in Disks, NEW p \in Imported
  PROVE  /\ ImportOne(d, p) \in Disks
         /\ \A n \in Names \ {p.name} : Row(ImportOne(d, p), n) = Row(d, n)
<1> DEFINE cfg == LoadConfig(d)
           old == cfg.providers
           q == Entry(p.name, p.url, p.models)
           qs == Append(old, q)
           new == [cfg EXCEPT !.providers = qs]
           url == IF p.url = Unset THEN Blank ELSE p.url
<1>1. cfg \in Configs /\ old \in Seq(Entries)
  BY LoadedIs DEF Configs
<1>2. /\ p.name \in Names \union {Blank} /\ p.url \in Maybe(Urls) /\ p.key \in Maybe(Keys)
      /\ p.models \in BOOLEAN /\ url \in Maybe(Urls)
  BY DEF Imported, Maybe
<1> HIDE DEF url
<1>3. CASE p.name = Blank
  BY <1>3 DEF ImportOne
<1>4. CASE p.name # Blank /\ p.key \notin {Unset, Blank}
  <2>1. ImportOne(d, p) = AddProvider(d, p.name, url, p.key, p.models)
    BY <1>4 DEF ImportOne, url
  <2> QED BY <1>2, <1>4, <2>1, AddKeeps
<1>5. CASE p.name # Blank /\ p.key \in {Unset, Blank} /\ HasName(old, p.name)
  BY <1>5 DEF ImportOne
<1>6. CASE p.name # Blank /\ p.key \in {Unset, Blank} /\ ~HasName(old, p.name)
  <2>1. ImportOne(d, p) = SaveConfig(d, new)
    BY <1>6 DEF ImportOne
  <2>2. q \in Entries /\ q.name = p.name
    BY <1>2, <1>6 DEF Entry, Entries, Maybe
  <2> HIDE DEF q, cfg
  <2>3. /\ qs \in Seq(Entries) /\ Len(qs) = Len(old) + 1 /\ Len(old) \in Nat
        /\ qs[Len(old) + 1] = q /\ \A j \in 1..Len(old) : qs[j] = old[j]
    BY <1>1, <2>2, AppendProperties
  <2> HIDE DEF qs, old
  <2>4. ASSUME NEW n \in Names \ {p.name} PROVE SameFor(old, qs, n)
    <3>1. \A j \in 1..Len(old) : qs[j].name = old[j].name /\ (old[j].name = n => Shows(qs[j]) = Shows(old[j]))
      BY <2>3
    <3>2. \A j \in (Len(old) + 1)..Len(qs) : j = Len(old) + 1
      BY <2>3
    <3>3. \A j \in (Len(old) + 1)..Len(qs) : qs[j].name # n
      BY <2>2, <2>3, <3>2
    <3>4. Len(old) <= Len(qs)
      BY <2>3
    <3> QED BY <1>1, <2>3, <3>1, <3>3, <3>4, SameWhereKept
  <2>5. new \in Configs /\ new.providers = qs
    BY <1>1, <2>3 DEF Configs
  <2> HIDE DEF new
  <2>6. SaveConfig(d, new) \in Disks
    BY <2>5, SavedIsRead
  <2>7. ASSUME NEW n \in Names \ {p.name} PROVE Row(SaveConfig(d, new), n) = Row(d, n)
    BY <2>4, <2>5, SavedKeeps DEF cfg, old
  <2> QED BY <2>1, <2>6, <2>7
<1> QED BY <1>3, <1>4, <1>5, <1>6

LEMMA ImportKeeps ==
  ASSUME NEW d \in Disks, NEW ps \in Seq(Imported)
  PROVE  /\ ImportProviders(d, ps) \in Disks
         /\ \A n \in Names : n \notin {ps[i].name : i \in DOMAIN ps} =>
               Row(ImportProviders(d, ps), n) = Row(d, n)
<1> DEFINE len == Len(ps)
           step == [a \in (1..len) \X Disks |-> ImportOne(a[2], ps[a[1]])]
           after == CHOOSE g : g = [i \in 0..Len(ps) |-> IF i = 0 THEN d ELSE ImportOne(g[i - 1], ps[i])]
<1>1. len \in Nat /\ DOMAIN ps = 1..len /\ \A i \in 1..len : ps[i] \in Imported
  BY ElementOfSeq
<1>2. ImportProviders(d, ps) = after[len]
  BY DEF ImportProviders
<1>3. step \in [((1..len) \X Disks) -> Disks]
  BY <1>1, ImportOneKeeps
<1>4. PICK f \in [0..len -> Disks] : f[0] = d /\ \A k \in 1..len : f[k] = step[<<k, f[k - 1]>>]
  <2>1. \A x \in Disks : \A n \in Nat : \A st \in [((1..n) \X Disks) -> Disks] :
           \E f \in [0..n -> Disks] : f[0] = x /\ \A k \in 1..n : f[k] = st[<<k, f[k - 1]>>]
    BY IterationExists
  <2> HIDE DEF step, len
  <2> QED BY <1>1, <1>3, <2>1
<1>5. \A k \in 1..len : k - 1 \in 0..len /\ f[k - 1] \in Disks /\ f[k] = ImportOne(f[k - 1], ps[k])
  <2> SUFFICES ASSUME NEW k \in 1..len
               PROVE  k - 1 \in 0..len /\ f[k - 1] \in Disks /\ f[k] = ImportOne(f[k - 1], ps[k])
    OBVIOUS
  <2>1. k - 1 \in 0..len /\ f[k - 1] \in Disks
    BY <1>1, <1>4
  <2> QED BY <1>4, <2>1
<1>6. f = [i \in 0..Len(ps) |-> IF i = 0 THEN d ELSE ImportOne(f[i - 1], ps[i])]
  <2> HIDE DEF step
  <2>1. \A i \in 0..len : i # 0 => i \in 1..len
    BY <1>1
  <2> QED BY <1>4, <1>5, <2>1
<1>7. after = [i \in 0..Len(ps) |-> IF i = 0 THEN d ELSE ImportOne(after[i - 1], ps[i])]
  BY <1>6
<1> HIDE DEF after, step
<1>8. after[0] = d /\ \A k \in 1..len : after[k] = ImportOne(after[k - 1], ps[k])
  BY <1>1, <1>7
<1> DEFINE Others == {n \in Names : \A i \in 1..len : ps[i].name # n}
<1>9. KeepsEach(after, len, Others)
  <2> SUFFICES ASSUME NEW k \in 1..len, after[k - 1] \in Disks
               PROVE  after[k] \in Disks /\ \A n \in Others : Row(after[k], n) = Row(after[k - 1], n)
    BY DEF KeepsEach
  <2>1. ps[k] \in Imported /\ \A n \in Others : n \in Names \ {ps[k].name}
    BY <1>1
  <2>2. after[k] = ImportOne(after[k - 1], ps[k])
    BY <1>8
  <2> HIDE DEF Others
  <2> QED BY <2>1, <2>2, ImportOneKeeps
<1>10. \A n \in Names : n \notin {ps[i].name : i \in DOMAIN ps} => n \in Others
  BY <1>1
<1> HIDE DEF Others, len
<1>11. after[len] \in Disks /\ \A n \in Others : Row(after[len], n) = Row(d, n)
  BY <1>1, <1>8, <1>9, IterationKeeps
<1> QED BY <1>2, <1>10, <1>11

LEMMA MigrateOneKeeps ==
  ASSUME NEW d \in Disks, NEW p \in Found, NEW names
  PROVE  /\ MigrateOne(d, p, names) \in Disks
         /\ \A n \in Names \ names : Row(MigrateOne(d, p, names), n) = Row(d, n)
<1> DEFINE url == IF p.url = Unset THEN Blank ELSE p.url
           key == IF p.key = Unset THEN Blank ELSE p.key
<1>1. p.name \in Names /\ url \in Maybe(Urls) /\ key \in Maybe(Keys)
  BY DEF Found, Maybe
<1>2. MigrateOne(d, p, names) = IF p.name \notin names THEN d ELSE AddProvider(d, p.name, url, key, FALSE)
  BY DEF MigrateOne
<1> DEFINE added == AddProvider(d, p.name, url, key, FALSE)
<1>3. added \in Disks /\ \A n \in Names \ {p.name} : Row(added, n) = Row(d, n)
  <2> HIDE DEF url, key
  <2> QED BY <1>1, AddKeeps
<1> HIDE DEF added
<1>4. p.name \in names => \A n \in Names \ names : n \in Names \ {p.name}
  OBVIOUS
<1>5. MigrateOne(d, p, names) = IF p.name \notin names THEN d ELSE added
  BY <1>2 DEF added
<1> QED BY <1>3, <1>4, <1>5

LEMMA MigrateKeeps ==
  ASSUME NEW d \in Disks, NEW ps \in Seq(Found), NEW names
  PROVE  /\ Migrate(d, ps, names) \in Disks
         /\ \A n \in Names \ names : Row(Migrate(d, ps, names), n) = Row(d, n)
<1> DEFINE len == Len(ps)
           step == [a \in (1..len) \X Disks |-> MigrateOne(a[2], ps[a[1]], names)]
           after == CHOOSE g : g = [i \in 0..Len(ps) |-> IF i = 0 THEN d ELSE MigrateOne(g[i - 1], ps[i], names)]
<1>1. len \in Nat /\ DOMAIN ps = 1..len /\ \A i \in 1..len : ps[i] \in Found
  BY ElementOfSeq
<1>2. Migrate(d, ps, names) = after[len]
  BY DEF Migrate
<1>3. step \in [((1..len) \X Disks) -> Disks]
  BY <1>1, MigrateOneKeeps
<1>4. PICK f \in [0..len -> Disks] : f[0] = d /\ \A k \in 1..len : f[k] = step[<<k, f[k - 1]>>]
  <2>1. \A x \in Disks : \A n \in Nat : \A st \in [((1..n) \X Disks) -> Disks] :
           \E f \in [0..n -> Disks] : f[0] = x /\ \A k \in 1..n : f[k] = st[<<k, f[k - 1]>>]
    BY IterationExists
  <2> HIDE DEF step, len
  <2> QED BY <1>1, <1>3, <2>1
<1>5. \A k \in 1..len : k - 1 \in 0..len /\ f[k - 1] \in Disks /\ f[k] = MigrateOne(f[k - 1], ps[k], names)
  <2> SUFFICES ASSUME NEW k \in 1..len
               PROVE  k - 1 \in 0..len /\ f[k - 1] \in Disks /\ f[k] = MigrateOne(f[k - 1], ps[k], names)
    OBVIOUS
  <2>1. k - 1 \in 0..len /\ f[k - 1] \in Disks
    BY <1>1, <1>4
  <2> QED BY <1>4, <2>1
<1>6. f = [i \in 0..Len(ps) |-> IF i = 0 THEN d ELSE MigrateOne(f[i - 1], ps[i], names)]
  <2> HIDE DEF step
  <2>1. \A i \in 0..len : i # 0 => i \in 1..len
    BY <1>1
  <2> QED BY <1>4, <1>5, <2>1
<1>7. after = [i \in 0..Len(ps) |-> IF i = 0 THEN d ELSE MigrateOne(after[i - 1], ps[i], names)]
  BY <1>6
<1> HIDE DEF after, step
<1>8. after[0] = d /\ \A k \in 1..len : after[k] = MigrateOne(after[k - 1], ps[k], names)
  BY <1>1, <1>7
<1> DEFINE Others == Names \ names
<1>9. KeepsEach(after, len, Others)
  <2> SUFFICES ASSUME NEW k \in 1..len, after[k - 1] \in Disks
               PROVE  after[k] \in Disks /\ \A n \in Others : Row(after[k], n) = Row(after[k - 1], n)
    BY DEF KeepsEach
  <2>1. ps[k] \in Found
    BY <1>1
  <2>2. after[k] = MigrateOne(after[k - 1], ps[k], names)
    BY <1>8
  <2> QED BY <2>1, <2>2, MigrateOneKeeps
<1> HIDE DEF Others, len
<1>10. after[len] \in Disks /\ \A n \in Others : Row(after[len], n) = Row(d, n)
  BY <1>1, <1>8, <1>9, IterationKeeps
<1> QED BY <1>2, <1>10 DEF Others

\* The cloud's settings are no provider: the list stays what it was.
LEMMA CloudKeeps ==
  ASSUME NEW d \in Disks
  PROVE  SaveCloud(d) \in Disks /\ ListProviders(SaveCloud(d)) = ListProviders(d)
<1> DEFINE cfg == LoadConfig(d)
           new == [cfg EXCEPT !.cloud = TRUE]
           e == SaveConfig(d, new)
           ps == cfg.providers
<1>1. /\ ReadFrom(d) \in Configs /\ cfg = Resolved(ReadFrom(d)) /\ cfg \in Configs
  BY LoadedIs
<1>2. new \in Configs /\ new.providers = ps /\ ps \in Seq(Entries)
  BY <1>1 DEF Configs
<1>3. SaveCloud(d) = e
  BY DEF SaveCloud
<1>4. \A i \in DOMAIN ps : ResolveProviderInterpolation(ps[i]) = ps[i]
  <2> DEFINE qs == ReadFrom(d).providers
  <2>1. DOMAIN ps = DOMAIN qs /\ \A i \in DOMAIN qs : ps[i] = ResolveProviderInterpolation(qs[i])
    BY <1>1, ResolvedKeeps
  <2>2. \A i \in DOMAIN qs : qs[i] \in Entries
    <3>1. qs \in Seq(Entries)
      BY <1>1 DEF Configs
    <3> HIDE DEF qs
    <3> QED BY <3>1
  <2> HIDE DEF qs
  <2> QED BY <2>1, <2>2 DEF ResolveProviderInterpolation, Entries
<1> HIDE DEF new
<1>5. e \in Disks /\ e.auth = d.auth /\ ReadFrom(e) = new
  BY <1>2, SavedIsRead
<1> HIDE DEF e
<1>6. LoadConfig(e).providers = [i \in DOMAIN new.providers |-> ResolveProviderInterpolation(new.providers[i])]
  BY <1>2, <1>5, LoadedIs, ResolvedKeeps
<1>7. LoadConfig(e).providers = ps
  <2>1. ps = [i \in DOMAIN ps |-> ps[i]]
    BY <1>2
  <2> HIDE DEF ps
  <2> QED BY <1>2, <1>4, <1>6, <2>1
<1> QED BY <1>3, <1>5, <1>7 DEF ListProviders, HasApiKey, GetApiKey
-----------------------------------------------------------------------------
(* The program *)

ConfigTypes ==
    /\ disk \in Disks /\ listed = ListProviders(disk) /\ selected \in Nat \ {0}
    /\ form \in [orig : Names \cup {Unset}, name : Names \cup {Blank}, url : Urls \cup {Blank},
                 key : Keys \cup {Blank}, field : Int]
    /\ picked \in [preset : Int, tool : Tools \cup {<<>>}, names : SUBSET Names]
    /\ text \in Imports \cup {Blank}

LEMMA Lines ==
  ASSUME NEW d \in Disks
  PROVE  /\ Len(ListProviders(d)) \in Nat
         /\ \A i \in 1..Len(ListProviders(d)) :
               ListProviders(d)[i].name \in Names /\ ListProviders(d)[i].url \in Maybe(Urls)
<1> DEFINE ps == LoadConfig(d).providers
<1>1. ps \in Seq(Entries)
  BY LoadedIs DEF Configs
<1>2. DOMAIN ps = 1..Len(ps) /\ Len(ps) \in Nat /\ \A i \in DOMAIN ps : ps[i] \in Entries
  BY <1>1
<1>3. /\ DOMAIN ListProviders(d) = DOMAIN ps
      /\ \A i \in DOMAIN ps : /\ ListProviders(d)[i].name = ps[i].name
                              /\ ListProviders(d)[i].url = IF ps[i].url # Unset THEN ps[i].url ELSE ps[i].opt
  BY DEF ListProviders
<1> HIDE DEF ps
<1>4. Len(ListProviders(d)) = Len(ps)
  BY <1>2, <1>3
<1> QED BY <1>2, <1>3, <1>4 DEF Entries

LEMMA ConfigTyped ==
  ASSUME ConfigInit
  PROVE  ConfigTypes
  BY ConfigAssumption DEF ConfigInit, ConfigTypes, NoForm, NoPick

\* What a step leaves: the files, the list of what they hold, and every row that is not meant.
Kept ==
    /\ disk' \in Disks /\ listed' = ListProviders(disk')
    /\ \A n \in Names : Row(disk', n) # Row(disk, n) => n \in Meant

LEMMA LeaveKeeps ==
  ASSUME ConfigTypes, NEW d \in Disks, SaveAndLeave(d),
         \A n \in Names \ Meant : Row(d, n) = Row(disk, n)
  PROVE  ConfigTypes' /\ Kept
<1>1. disk' = d /\ listed' = ListProviders(disk') /\ selected' = 1 /\ form' = NoForm /\ picked' = NoPick /\ text' = Blank
  BY DEF SaveAndLeave, Refresh, Forget
<1> QED BY <1>1 DEF ConfigTypes, Kept, NoForm, NoPick

LEMMA SubmitAddKeeps ==
  ASSUME ConfigTypes, SubmitAdd
  PROVE  ConfigTypes' /\ Kept
<1> DEFINE url == IF form.url = Blank THEN Unset ELSE form.url
<1>1. /\ view = "add_manual" /\ disk \in Disks /\ form.name \in Names
      /\ url \in Maybe(Urls) /\ form.key \in Maybe(Keys)
  BY DEF SubmitAdd, ConfigTypes, Maybe
<1>2. SaveAndLeave(AddProvider(disk, form.name, url, form.key, FALSE))
  BY DEF SubmitAdd
<1>3. Meant = {form.name}
  BY <1>1 DEF Meant
<1> HIDE DEF url
<1>4. /\ AddProvider(disk, form.name, url, form.key, FALSE) \in Disks
      /\ \A n \in Names \ Meant : Row(AddProvider(disk, form.name, url, form.key, FALSE), n) = Row(disk, n)
  BY <1>1, <1>3, AddKeeps
<1> QED BY <1>2, <1>4, LeaveKeeps

LEMMA SubmitEditKeeps ==
  ASSUME ConfigTypes, SubmitEdit
  PROVE  ConfigTypes' /\ Kept
<1> DEFINE url == IF form.url = Blank THEN Unset ELSE form.url
           name == form.name
           orig == form.orig
           key == form.key
           new == EditSubmission(disk, form)
<1>1. /\ view = "edit" /\ disk \in Disks /\ name \in Names /\ form.url \in Maybe(Urls)
      /\ url \in Maybe(Urls) /\ key \in Maybe(Keys)
  BY DEF SubmitEdit, ConfigTypes, Maybe
<1>2. SaveAndLeave(new)
  BY DEF SubmitEdit
<1>3. Meant = {orig, name}
  BY <1>1 DEF Meant
<1>4. new \in Disks /\ \A n \in Names \ {orig, name} : Row(new, n) = Row(disk, n)
  <2>1. CASE name # orig
    <3> DEFINE e == RemoveProvider(disk, orig)
    <3>1. new = AddProvider(e, name, url, key, FALSE)
      BY <2>1 DEF EditSubmission
    <3>2. e \in Disks /\ \A n \in Names \ {orig} : Row(e, n) = Row(disk, n)
      BY <1>1, RemoveKeeps
    <3> HIDE DEF e, url, name, orig, key, new
    <3>3. new \in Disks /\ \A n \in Names \ {name} : Row(new, n) = Row(e, n)
      BY <1>1, <3>1, <3>2, AddKeeps
    <3> QED BY <3>2, <3>3
  <2>2. CASE name = orig
    <3> DEFINE e == UpdateProvider(disk, orig, form.url)
    <3>1. new = IF key = Blank THEN e ELSE SetApiKey(e, name, key)
      BY <2>2 DEF EditSubmission
    <3>2. e \in Disks /\ \A n \in Names \ {orig} : Row(e, n) = Row(disk, n)
      BY <1>1, UpdateKeeps
    <3> HIDE DEF e, url, name, orig, key, new
    <3>3. SetApiKey(e, name, key) \in Disks /\ \A n \in Names \ {name} : Row(SetApiKey(e, name, key), n) = Row(e, n)
      BY <1>1, <3>2, KeyKeeps
    <3> QED BY <3>1, <3>2, <3>3
  <2> QED BY <2>1, <2>2
<1> HIDE DEF new, orig, name
<1> QED BY <1>2, <1>3, <1>4, LeaveKeeps

LEMMA SubmitImportKeeps ==
  ASSUME ConfigTypes, SubmitImport
  PROVE  ConfigTypes' /\ Kept
<1>1. view = "import_text" /\ disk \in Disks /\ text \in Seq(Imported)
  BY ConfigAssumption DEF SubmitImport, ConfigTypes
<1>2. SaveAndLeave(ImportProviders(disk, text))
  BY DEF SubmitImport
<1>3. Meant = {text[i].name : i \in DOMAIN text}
  BY <1>1 DEF Meant
<1>4. /\ ImportProviders(disk, text) \in Disks
      /\ \A n \in Names \ Meant : Row(ImportProviders(disk, text), n) = Row(disk, n)
  BY <1>1, <1>3, ImportKeeps
<1> QED BY <1>2, <1>4, LeaveKeeps

LEMMA ConfirmDeleteKeeps ==
  ASSUME ConfigTypes, ConfirmDelete
  PROVE  ConfigTypes' /\ Kept
<1> DEFINE name == listed[selected].name
<1>1. view = "delete_confirm" /\ disk \in Disks
  BY DEF ConfirmDelete, ConfigTypes
<1>2. SaveAndLeave(RemoveProvider(disk, name))
  BY DEF ConfirmDelete
<1>3. Meant = {name}
  BY <1>1 DEF Meant
<1> HIDE DEF name
<1>4. /\ RemoveProvider(disk, name) \in Disks
      /\ \A n \in Names \ Meant : Row(RemoveProvider(disk, name), n) = Row(disk, n)
  BY <1>1, <1>3, RemoveKeeps
<1> QED BY <1>2, <1>4, LeaveKeeps

LEMMA SubmitMigrationKeeps ==
  ASSUME ConfigTypes, SubmitMigration
  PROVE  ConfigTypes' /\ Kept
<1>1. view = "migration" /\ disk \in Disks /\ picked.tool \in Seq(Found)
  <2>1. picked.tool \in Tools \cup {<<>>} /\ <<>> \in Seq(Found)
    BY DEF ConfigTypes
  <2> QED BY <2>1, ConfigAssumption DEF SubmitMigration, ConfigTypes
<1>2. SaveAndLeave(Migrate(disk, picked.tool, picked.names))
  BY DEF SubmitMigration
<1>3. Meant = picked.names
  BY <1>1 DEF Meant
<1>4. /\ Migrate(disk, picked.tool, picked.names) \in Disks
      /\ \A n \in Names \ Meant : Row(Migrate(disk, picked.tool, picked.names), n) = Row(disk, n)
  BY <1>1, <1>3, MigrateKeeps
<1> QED BY <1>2, <1>4, LeaveKeeps

LEMMA CloudSavedKeeps ==
  ASSUME ConfigTypes, CloudSaved
  PROVE  ConfigTypes' /\ Kept
<1>1. disk \in Disks /\ disk' = SaveCloud(disk) /\ UNCHANGED <<listed, selected, form, picked, text>>
  BY DEF CloudSaved, ConfigTypes
<1>2. disk' \in Disks /\ ListProviders(disk') = ListProviders(disk)
  BY <1>1, CloudKeeps
<1> QED BY <1>1, <1>2 DEF ConfigTypes, Kept, Row

\* The steps that leave the files alone, in the order of the program's views.
LEMMA ConfigFormKeeps ==
  ASSUME ConfigTypes, EnterEdit \/ ChoosePreset \/ MoveField \/ Type \/ SubmitCloud \/ EnterAddManual \/ EnterCloud
  PROVE  ConfigTypes' /\ UNCHANGED <<disk, listed>>
<1>1. UNCHANGED <<disk, listed, selected, picked>>
  BY DEF EnterEdit, ChoosePreset, MoveField, Type, SubmitCloud, EnterAddManual, EnterCloud, Show
<1>2. text' \in Imports \cup {Blank}
  BY DEF EnterEdit, ChoosePreset, MoveField, Type, SubmitCloud, EnterAddManual, EnterCloud, ConfigTypes
<1> DEFINE Forms == [orig : Names \cup {Unset}, name : Names \cup {Blank}, url : Urls \cup {Blank},
                     key : Keys \cup {Blank}, field : Int]
<1>3. form \in Forms
  BY DEF ConfigTypes
<1>4. CASE EnterEdit
  <2> DEFINE p == listed[selected]
  <2>1. p.name \in Names /\ p.url \in Maybe(Urls)
    <3>1. listed = ListProviders(disk) /\ disk \in Disks /\ selected \in Nat \ {0} /\ selected <= Len(listed)
      BY <1>4 DEF EnterEdit, ConfigTypes
    <3>2. Len(listed) \in Nat
      BY <3>1, Lines
    <3>3. selected \in 1..Len(listed)
      BY <3>1, <3>2
    <3> QED BY <3>1, <3>3, Lines
  <2>2. form' = [orig |-> p.name, name |-> p.name, url |-> IF p.url = Unset THEN Blank ELSE p.url, key |-> Blank, field |-> 0]
    BY <1>4 DEF EnterEdit
  <2> HIDE DEF p
  <2>3. form' \in Forms
    BY <2>1, <2>2 DEF Maybe
  <2> QED BY <1>1, <1>2, <2>3 DEF ConfigTypes
<1>5. CASE ChoosePreset
  <2> DEFINE p == Presets[picked.preset]
  <2>1. p.name \in Names /\ p.url \in Urls
    <3>1. picked.preset \in DOMAIN Presets
      BY <1>5 DEF ChoosePreset
    <3>2. \A i \in DOMAIN Presets : Presets[i] \in [name : Names, url : Urls]
      <4>1. Presets \in Seq([name : Names, url : Urls])
        BY ConfigAssumption
      <4>2. \A R : Presets \in Seq(R) => \A i \in DOMAIN Presets : Presets[i] \in R
        OBVIOUS
      <4> QED BY <4>1, <4>2
    <3> QED BY <3>1, <3>2
  <2>2. form' = [NoForm EXCEPT !.name = p.name, !.url = p.url, !.field = 2]
    BY <1>5 DEF ChoosePreset
  <2> HIDE DEF p
  <2>3. form' = [orig |-> Unset, name |-> p.name, url |-> p.url, key |-> Blank, field |-> 2]
    BY <2>2 DEF NoForm
  <2>4. form' \in Forms
    BY <2>1, <2>3
  <2> QED BY <1>1, <1>2, <2>4 DEF ConfigTypes
<1>6. CASE MoveField
  <2>1. form' \in Forms
    BY <1>3, <1>6 DEF MoveField, Next3, Previous3
  <2> QED BY <1>1, <1>2, <2>1 DEF ConfigTypes
<1>7. CASE Type
  <2>1. form' \in Forms
    BY <1>3, <1>7 DEF Type
  <2> QED BY <1>1, <1>2, <2>1 DEF ConfigTypes
<1>8. CASE SubmitCloud
  <2>1. form' \in Forms
    BY <1>3, <1>8 DEF SubmitCloud
  <2> QED BY <1>1, <1>2, <2>1 DEF ConfigTypes
<1>9. CASE EnterAddManual \/ EnterCloud
  <2>1. form' \in Forms
    BY <1>9 DEF EnterAddManual, EnterCloud, NoForm
  <2> QED BY <1>1, <1>2, <2>1 DEF ConfigTypes
<1> QED BY <1>4, <1>5, <1>6, <1>7, <1>8, <1>9

LEMMA ConfigRestKeeps ==
  ASSUME ConfigTypes,
         \/ MoveSelection \/ EnterAddPreset \/ AskDelete \/ EnterImport \/ EnterExport
         \/ EnterMigration \/ EnterNode \/ EnterDiagnostics \/ MovePreset
         \/ SelectForMigration \/ Leave \/ ChecksEnd
  PROVE  ConfigTypes' /\ UNCHANGED <<disk, listed>>
<1>1. CASE MoveSelection
  <2>1. selected' \in Nat \ {0}
    BY <1>1 DEF MoveSelection
  <2> QED BY <1>1, <2>1 DEF MoveSelection, ConfigTypes
<1>2. CASE EnterAddPreset \/ MovePreset
  <2>1. picked' \in [preset : Int, tool : Tools \cup {<<>>}, names : SUBSET Names]
    <3>1. picked \in [preset : Int, tool : Tools \cup {<<>>}, names : SUBSET Names]
      BY DEF ConfigTypes
    <3>2. picked.preset \in Int
      BY <3>1
    <3> QED BY <1>2, <3>1, <3>2 DEF EnterAddPreset, MovePreset
  <2> QED BY <1>2, <2>1 DEF EnterAddPreset, MovePreset, Show, ConfigTypes
<1>3. CASE EnterMigration
  <2>1. picked' \in [preset : Int, tool : Tools \cup {<<>>}, names : SUBSET Names]
    BY <1>3 DEF EnterMigration, ConfigTypes
  <2> QED BY <1>3, <2>1 DEF EnterMigration, ConfigTypes
<1>4. CASE SelectForMigration
  <2> DEFINE all == {picked.tool[i].name : i \in DOMAIN picked.tool}
  <2>1. picked \in [preset : Int, tool : Tools \cup {<<>>}, names : SUBSET Names]
    BY DEF ConfigTypes
  <2>2. \A i \in DOMAIN picked.tool : picked.tool[i].name \in Names
    <3>1. picked.tool \in Tools \cup {<<>>} /\ <<>> \in Seq(Found)
      BY <2>1
    <3>2. picked.tool \in Seq(Found)
      BY <3>1, ConfigAssumption
    <3>3. \A i \in DOMAIN picked.tool : picked.tool[i] \in Found
      BY <3>2
    <3> QED BY <3>3 DEF Found
  <2>3. all \subseteq Names
    BY <2>2
  <2> HIDE DEF all
  <2>4. PICK names \in {all} \cup (IF picked.names # {} THEN {{}} ELSE {}) :
           picked' = [picked EXCEPT !.names = names]
    BY <1>4 DEF SelectForMigration, all
  <2>5. names \subseteq Names
    BY <2>3
  <2>6. picked' \in [preset : Int, tool : Tools \cup {<<>>}, names : SUBSET Names]
    BY <2>1, <2>4, <2>5
  <2> QED BY <1>4, <2>6 DEF SelectForMigration, ConfigTypes
<1>5. CASE Leave
  <2>1. form' = NoForm /\ picked' = NoPick /\ text' = Blank /\ disk' = disk
    BY <1>5 DEF Leave, Forget
  <2>2. UNCHANGED <<listed, selected>> \/ Refresh(disk)
    BY <1>5 DEF Leave
  <2>3. listed' = listed /\ selected' \in Nat \ {0}
    BY <2>2 DEF Refresh, ConfigTypes
  <2> QED BY <2>1, <2>3 DEF ConfigTypes, NoForm, NoPick
<1>6. CASE AskDelete \/ EnterImport \/ EnterExport \/ EnterNode \/ EnterDiagnostics \/ ChecksEnd
  BY <1>6 DEF AskDelete, EnterImport, EnterExport, EnterNode, EnterDiagnostics, ChecksEnd, Show, ConfigTypes
<1> QED BY <1>1, <1>2, <1>3, <1>4, <1>5, <1>6

LEMMA ConfigKeeps ==
  ASSUME ConfigTypes, ConfigNext
  PROVE  ConfigTypes' /\ Kept
<1>1. CASE UNCHANGED <<disk, listed>> /\ ConfigTypes'
  BY <1>1 DEF ConfigTypes, Kept
<1> QED BY <1>1, SubmitAddKeeps, SubmitEditKeeps, SubmitImportKeeps, ConfirmDeleteKeeps, SubmitMigrationKeeps,
           CloudSavedKeeps, ConfigFormKeeps, ConfigRestKeeps DEF ConfigNext
-----------------------------------------------------------------------------
(* The list of devices *)

DirectoryTypes ==
    /\ node \in StartCalls \cup {Unlisted} /\ stopping \in StartCalls \cup {Unlisted}
    /\ links \subseteq StartCalls \X Peers /\ observing \subseteq Observers
    /\ DOMAIN known = Peers /\ DOMAIN firstList = Observers /\ DOMAIN seen = Observers
    /\ unannounced \in BOOLEAN

DirectoryInv == DirectoryTypes /\ ListenersAreCurrent /\ OnlineIsConnected

LEMMA DirectoryStarts ==
  ASSUME DirectoryInit
  PROVE  DirectoryInv
  BY DEF DirectoryInit, DirectoryInv, DirectoryTypes, ListenersAreCurrent, OnlineIsConnected

\* Whoever listens has the list that is announced.
LEMMA AnnouncedIsCurrent ==
  ASSUME DirectoryTypes, Announce, observing' = observing
  PROVE  DOMAIN seen' = Observers /\ unannounced' \in BOOLEAN /\ ListenersAreCurrent'
<1>1. /\ seen' = [o \in Observers |-> IF o \in observing THEN VisibleOf(known', records') ELSE seen[o]]
      /\ unannounced' = FALSE
  BY DEF Announce
<1>2. \A o \in observing : seen'[o] = VisibleOf(known', records')
  BY <1>1 DEF DirectoryTypes
<1>3. Visible' = VisibleOf(known', records')
  BY DEF Visible, VisibleOf
<1> QED BY <1>1, <1>2, <1>3 DEF ListenersAreCurrent

\* Nothing of what is listed changed, and nobody was told.
LEMMA QuietIsCurrent ==
  ASSUME DirectoryInv, UNCHANGED <<known, records>>, Quiet, observing' \subseteq observing
  PROVE  DOMAIN seen' = Observers /\ unannounced' \in BOOLEAN /\ ListenersAreCurrent'
<1>1. Visible' = Visible
  BY DEF Visible, VisibleOf
<1> QED BY <1>1 DEF Quiet, DirectoryInv, DirectoryTypes, ListenersAreCurrent

LEMMA ListenersKeep ==
  ASSUME DirectoryInv, DirectoryNext
  PROVE  ListenersAreCurrent' /\ DirectoryTypes'
<1> USE DEF DirectoryInv
<1>1. ASSUME NEW o \in Observers, ObserveDevices(o)
      PROVE  ListenersAreCurrent' /\ DirectoryTypes'
  <2>1. Visible' = Visible
    BY <1>1 DEF ObserveDevices, Visible, VisibleOf
  <2>2. seen'[o] = Unlisted /\ \A i \in observing : i # o => seen'[i] = seen[i]
    BY <1>1 DEF ObserveDevices, DirectoryTypes
  <2>3. observing' = observing \union {o} /\ UNCHANGED <<late, unannounced>>
    BY <1>1 DEF ObserveDevices
  <2>4. ListenersAreCurrent'
    BY <2>1, <2>2, <2>3 DEF ListenersAreCurrent
  <2>5. DirectoryTypes'
    BY <1>1 DEF ObserveDevices, DirectoryTypes, service
  <2> QED BY <2>4, <2>5
<1>2. ASSUME NEW o \in Observers, DeliverFirst(o)
      PROVE  ListenersAreCurrent' /\ DirectoryTypes'
  <2>1. Visible' = Visible
    BY <1>2 DEF DeliverFirst, Visible, VisibleOf
  <2>2. seen'[o] = firstList[o] /\ \A i \in observing : i # o => seen'[i] = seen[i]
    BY <1>2 DEF DeliverFirst, DirectoryTypes
  <2>3. /\ observing' = observing /\ unannounced' = unannounced
        /\ late' = IF firstList[o] # Visible THEN late \union {o} ELSE late
    BY <1>2 DEF DeliverFirst
  <2>4. ListenersAreCurrent'
    BY <2>1, <2>2, <2>3 DEF ListenersAreCurrent
  <2>5. DirectoryTypes'
    BY <1>2 DEF DeliverFirst, DirectoryTypes, service
  <2> QED BY <2>4, <2>5
<1>3. ASSUME NEW o \in Observers, StopObserving(o)
      PROVE  ListenersAreCurrent' /\ DirectoryTypes'
  <2>1. Visible' = Visible
    BY <1>3 DEF StopObserving, Visible, VisibleOf
  <2> QED BY <1>3, <2>1 DEF StopObserving, ListenersAreCurrent, DirectoryTypes, service
<1>4. ASSUME NEW c \in StartCalls, LoadTrustedDevices(c)
      PROVE  ListenersAreCurrent' /\ DirectoryTypes'
  <2>1. UNCHANGED <<known, observing, seen, late>> /\ unannounced' = (unannounced \/ records' # records)
    BY <1>4 DEF LoadTrustedDevices, audience
  <2>2. records' = records => Visible' = Visible
    BY <2>1 DEF Visible, VisibleOf
  <2>3. unannounced => unannounced'
    BY <2>1
  <2>4. records' # records => unannounced'
    BY <2>1
  <2>5. unannounced' \in BOOLEAN
    BY <2>1
  <2>6. ListenersAreCurrent'
    BY <2>1, <2>2, <2>3, <2>4 DEF ListenersAreCurrent
  <2>7. DirectoryTypes'
    BY <1>4, <2>5 DEF LoadTrustedDevices, audience, DirectoryTypes
  <2> QED BY <2>6, <2>7
<1>5. CASE Stop \/ \E c \in StartCalls : Start(c) \/ CreateNode(c) \/ NodeFails(c)
  <2>1. UNCHANGED <<known, records, links, observing, firstList>> /\ Quiet
    BY <1>5 DEF Stop, Start, CreateNode, NodeFails, audience
  <2>2. node' \in StartCalls \cup {Unlisted} /\ stopping' \in StartCalls \cup {Unlisted}
    BY <1>5 DEF Stop, Start, CreateNode, NodeFails, DirectoryTypes
  <2>3. DOMAIN seen' = Observers /\ unannounced' \in BOOLEAN /\ ListenersAreCurrent'
    BY <2>1, QuietIsCurrent
  <2> QED BY <2>1, <2>2, <2>3 DEF DirectoryTypes
<1>6. CASE Stopped \/ \E c \in StartCalls : NodeStarted(c)
  <2>1. Announce /\ UNCHANGED <<links, observing, firstList>>
    BY <1>6 DEF Stopped, NodeStarted, audience
  <2>2. /\ node' \in StartCalls \cup {Unlisted} /\ stopping' \in StartCalls \cup {Unlisted}
        /\ DOMAIN known' = Peers
    BY <1>6 DEF Stopped, NodeStarted, DirectoryTypes
  <2>3. DOMAIN seen' = Observers /\ unannounced' \in BOOLEAN /\ ListenersAreCurrent'
    BY <2>1, AnnouncedIsCurrent
  <2> QED BY <2>1, <2>2, <2>3 DEF DirectoryTypes
<1>7. ASSUME NEW c \in StartCalls, NEW p \in Peers, PeerDiscovery(c, p) \/ PeerConnect(c, p) \/ PeerDisconnect(c, p)
      PROVE  ListenersAreCurrent' /\ DirectoryTypes'
  <2>1. UNCHANGED <<service, observing, firstList>> /\ links' \subseteq StartCalls \X Peers
    BY <1>7 DEF PeerDiscovery, PeerConnect, PeerDisconnect, audience, DirectoryTypes
  <2>2. /\ DOMAIN known' = Peers
        /\ Announce \/ (Quiet /\ UNCHANGED <<known, records>>)
    BY <1>7 DEF PeerDiscovery, PeerConnect, PeerDisconnect, MarkPeer, DirectoryTypes
  <2>3. DOMAIN seen' = Observers /\ unannounced' \in BOOLEAN /\ ListenersAreCurrent'
    BY <2>1, <2>2, AnnouncedIsCurrent, QuietIsCurrent
  <2> QED BY <2>1, <2>2, <2>3 DEF DirectoryTypes, service
<1>8. ASSUME NEW p \in Peers, UpsertDiscoveredDevice(p) \/ \E r \in {"trusted", "revoked"} : UpsertTrustedDevice(p, r)
      PROVE  ListenersAreCurrent' /\ DirectoryTypes'
  <2>1. UNCHANGED <<service, links, observing, firstList>> /\ Announce /\ DOMAIN known' = Peers
    BY <1>8 DEF UpsertDiscoveredDevice, UpsertTrustedDevice, audience, DirectoryTypes
  <2>2. DOMAIN seen' = Observers /\ unannounced' \in BOOLEAN /\ ListenersAreCurrent'
    BY <2>1, AnnouncedIsCurrent
  <2> QED BY <2>1, <2>2 DEF DirectoryTypes, service
<1> QED BY <1>1, <1>2, <1>3, <1>4, <1>5, <1>6, <1>7, <1>8 DEF DirectoryNext

LEMMA OnlineKeeps ==
  ASSUME DirectoryInv, DirectoryNext
  PROVE  OnlineIsConnected'
<1> USE DEF DirectoryInv, DirectoryTypes
<1>1. CASE UNCHANGED <<known, links>>
  BY <1>1 DEF OnlineIsConnected
<1>2. CASE Stopped
  BY <1>2 DEF Stopped, OnlineIsConnected
<1>3. ASSUME NEW c \in StartCalls, NEW p \in Peers, PeerDiscovery(c, p)
      PROVE  OnlineIsConnected'
  <2>1. links' = links /\ known' = [known EXCEPT ![p] = [state |-> "nearby", host |-> FALSE]]
    BY <1>3 DEF PeerDiscovery
  <2> QED BY <2>1 DEF OnlineIsConnected
<1>4. ASSUME NEW c \in StartCalls, NEW p \in Peers, PeerConnect(c, p)
      PROVE  OnlineIsConnected'
  <2>1. /\ links' = links \union {<<c, p>>}
        /\ known' = known \/ known' = [known EXCEPT ![p] = [state |-> "online", host |-> FALSE]]
    BY <1>4 DEF PeerConnect, MarkPeer
  <2> QED BY <2>1 DEF OnlineIsConnected
<1>5. ASSUME NEW c \in StartCalls, NEW p \in Peers, PeerDisconnect(c, p)
      PROVE  OnlineIsConnected'
  <2>1. /\ links' = links \ {<<c, p>>}
        /\ \/ known' = known /\ known[p] = Unlisted
           \/ known' = [known EXCEPT ![p] = [state |-> "offline", host |-> FALSE]]
    BY <1>5 DEF PeerDisconnect, MarkPeer
  <2>2. ASSUME NEW q \in Peers, known'[q] # Unlisted, known'[q].state = "online", ~known'[q].host
        PROVE  \E d \in StartCalls : <<d, q>> \in links'
    <3>1. q # p /\ known'[q] = known[q]
      BY <2>1, <2>2
    <3>2. PICK d \in StartCalls : <<d, q>> \in links
      BY <2>2, <3>1 DEF OnlineIsConnected
    <3> QED BY <2>1, <3>1, <3>2
  <2> QED BY <2>2 DEF OnlineIsConnected
<1>6. ASSUME NEW p \in Peers, UpsertDiscoveredDevice(p)
      PROVE  OnlineIsConnected'
  <2>1. links' = links
    BY <1>6 DEF UpsertDiscoveredDevice
  <2>2. known'[p].host /\ \A q \in Peers : q # p => known'[q] = known[q]
    BY <1>6 DEF UpsertDiscoveredDevice
  <2> QED BY <2>1, <2>2 DEF OnlineIsConnected
<1>7. ASSUME NEW o \in Observers, ObserveDevices(o) \/ DeliverFirst(o) \/ StopObserving(o)
      PROVE  UNCHANGED <<known, links>>
  BY <1>7 DEF ObserveDevices, DeliverFirst, StopObserving
<1>8. ASSUME NEW c \in StartCalls, Start(c) \/ LoadTrustedDevices(c) \/ CreateNode(c) \/ NodeStarted(c) \/ NodeFails(c)
      PROVE  UNCHANGED <<known, links>>
  BY <1>8 DEF Start, LoadTrustedDevices, CreateNode, NodeStarted, NodeFails
<1>9. ASSUME NEW p \in Peers, NEW record \in {"trusted", "revoked"}, UpsertTrustedDevice(p, record)
      PROVE  UNCHANGED <<known, links>>
  BY <1>9 DEF UpsertTrustedDevice
<1>10. Stop => UNCHANGED <<known, links>>
  BY DEF Stop
<1> QED BY <1>1, <1>2, <1>3, <1>4, <1>5, <1>6, <1>7, <1>8, <1>9, <1>10 DEF DirectoryNext

LEMMA DirectoryKeeps ==
  ASSUME DirectoryInv, DirectoryNext
  PROVE  DirectoryInv'
  BY ListenersKeep, OnlineKeeps DEF DirectoryInv
-----------------------------------------------------------------------------
(* The service in memory *)

Pairs == Observers \X Kinds
Trusts == {"none", "trusted", "revoked"}
Promises == [to : Pairs \cup {"all"}, kind : Kinds, list : [Peers -> Trusts] \cup SUBSET Pairings]

MemoryTypes ==
    /\ memory \in [trust : [Peers -> Trusts], pairing : [Pairings -> PairingRecords \cup {Unlisted}]]
    /\ listeners \subseteq Pairs /\ DOMAIN received = Pairs
    /\ promised \in Seq(Promises)

\* A promised list that will reach listener l.
Reaches(e, l) == IF e.to = "all" THEN e.kind = l[2] ELSE e.to = l

\* The last of the promised lists that reach a listener is the current one; a listener that none
\* of them reaches has it already.
LastIsCurrent(l) ==
    \/ /\ \A i \in 1..Len(promised) : ~Reaches(promised[i], l)
       /\ received[l] = ListOf(memory, l[2])
    \/ \E i \in 1..Len(promised) :
         /\ Reaches(promised[i], l) /\ promised[i].list = ListOf(memory, l[2])
         /\ \A j \in (i + 1)..Len(promised) : ~Reaches(promised[j], l)

MemoryInv == MemoryTypes /\ \A l \in listeners : LastIsCurrent(l)

LEMMA MemoryStarts ==
  ASSUME MemoryInit
  PROVE  MemoryInv
<1>1. listeners = {} /\ promised = <<>> /\ DOMAIN received = Pairs
  BY DEF MemoryInit, Pairs
<1>2. memory \in [trust : [Peers -> Trusts], pairing : [Pairings -> PairingRecords \cup {Unlisted}]]
  BY DEF MemoryInit, Trusts
<1>3. promised \in Seq(Promises)
  BY <1>1
<1> QED BY <1>1, <1>2, <1>3 DEF MemoryInv, MemoryTypes

LEMMA ListsAreLists ==
  ASSUME NEW m, m \in [trust : [Peers -> Trusts], pairing : [Pairings -> PairingRecords \cup {Unlisted}]],
         NEW kind \in Kinds
  PROVE  ListOf(m, kind) \in [Peers -> Trusts] \cup SUBSET Pairings
  BY DEF ListOf

\* Entries that carry the current list are appended; whoever they do not reach keeps its list.
LEMMA AppendedKeeps ==
  ASSUME MemoryInv, MemoryTypes', received' = received, NEW more \in Seq(Promises),
         promised' = promised \o more,
         \A i \in 1..Len(more) : \A l \in listeners' : Reaches(more[i], l) =>
            more[i].list = ListOf(memory', l[2]),
         \A l \in listeners' : \/ \E i \in 1..Len(more) : Reaches(more[i], l)
                               \/ l \in listeners /\ ListOf(memory', l[2]) = ListOf(memory, l[2])
  PROVE  MemoryInv'
<1>0. \A x, y \in Seq(Promises) :
        /\ x \o y \in Seq(Promises) /\ Len(x \o y) = Len(x) + Len(y)
        /\ \A j \in 1..Len(x) : (x \o y)[j] = x[j]
        /\ \A j \in 1..Len(y) : (x \o y)[Len(x) + j] = y[j]
  BY ConcatIs
<1> DEFINE n == Len(promised)
           k == Len(more)
<1>1. /\ n \in Nat /\ k \in Nat /\ Len(promised') = n + k
      /\ \A j \in 1..n : promised'[j] = promised[j]
      /\ \A j \in 1..k : promised'[n + j] = more[j]
  BY <1>0 DEF MemoryInv, MemoryTypes
<1>2. \A j \in (n + 1)..(n + k) : j - n \in 1..k /\ promised'[j] = more[j - n]
  <2> SUFFICES ASSUME NEW j \in (n + 1)..(n + k) PROVE j - n \in 1..k /\ promised'[j] = more[j - n]
    OBVIOUS
  <2>1. j - n \in 1..k /\ n + (j - n) = j
    BY <1>1
  <2> HIDE DEF n, k
  <2> QED BY <1>1, <2>1
<1> HIDE DEF n, k
<1>3. ASSUME NEW l \in listeners' PROVE LastIsCurrent(l)'
  <2> DEFINE H == {i \in 1..k : Reaches(more[i], l)}
  <2>1. CASE H # {}
    <3> DEFINE G == {k - i : i \in H}
    <3>1. G \subseteq Nat /\ G # {}
      BY <1>1, <2>1
    <3>2. PICK g \in G : \A h \in G : g <= h
      BY <3>1, NatMin
    <3>3. PICK i \in H : g = k - i
      BY <3>2
    <3>4. \A j \in (i + 1)..k : ~Reaches(more[j], l)
      <4> SUFFICES ASSUME NEW j \in (i + 1)..k, Reaches(more[j], l) PROVE FALSE
        OBVIOUS
      <4>1. i \in 1..k
        OBVIOUS
      <4>2. j \in 1..k
        BY <1>1, <4>1
      <4>3. g <= k - j
        BY <3>2, <4>2
      <4> QED BY <1>1, <3>3, <4>1, <4>3
    <3>5. i \in 1..k /\ n + i \in 1..(n + k) /\ promised'[n + i] = more[i]
      BY <1>1
    <3>6. Reaches(promised'[n + i], l) /\ promised'[n + i].list = ListOf(memory', l[2])
      BY <3>5 DEF k
    <3>7. \A j \in ((n + i) + 1)..(n + k) : ~Reaches(promised'[j], l)
      <4> SUFFICES ASSUME NEW j \in ((n + i) + 1)..(n + k) PROVE ~Reaches(promised'[j], l)
        OBVIOUS
      <4>1. j \in (n + 1)..(n + k) /\ j - n \in (i + 1)..k
        BY <1>1, <3>5
      <4> QED BY <1>2, <3>4, <4>1
    <3> QED BY <1>1, <3>5, <3>6, <3>7 DEF LastIsCurrent, Reaches
  <2>2. CASE H = {}
    <3>1. l \in listeners /\ ListOf(memory', l[2]) = ListOf(memory, l[2])
      BY <2>2 DEF k
    <3>2. \A j \in (n + 1)..(n + k) : ~Reaches(promised'[j], l)
      BY <1>2, <2>2
    <3>3. LastIsCurrent(l)
      BY <3>1 DEF MemoryInv
    <3>4. CASE /\ \A i \in 1..n : ~Reaches(promised[i], l)
               /\ received[l] = ListOf(memory, l[2])
      <4>1. \A i \in 1..(n + k) : i \in 1..n \/ i \in (n + 1)..(n + k)
        BY <1>1
      <4>2. \A i \in 1..(n + k) : ~Reaches(promised'[i], l)
        BY <1>1, <3>2, <3>4, <4>1
      <4> QED BY <1>1, <3>1, <3>4, <4>2 DEF LastIsCurrent, Reaches
    <3>5. CASE \E i \in 1..n :
                 /\ Reaches(promised[i], l) /\ promised[i].list = ListOf(memory, l[2])
                 /\ \A j \in (i + 1)..n : ~Reaches(promised[j], l)
      <4>1. PICK i \in 1..n :
                 /\ Reaches(promised[i], l) /\ promised[i].list = ListOf(memory, l[2])
                 /\ \A j \in (i + 1)..n : ~Reaches(promised[j], l)
        BY <3>5
      <4>2. i \in 1..(n + k) /\ promised'[i] = promised[i]
        BY <1>1
      <4>3. \A j \in (i + 1)..(n + k) : (j \in (i + 1)..n /\ j \in 1..n) \/ j \in (n + 1)..(n + k)
        BY <1>1
      <4>4. \A j \in (i + 1)..(n + k) : ~Reaches(promised'[j], l)
        BY <1>1, <3>2, <4>1, <4>3
      <4> QED BY <1>1, <3>1, <4>1, <4>2, <4>4 DEF LastIsCurrent, Reaches
    <3> QED BY <3>3, <3>4, <3>5 DEF LastIsCurrent, n
  <2> QED BY <2>1, <2>2
<1> QED BY <1>3 DEF MemoryInv

\* A call's lists, of the kinds it changed, are the current ones; the other kind did not change.
LEMMA EmitKeeps ==
  ASSUME MemoryInv, NEW m, NEW kinds \in SUBSET Kinds, Emit(m, kinds),
         m \in [trust : [Peers -> Trusts], pairing : [Pairings -> PairingRecords \cup {Unlisted}]],
         \A kind \in Kinds \ kinds : ListOf(m, kind) = ListOf(memory, kind)
  PROVE  MemoryInv'
<1>0. \A x, y \in Seq(Promises) :
        /\ x \o y \in Seq(Promises) /\ Len(x \o y) = Len(x) + Len(y)
        /\ \A j \in 1..Len(x) : (x \o y)[j] = x[j]
        /\ \A j \in 1..Len(y) : (x \o y)[Len(x) + j] = y[j]
  BY ConcatIs
<1> DEFINE P(kind) == [to |-> "all", kind |-> kind, list |-> ListOf(m, kind)]
           a == IF "pairing" \in kinds THEN <<P("pairing")>> ELSE <<>>
           b == IF "trust" \in kinds THEN <<P("trust")>> ELSE <<>>
<1>1. memory' = m /\ UNCHANGED <<listeners, received>>
  BY DEF Emit
<1>2. promised' = (promised \o a) \o b
  BY <1>1 DEF Emit, Promise
<1>3. \A kind \in Kinds : P(kind) \in Promises
  <2>1. \A kind \in Kinds : ListOf(m, kind) \in [Peers -> Trusts] \cup SUBSET Pairings
    BY ListsAreLists
  <2> QED BY <2>1 DEF Promises
<1>4. a \in Seq(Promises) /\ b \in Seq(Promises)
  <2>1. "pairing" \in Kinds /\ "trust" \in Kinds
    BY DEF Kinds
  <2> HIDE DEF P
  <2> QED BY <1>3, <2>1
<1>5. /\ (Len(a) = 0 /\ "pairing" \notin kinds) \/ (Len(a) = 1 /\ a[1] = P("pairing") /\ "pairing" \in kinds)
      /\ (Len(b) = 0 /\ "trust" \notin kinds) \/ (Len(b) = 1 /\ b[1] = P("trust") /\ "trust" \in kinds)
  <2> HIDE DEF P
  <2> QED OBVIOUS
<1> HIDE DEF a, b
<1> DEFINE more == a \o b
<1>6. /\ more \in Seq(Promises) /\ Len(more) = Len(a) + Len(b)
      /\ \A j \in 1..Len(a) : more[j] = a[j]
      /\ \A j \in 1..Len(b) : more[Len(a) + j] = b[j]
  BY <1>0, <1>4
<1>7. promised' = promised \o more
  <2>1. promised \in Seq(Promises)
    BY DEF MemoryInv, MemoryTypes
  <2>2. \A x, y, z \in Seq(Promises) : (x \o y) \o z = x \o (y \o z)
    BY ConcatAssociative
  <2> QED BY <1>2, <1>4, <2>1, <2>2
<1> HIDE DEF more
<1>8. \A i \in 1..Len(more) : \E kind \in kinds : more[i] = P(kind)
  <2> HIDE DEF P
  <2> QED BY <1>5, <1>6
<1>9. \A kind \in kinds : \E i \in 1..Len(more) : more[i] = P(kind)
  <2> HIDE DEF P
  <2>1. kinds \subseteq {"pairing", "trust"}
    BY DEF Kinds
  <2>2. "pairing" \in kinds => more[1] = P("pairing") /\ 1 \in 1..Len(more)
    BY <1>5, <1>6
  <2>3. "trust" \in kinds => more[Len(a) + 1] = P("trust") /\ Len(a) + 1 \in 1..Len(more)
    BY <1>5, <1>6
  <2> QED BY <2>1, <2>2, <2>3
<1>10. MemoryTypes'
  <2>1. promised' \in Seq(Promises)
    BY <1>0, <1>6, <1>7 DEF MemoryInv, MemoryTypes
  <2> QED BY <1>1, <2>1 DEF MemoryInv, MemoryTypes
<1>11. \A i \in 1..Len(more) : \A l \in listeners' : Reaches(more[i], l) => more[i].list = ListOf(memory', l[2])
  <2> SUFFICES ASSUME NEW i \in 1..Len(more), NEW l \in listeners', Reaches(more[i], l)
               PROVE  more[i].list = ListOf(memory', l[2])
    OBVIOUS
  <2>1. PICK kind \in kinds : more[i] = P(kind)
    BY <1>8
  <2>2. more[i].to = "all" /\ more[i].kind = kind /\ more[i].list = ListOf(m, kind)
    BY <2>1
  <2> HIDE DEF P
  <2> QED BY <1>1, <2>2 DEF Reaches
<1>12. ASSUME NEW l \in listeners'
       PROVE  \/ \E i \in 1..Len(more) : Reaches(more[i], l)
              \/ l \in listeners /\ ListOf(memory', l[2]) = ListOf(memory, l[2])
  <2>1. l \in listeners /\ l[2] \in Kinds
    BY <1>1 DEF MemoryInv, MemoryTypes, Pairs
  <2>2. CASE l[2] \in kinds
    <3>1. PICK i \in 1..Len(more) : more[i] = P(l[2])
      BY <1>9, <2>2
    <3>2. Reaches(more[i], l)
      BY <3>1 DEF Reaches
    <3> QED BY <3>2
  <2>3. CASE l[2] \notin kinds
    BY <1>1, <2>1, <2>3
  <2> QED BY <2>2, <2>3
<1>13. \A l \in listeners' : \/ \E i \in 1..Len(more) : Reaches(more[i], l)
                             \/ l \in listeners /\ ListOf(memory', l[2]) = ListOf(memory, l[2])
  BY <1>12
<1> HIDE DEF P
<1> QED BY <1>1, <1>6, <1>7, <1>10, <1>11, <1>13, AppendedKeeps

LEMMA ObserveMemoryKeeps ==
  ASSUME MemoryInv, NEW l \in Pairs, ObserveMemory(l)
  PROVE  MemoryInv'
<1> DEFINE e == [to |-> l, kind |-> l[2], list |-> ListOf(memory, l[2])]
           more == <<e>>
<1>1. UNCHANGED <<memory, received>> /\ listeners' = listeners \union {l} /\ promised' = Append(promised, e)
  BY DEF ObserveMemory, Promise
<1>2. l[2] \in Kinds
  BY DEF Pairs
<1>3. e \in Promises
  BY <1>2, ListsAreLists DEF Promises, MemoryInv, MemoryTypes
<1>4. e.to = l /\ e.list = ListOf(memory, l[2]) /\ l # "all"
  BY DirectoryAssumption DEF Pairs
<1> HIDE DEF e
<1>5. more \in Seq(Promises) /\ Len(more) = 1 /\ more[1] = e
  BY <1>3
<1>6. promised' = promised \o more
  BY <1>1, <1>3 DEF MemoryInv, MemoryTypes
<1> HIDE DEF more
<1>7. MemoryTypes'
  <2>1. \A s \in Seq(Promises) : Append(s, e) \in Seq(Promises)
    BY <1>3
  <2>2. promised' \in Seq(Promises)
    BY <1>1, <2>1 DEF MemoryInv, MemoryTypes
  <2> QED BY <1>1, <2>2 DEF MemoryInv, MemoryTypes
<1>8. \A k \in listeners' : Reaches(e, k) <=> k = l
  BY <1>4 DEF Reaches
<1>9. \A i \in 1..Len(more) : i = 1
  BY <1>5
<1>10. \A i \in 1..Len(more) : \A k \in listeners' : Reaches(more[i], k) => more[i].list = ListOf(memory', k[2])
  BY <1>1, <1>4, <1>5, <1>8, <1>9
<1>11. \A k \in listeners' : \/ \E i \in 1..Len(more) : Reaches(more[i], k)
                             \/ k \in listeners /\ ListOf(memory', k[2]) = ListOf(memory, k[2])
  BY <1>1, <1>5, <1>8
<1> QED BY <1>1, <1>5, <1>6, <1>7, <1>10, <1>11, AppendedKeeps

LEMMA DeliverListKeeps ==
  ASSUME MemoryInv, DeliverList
  PROVE  MemoryInv'
<1> DEFINE n == Len(promised)
           head == Head(promised)
           to == IF head.to = "all" THEN {l \in listeners : l[2] = head.kind} ELSE {head.to}
<1>1. promised \in Seq(Promises) /\ promised # <<>> /\ DOMAIN received = Pairs /\ listeners \subseteq Pairs
  BY DEF MemoryInv, MemoryTypes, DeliverList
<1>2. /\ promised' = Tail(promised) /\ UNCHANGED <<memory, listeners>>
      /\ received' = [l \in DOMAIN received |-> IF l \in to THEN head.list ELSE received[l]]
  BY DEF DeliverList
<1>3. /\ n \in Nat /\ n >= 1 /\ promised' \in Seq(Promises) /\ Len(promised') = n - 1
      /\ \A j \in 1..(n - 1) : promised'[j] = promised[j + 1]
      /\ head = promised[1]
  BY <1>1, <1>2
<1>4. MemoryTypes'
  BY <1>1, <1>2, <1>3 DEF MemoryInv, MemoryTypes
<1> HIDE DEF n, head
<1>5. \A l \in listeners : l \in to <=> Reaches(promised[1], l)
  BY <1>3 DEF Reaches
<1> HIDE DEF to
<1>6. ASSUME NEW l \in listeners' PROVE LastIsCurrent(l)'
  <2>1. l \in listeners /\ LastIsCurrent(l) /\ received'[l] = IF l \in to THEN head.list ELSE received[l]
    BY <1>1, <1>2 DEF MemoryInv
  <2>2. CASE /\ \A i \in 1..n : ~Reaches(promised[i], l)
             /\ received[l] = ListOf(memory, l[2])
    <3>1. 1 \in 1..n /\ \A i \in 1..(n - 1) : i + 1 \in 1..n
      BY <1>3
    <3>2. received'[l] = ListOf(memory', l[2]) /\ \A i \in 1..(n - 1) : ~Reaches(promised'[i], l)
      BY <1>2, <1>3, <1>5, <2>1, <2>2, <3>1
    <3> QED BY <1>3, <3>2 DEF LastIsCurrent, Reaches
  <2>3. CASE \E i \in 1..n :
               /\ Reaches(promised[i], l) /\ promised[i].list = ListOf(memory, l[2])
               /\ \A j \in (i + 1)..n : ~Reaches(promised[j], l)
    <3>1. PICK i \in 1..n :
               /\ Reaches(promised[i], l) /\ promised[i].list = ListOf(memory, l[2])
               /\ \A j \in (i + 1)..n : ~Reaches(promised[j], l)
      BY <2>3
    <3>2. CASE i = 1
      <4>1. received'[l] = ListOf(memory', l[2])
        BY <1>2, <1>3, <1>5, <2>1, <3>1, <3>2
      <4>2. \A j \in 1..(n - 1) : j + 1 \in (i + 1)..n
        BY <1>3, <3>2
      <4>3. \A j \in 1..(n - 1) : ~Reaches(promised'[j], l)
        BY <1>3, <3>1, <4>2
      <4> QED BY <1>3, <4>1, <4>3 DEF LastIsCurrent, Reaches
    <3>3. CASE i # 1
      <4>1. i - 1 \in 1..(n - 1) /\ (i - 1) + 1 = i
        BY <1>3, <3>3
      <4>2. promised'[i - 1] = promised[i]
        BY <1>3, <4>1
      <4>3. \A j \in ((i - 1) + 1)..(n - 1) : j \in 1..(n - 1) /\ j + 1 \in (i + 1)..n
        BY <1>3, <4>1
      <4>4. \A j \in ((i - 1) + 1)..(n - 1) : ~Reaches(promised'[j], l)
        BY <1>3, <3>1, <4>3
      <4> QED BY <1>2, <1>3, <3>1, <4>1, <4>2, <4>4 DEF LastIsCurrent, Reaches
    <3> QED BY <3>2, <3>3
  <2> QED BY <2>1, <2>2, <2>3 DEF LastIsCurrent, n
<1> QED BY <1>4, <1>6 DEF MemoryInv

LEMMA MemoryKeeps ==
  ASSUME MemoryInv, MemoryNext
  PROVE  MemoryInv'
<1> DEFINE Memories == [trust : [Peers -> Trusts], pairing : [Pairings -> PairingRecords \cup {Unlisted}]]
<1>0. memory \in Memories /\ Kinds = {"trust", "pairing"}
  BY DEF MemoryInv, MemoryTypes, Kinds
<1>1. ASSUME NEW l \in Pairs, StopListening(l) PROVE MemoryInv'
  <2>1. UNCHANGED <<memory, promised, received>> /\ listeners' = listeners \ {l}
    BY <1>1 DEF StopListening
  <2> QED BY <2>1 DEF MemoryInv, MemoryTypes, LastIsCurrent
<1>2. CASE StartOrStopMemory
  <2>1. Emit(memory, {"trust"})
    BY <1>2 DEF StartOrStopMemory
  <2> QED BY <1>0, <2>1, EmitKeeps
<1>3. ASSUME NEW s \in Pairings, NEW p \in Peers, RequestLocalPairing(s, p) PROVE MemoryInv'
  <2> DEFINE new == [memory EXCEPT !.pairing[s] = [peer |-> p, status |-> "pending", late |-> FALSE]]
  <2>1. Emit(new, {"pairing"})
    BY <1>3 DEF RequestLocalPairing
  <2>2. new \in Memories /\ new.trust = memory.trust
    BY <1>0 DEF PairingRecords
  <2> HIDE DEF new
  <2>3. ListOf(new, "trust") = ListOf(memory, "trust")
    BY <2>2 DEF ListOf
  <2> QED BY <1>0, <2>1, <2>2, <2>3, EmitKeeps
<1>4. ASSUME NEW s \in Pairings, PairingExpires(s) PROVE MemoryInv'
  <2> DEFINE old == memory.pairing
  <2>1. old \in [Pairings -> PairingRecords \cup {Unlisted}] /\ memory.trust \in [Peers -> Trusts]
    BY <1>0
  <2>2. memory' = [memory EXCEPT !.pairing[s].late = TRUE] /\ old[s] # Unlisted
        /\ UNCHANGED <<listeners, promised, received>>
    BY <1>4 DEF PairingExpires
  <2>3. old[s] \in PairingRecords
    BY <2>1, <2>2
  <2>4. [old[s] EXCEPT !.late = TRUE] \in PairingRecords
    BY <2>3 DEF PairingRecords
  <2>5. memory' = [trust |-> memory.trust, pairing |-> [old EXCEPT ![s] = [old[s] EXCEPT !.late = TRUE]]]
    BY <1>0, <2>2
  <2> DEFINE r == [old[s] EXCEPT !.late = TRUE]
  <2>6. r \in PairingRecords /\ r # Unlisted
    BY <2>4, DirectoryAssumption
  <2> HIDE DEF r
  <2>7. \A t \in Pairings : memory'.pairing[t] # Unlisted <=> old[t] # Unlisted
    <3>1. memory'.pairing = [old EXCEPT ![s] = r]
      BY <2>5 DEF r
    <3> HIDE DEF old
    <3> QED BY <2>1, <2>2, <2>6, <3>1
  <2> HIDE DEF old
  <2>8. memory'.trust = memory.trust
    BY <2>5
  <2>9. \A kind \in Kinds : ListOf(memory', kind) = ListOf(memory, kind)
    BY <2>7, <2>8 DEF ListOf, old
  <2>10. \A l \in listeners : l[2] \in Kinds
    BY DEF MemoryInv, MemoryTypes, Pairs
  <2>11. \A l \in listeners' : LastIsCurrent(l)'
    <3> SUFFICES ASSUME NEW l \in listeners' PROVE LastIsCurrent(l)'
      OBVIOUS
    <3>1. l \in listeners /\ LastIsCurrent(l) /\ ListOf(memory', l[2]) = ListOf(memory, l[2])
      BY <2>2, <2>9, <2>10 DEF MemoryInv
    <3> QED BY <2>2, <3>1 DEF LastIsCurrent, Reaches
  <2>12. MemoryTypes'
    <3>1. memory' \in Memories
      BY <2>1, <2>4, <2>5
    <3> QED BY <2>2, <3>1 DEF MemoryInv, MemoryTypes
  <2> QED BY <2>11, <2>12 DEF MemoryInv
<1>5. ASSUME NEW s \in Pairings, AcceptPairing(s) \/ RejectPairing(s) PROVE MemoryInv'
  <2> DEFINE old == memory.pairing
             acc == [old[s] EXCEPT !.status = "accepted"]
             rej == [old[s] EXCEPT !.status = "rejected"]
  <2>1. old \in [Pairings -> PairingRecords \cup {Unlisted}] /\ memory.trust \in [Peers -> Trusts]
    BY <1>0
  <2>2. old[s] # Unlisted
    BY <1>5 DEF AcceptPairing, RejectPairing
  <2>3. old[s] \in PairingRecords
    BY <2>1, <2>2
  <2>4. acc \in PairingRecords /\ rej \in PairingRecords /\ old[s].peer \in Peers
    BY <2>3 DEF PairingRecords
  <2> DEFINE x == [trust |-> [memory.trust EXCEPT ![old[s].peer] = "trusted"], pairing |-> [old EXCEPT ![s] = acc]]
             y == [trust |-> memory.trust, pairing |-> [old EXCEPT ![s] = rej]]
  <2>5. Emit(x, Kinds) \/ Emit(y, {"pairing"})
    <3>1. CASE AcceptPairing(s)
      <4> DEFINE z == [memory EXCEPT !.trust[old[s].peer] = "trusted"]
      <4>0. z = [trust |-> x.trust, pairing |-> old]
        BY <1>0
      <4>1. [z EXCEPT !.pairing[s].status = "accepted"] = x
        <5> DEFINE u == x.trust
        <5>1. x = [trust |-> u, pairing |-> [old EXCEPT ![s] = acc]] /\ z = [trust |-> u, pairing |-> old]
          BY <4>0
        <5> HIDE DEF x, z, u, old
        <5> QED BY <5>1 DEF acc
      <4> HIDE DEF x
      <4> QED BY <3>1, <4>1 DEF AcceptPairing
    <3>2. CASE RejectPairing(s)
      <4>1. [memory EXCEPT !.pairing[s].status = "rejected"] = y
        BY <1>0
      <4> HIDE DEF y
      <4> QED BY <3>2, <4>1 DEF RejectPairing
    <3> QED BY <1>5, <3>1, <3>2
  <2> HIDE DEF old, acc, rej
  <2>6. x \in Memories /\ y \in Memories /\ y.trust = memory.trust
    BY <2>1, <2>4 DEF Trusts
  <2> HIDE DEF x, y
  <2>7. ListOf(y, "trust") = ListOf(memory, "trust")
    BY <2>6 DEF ListOf
  <2>8. CASE Emit(x, Kinds)
    BY <2>6, <2>8, EmitKeeps
  <2>9. CASE Emit(y, {"pairing"})
    BY <1>0, <2>6, <2>7, <2>9, EmitKeeps
  <2> QED BY <2>5, <2>8, <2>9
<1>6. ASSUME NEW p \in Peers, RemoveTrustedDevice(p) PROVE MemoryInv'
  <2> DEFINE new == [memory EXCEPT !.trust[p] = "none"]
  <2>1. Emit(new, {"trust"})
    BY <1>6 DEF RemoveTrustedDevice
  <2>2. new \in Memories /\ new.pairing = memory.pairing
    BY <1>0 DEF Trusts
  <2> HIDE DEF new
  <2>3. ListOf(new, "pairing") = ListOf(memory, "pairing")
    BY <2>2 DEF ListOf
  <2> QED BY <1>0, <2>1, <2>2, <2>3, EmitKeeps
<1> QED BY <1>1, <1>2, <1>3, <1>4, <1>5, <1>6, DeliverListKeeps, ObserveMemoryKeeps DEF MemoryNext, Pairs

LEMMA MemoryIsCurrent ==
  ASSUME MemoryInv
  PROVE  MemoryListsAreCurrent
<1>1. promised = <<>> => Len(promised) = 0
  OBVIOUS
<1> QED BY <1>1 DEF MemoryInv, LastIsCurrent, MemoryListsAreCurrent
-----------------------------------------------------------------------------
(* The lists of all parts *)

ListsInv == ConfigTypes /\ DirectoryInv /\ MemoryInv

LEMMA ListsStart ==
  ASSUME Init
  PROVE  ListsInv
  BY ConfigTyped, DirectoryStarts, MemoryStarts DEF Init, ListsInv

LEMMA ConfigRests ==
  ASSUME ConfigTypes, UNCHANGED configVars
  PROVE  ConfigTypes'
  BY DEF ConfigTypes, configVars

LEMMA DirectoryRests ==
  ASSUME DirectoryInv, UNCHANGED directoryVars
  PROVE  DirectoryInv'
<1>1. UNCHANGED <<node, stopping, known, records, links, observing, firstList, seen, late, unannounced>>
  BY DEF directoryVars
<1>2. Visible' = Visible
  BY <1>1 DEF Visible, VisibleOf
<1>3. ListenersAreCurrent'
  BY <1>1, <1>2 DEF DirectoryInv, ListenersAreCurrent
<1>4. DirectoryTypes' /\ OnlineIsConnected'
  BY <1>1 DEF DirectoryInv, DirectoryTypes, OnlineIsConnected
<1> QED BY <1>3, <1>4 DEF DirectoryInv

LEMMA MemoryRests ==
  ASSUME MemoryInv, UNCHANGED memoryVars
  PROVE  MemoryInv'
<1>1. UNCHANGED <<memory, listeners, promised, received>>
  BY DEF memoryVars
<1> QED BY <1>1 DEF MemoryInv, MemoryTypes, LastIsCurrent

\* A step is one of the configuration, of the list of devices, of the service in memory, or of a
\* part that has none of these lists.
LEMMA PartsOfStep ==
  ASSUME [Next]_clientVars
  PROVE  /\ ConfigNext \/ UNCHANGED configVars
         /\ DirectoryNext \/ UNCHANGED directoryVars
         /\ MemoryNext \/ UNCHANGED memoryVars
<1>1. CASE UNCHANGED clientVars
  BY <1>1 DEF clientVars
<1>2. CASE Next
  BY <1>2 DEF Next
<1> QED BY <1>1, <1>2

LEMMA ListsKeep ==
  ASSUME ListsInv, [Next]_clientVars
  PROVE  ListsInv'
<1>1. ConfigTypes'
  BY PartsOfStep, ConfigKeeps, ConfigRests DEF ListsInv
<1>2. DirectoryInv'
  BY PartsOfStep, DirectoryKeeps, DirectoryRests DEF ListsInv
<1>3. MemoryInv'
  BY PartsOfStep, MemoryKeeps, MemoryRests DEF ListsInv
<1> QED BY <1>1, <1>2, <1>3 DEF ListsInv

LEMMA ListsHold == FairSpec => []ListsInv
<1>1. Init => ListsInv
  BY ListsStart
<1>2. ListsInv /\ [Next]_clientVars => ListsInv'
  BY ListsKeep
<1> QED BY <1>1, <1>2, PTL DEF FairSpec

(***************************************************************************)
(* What the configuration shows is what its files hold; a listener has the *)
(* current list of devices, but where its first list came after a newer    *)
(* one or a start has not come up; a device shown online is connected; and *)
(* once the lists of the service in memory have come, they are the current *)
(* ones (refresh, emitDevices, observeDevices and their callers).          *)
(***************************************************************************)
THEOREM ListsStayCurrent == FairSpec => []ListsAreCurrent
<1>1. ListsInv => ListsAreCurrent
  <2>1. ConfigTypes => ListIsCurrent
    BY DEF ConfigTypes, ListIsCurrent
  <2>2. DirectoryInv => ListenersAreCurrent /\ OnlineIsConnected
    BY DEF DirectoryInv
  <2> QED BY <2>1, <2>2, MemoryIsCurrent DEF ListsInv, ListsAreCurrent
<1> QED BY <1>1, ListsHold, PTL

(***************************************************************************)
(* No step of the configuration changes, adds or removes a provider the    *)
(* user did not point at, although every save writes the files whole and   *)
(* may move them from the home directory (addProvider, removeProvider,     *)
(* updateProvider, importProviders, the migration and the cloud's save).   *)
(***************************************************************************)
THEOREM OthersStay == FairSpec => OthersUntouched
<1>1. ListsInv /\ [Next]_clientVars =>
        [\A n \in Names : Row(disk', n) # Row(disk, n) => n \in Meant]_configVars
  <2> SUFFICES ASSUME ListsInv, [Next]_clientVars
               PROVE  [\A n \in Names : Row(disk', n) # Row(disk, n) => n \in Meant]_configVars
    OBVIOUS
  <2> QED BY PartsOfStep, ConfigKeeps DEF ListsInv, Kept
<1> QED BY <1>1, ListsHold, PTL DEF FairSpec, OthersUntouched
-----------------------------------------------------------------------------
(* The chat of the terminal *)

OnlyTools(s) == \A i \in 1..Len(s) : s[i] = "tool"

ToolsThen(s, last) ==
    /\ Len(s) > 0 /\ s[Len(s)] = last
    /\ \A i \in 1..(Len(s) - 1) : s[i] = "tool"

KeptTexts == {"system", "error", "tool", "assistant"}

\* A second message cannot be submitted, since the screen goes on thinking.
TuiInv ==
    /\ response \in Seq(Nat) /\ response = produced /\ \A i \in 1..Len(response) : response[i] = i
    /\ kept \in Seq(KeptTexts)
    /\ launch \in {"init", "noProvider", "config", "resume"} => turn = "idle"
    /\ launch = "chat" => turn = "idle" \/ screen.thinking = TRUE
    /\ launch = "print" => turn \in {"idle", "running"} /\ kept = <<>>
    /\ turn \in {"idle", "hooks", "provider"} => kept = <<>>
    /\ turn \in {"running", "waiting"} => OnlyTools(kept)
    /\ turn = "answered" => kept = <<>> \/ ToolsThen(kept, "assistant")
    /\ turn = "failed" => kept = <<>> \/ ToolsThen(kept, "error")

LEMMA TuiStarts ==
  ASSUME TuiInit
  PROVE  TuiInv
  BY DEF TuiInit, TuiInv

LEMMA TuiLaunches ==
  ASSUME TuiInv, CreateRuntime \/ LaunchFails \/ AnswerNoProvider \/ Configured \/ LeaveChat
  PROVE  TuiInv'
<1>1. UNCHANGED <<screen, kept, turn, produced, response, said>>
  BY DEF CreateRuntime, LaunchFails, AnswerNoProvider, Configured, LeaveChat, chatState
<1>2. /\ launch' = "chat" => launch = "chat"
      /\ launch' \in {"init", "noProvider", "config", "resume"} =>
            launch \in {"init", "noProvider", "config", "resume"}
      /\ launch' = "print" => launch = "print"
  BY DEF CreateRuntime, LaunchFails, AnswerNoProvider, Configured, LeaveChat
<1> QED BY <1>1, <1>2 DEF TuiInv, OnlyTools, ToolsThen

LEMMA TuiSubmits ==
  ASSUME TuiInv, NEW what, ResumeSession \/ SubmitMessage(what)
  PROVE  TuiInv'
<1>1. CASE ResumeSession
  <2>1. launch = "resume" /\ launch' = "chat" /\ UNCHANGED <<kept, turn, produced, response, said>>
    BY <1>1 DEF ResumeSession
  <2> QED BY <2>1 DEF TuiInv, OnlyTools, ToolsThen
<1>2. CASE SubmitMessage(what)
  <2>1. /\ launch = "chat" /\ ~screen.thinking /\ turn' = "hooks" /\ response' = <<>> /\ produced' = <<>>
        /\ UNCHANGED <<launch, kept>>
        /\ screen' = [screen EXCEPT !.messages = Append(@, "user"), !.thinking = TRUE]
    BY <1>2 DEF SubmitMessage
  <2>2. turn = "idle" /\ kept = <<>>
    BY <2>1 DEF TuiInv
  <2> QED BY <2>1, <2>2 DEF TuiInv
<1> QED BY <1>1, <1>2

\* What an entry of the dispatcher adds; the screen stays as it is.
LEMMA Added ==
  ASSUME TuiInv, NEW m \in KeptTexts, NEW thinking, AddMessage(m, thinking)
  PROVE  /\ screen' = screen /\ kept' \in Seq(KeptTexts) /\ Len(kept') = Len(kept) + 1
         /\ kept'[Len(kept')] = m /\ Len(kept) \in Nat
         /\ \A i \in 1..Len(kept) : kept'[i] = kept[i]
  BY DEF TuiInv, AddMessage, Dispatched, Connected

LEMMA TuiRuns ==
  ASSUME TuiInv, TurnStep
  PROVE  TuiInv'
<1>1. CASE RunCommand
  <2>1. turn = "hooks" /\ kept = <<>> /\ UNCHANGED <<produced, response>> /\ launch \notin {"print", "init", "noProvider", "config", "resume"}
    BY <1>1 DEF RunCommand, TuiInv
  <2>2. CASE turn' = "handled"
    <3>1. kept' \in Seq(KeptTexts) /\ screen' = screen /\ launch' \in {launch, "gone"}
      <4>1. CASE kept' = kept
        BY <1>1, <2>1, <4>1 DEF RunCommand, TuiInv, AddMessage, Dispatched, Connected
      <4>2. CASE AddMessage("system", screen.thinking) /\ launch' = launch
        BY <4>2, Added DEF KeptTexts
      <4> QED BY <1>1, <4>1, <4>2 DEF RunCommand
    <3> QED BY <2>1, <2>2, <3>1 DEF TuiInv
  <2>3. CASE turn' = "provider" /\ UNCHANGED <<kept, screen, launch>>
    BY <2>1, <2>3 DEF TuiInv
  <2> QED BY <1>1, <2>2, <2>3 DEF RunCommand
<1>2. CASE CheckProvider
  <2>1. turn = "provider" /\ kept = <<>> /\ UNCHANGED <<produced, response, launch>> /\ launch \notin {"print", "init", "noProvider", "config", "resume"}
    BY <1>2 DEF CheckProvider, TuiInv
  <2>2. CASE AddMessage("error", FALSE) /\ turn' = "handled"
    <3>1. kept' \in Seq(KeptTexts) /\ screen' = screen
      BY <2>2, Added DEF KeptTexts
    <3> QED BY <2>1, <2>2, <3>1 DEF TuiInv
  <2>3. CASE turn' = "running" /\ UNCHANGED <<kept, screen>>
    BY <2>1, <2>3 DEF TuiInv, OnlyTools
  <2> QED BY <1>2, <2>2, <2>3 DEF CheckProvider
<1>3. CASE MessageStep
  <2>1. /\ response' = Append(response, Len(produced) + 1) /\ produced' = Append(produced, Len(produced) + 1)
        /\ UNCHANGED <<launch, screen, kept, turn>>
    BY <1>3 DEF MessageStep
  <2>2. response \in Seq(Nat) /\ response = produced /\ \A i \in 1..Len(response) : response[i] = i
    BY DEF TuiInv
  <2>3. response' \in Seq(Nat) /\ response' = produced' /\ \A i \in 1..Len(response') : response'[i] = i
    BY <2>1, <2>2
  <2> QED BY <2>1, <2>3 DEF TuiInv, OnlyTools, ToolsThen
<1>4. CASE ToolStep
  <2>1. turn = "running" /\ launch # "print" /\ AddMessage("tool", screen.thinking) /\ UNCHANGED <<launch, turn, produced, response>>
    BY <1>4 DEF ToolStep, Live
  <2>2. /\ screen' = screen /\ kept' \in Seq(KeptTexts) /\ Len(kept') = Len(kept) + 1
        /\ kept'[Len(kept')] = "tool" /\ Len(kept) \in Nat
        /\ \A i \in 1..Len(kept) : kept'[i] = kept[i]
    BY <2>1, Added DEF KeptTexts
  <2>3. OnlyTools(kept)
    BY <2>1 DEF TuiInv
  <2>4. OnlyTools(kept')
    BY <2>2, <2>3 DEF OnlyTools
  <2> QED BY <2>1, <2>2, <2>4 DEF TuiInv, OnlyTools
<1>5. CASE PermissionStep
  <2>1. turn = "running" /\ launch # "print" /\ turn' = "waiting" /\ UNCHANGED <<launch, screen, kept, produced, response>>
    BY <1>5 DEF PermissionStep, Live
  <2> QED BY <2>1 DEF TuiInv, OnlyTools
<1>6. CASE AgentEnds \/ AgentFails
  <2> DEFINE m == IF turn' = "answered" THEN "assistant" ELSE "error"
  <2>1. /\ turn = "running" /\ launch \in {"chat", "left"} /\ UNCHANGED <<launch, produced, response>>
        /\ turn' \in {"answered", "failed"} /\ AddMessage(m, FALSE)
    BY <1>6 DEF AgentEnds, AgentFails
  <2>2. m \in KeptTexts
    BY DEF KeptTexts
  <2> HIDE DEF m
  <2>3. /\ screen' = screen /\ kept' \in Seq(KeptTexts) /\ Len(kept') = Len(kept) + 1
        /\ kept'[Len(kept')] = m /\ Len(kept) \in Nat
        /\ \A i \in 1..Len(kept) : kept'[i] = kept[i]
    BY <2>1, <2>2, Added
  <2>4. OnlyTools(kept)
    BY <2>1 DEF TuiInv
  <2>5. ToolsThen(kept', m)
    BY <2>3, <2>4 DEF OnlyTools, ToolsThen
  <2> QED BY <2>1, <2>3, <2>5 DEF TuiInv, ToolsThen, m
<1>7. CASE StartPrint
  <2>1. /\ launch = "print" /\ turn = "idle" /\ kept = <<>> /\ UNCHANGED <<screen, kept, produced, response>>
        /\ \/ turn' = "running" /\ launch' = launch
           \/ turn' = turn /\ launch' = "gone"
    BY <1>7 DEF StartPrint, TuiInv
  <2> QED BY <2>1 DEF TuiInv, OnlyTools
<1>8. CASE PrintEnds
  <2>1. /\ launch = "print" /\ kept = <<>> /\ UNCHANGED <<screen, kept, produced, response>>
        /\ launch' = "gone" /\ turn' \in {"answered", "failed"}
    BY <1>8 DEF PrintEnds, TuiInv
  <2> QED BY <2>1 DEF TuiInv
<1> QED BY <1>1, <1>2, <1>3, <1>4, <1>5, <1>6, <1>7, <1>8 DEF TurnStep

LEMMA TuiKeeps ==
  ASSUME TuiInv, TuiNext \/ UNCHANGED tuiVars
  PROVE  TuiInv'
<1>1. CASE UNCHANGED tuiVars
  BY <1>1 DEF tuiVars, TuiInv, OnlyTools, ToolsThen
<1>2. CASE TuiNext
  BY <1>2, TuiLaunches, TuiSubmits, TuiRuns DEF TuiNext
<1> QED BY <1>1, <1>2

LEMMA ReplyShown ==
  ASSUME TuiInv
  PROVE  ReplyIsWhole
<1>1. response \in Seq(Nat) /\ DOMAIN response = 1..Len(response)
  BY DEF TuiInv
<1>2. kept # <<>> => Last(kept) = kept[Len(kept)]
  BY DEF Last
<1> QED BY <1>1, <1>2 DEF TuiInv, ReplyIsWhole, ToolsThen
-----------------------------------------------------------------------------
(* Messages: turns *)

Roles == {"user", "assistant", "tool"}

LogTypes == chatLog \in Seq([id : Nat, role : Roles]) /\ nextId \in Nat

LEMMA LogKeeps ==
  ASSUME LogTypes, TurnsNext \/ UNCHANGED logVars
  PROVE  LogTypes'
<1>1. CASE UNCHANGED logVars
  BY <1>1 DEF logVars, LogTypes
<1>2. CASE MessageArrives
  <2>1. PICK r \in Roles : chatLog' = Append(chatLog, [id |-> nextId, role |-> r])
    BY <1>2 DEF MessageArrives, Roles
  <2>2. nextId' \in Nat
    BY <1>2 DEF MessageArrives, LogTypes
  <2> QED BY <2>1, <2>2 DEF LogTypes
<1>3. CASE MessageGoes
  <2>1. PICK i \in DOMAIN chatLog : chatLog' = RemoveAt(chatLog, i)
    BY <1>3 DEF MessageGoes
  <2> DEFINE S == [id : Nat, role : Roles]
             a == SubSeq(chatLog, 1, i - 1)
             b == SubSeq(chatLog, i + 1, Len(chatLog))
  <2>2. chatLog \in Seq(S) /\ i \in 1..Len(chatLog)
    BY DEF LogTypes
  <2>3. chatLog' = a \o b
    BY <2>1 DEF RemoveAt
  <2> HIDE DEF S
  <2>4. a \in Seq(S) /\ b \in Seq(S)
    BY <2>2, SubSeqProperties
  <2> HIDE DEF a, b
  <2>5. chatLog' \in Seq(S)
    BY <2>3, <2>4
  <2>6. nextId' = nextId
    BY <1>3 DEF MessageGoes
  <2> QED BY <2>5, <2>6 DEF LogTypes, S
<1>4. CASE \E i \in DOMAIN chatLog, what \in {"retry", "delete"} : WebTurnAction(i, what) \/ NativeTurnAction(i, what)
  BY <1>4 DEF WebTurnAction, NativeTurnAction, LogTypes
<1> QED BY <1>1, <1>2, <1>3, <1>4 DEF TurnsNext

\* The greatest of some numbers.
LEMMA Greatest ==
  ASSUME NEW n \in Nat, NEW S \in SUBSET (1..n), S # {}
  PROVE  \E j \in S : \A k \in S : k <= j
<1> DEFINE G == {n - j : j \in S}
<1>1. G \subseteq Nat /\ G # {}
  <2>1. \A j \in S : n - j \in Nat
    OBVIOUS
  <2> QED BY <2>1
<1>2. PICK g \in G : \A h \in G : g <= h
  BY <1>1, NatMin
<1>3. PICK j \in S : g = n - j
  BY <1>2
<1>4. \A k \in S : n - j <= n - k /\ k \in Int /\ j \in Int
  BY <1>2, <1>3
<1> QED BY <1>3, <1>4

\* The last message of the user up to a message.
UpTo(i) == {j \in 1..i : chatLog[j].role = "user"}

Latest(i) == IF UpTo(i) = {} THEN {} ELSE {CHOOSE j \in UpTo(i) : \A k \in UpTo(i) : k <= j}

LEMMA LatestIs ==
  ASSUME NEW i \in Nat, NEW j \in UpTo(i), \A k \in UpTo(i) : k <= j
  PROVE  Latest(i) = {j}
<1> DEFINE P(m) == \A k \in UpTo(i) : k <= m
           c == CHOOSE m \in UpTo(i) : P(m)
<1>1. c \in UpTo(i) /\ P(c)
  OBVIOUS
<1>2. \A k \in UpTo(i) : k \in Int
  BY DEF UpTo
<1>3. c = j
  <2> HIDE DEF c
  <2> QED BY <1>1, <1>2
<1> QED BY <1>3 DEF Latest

LEMMA LatestStep ==
  ASSUME NEW i \in Nat, i # 0
  PROVE  Latest(i) = IF chatLog[i].role = "user" THEN {i} ELSE Latest(i - 1)
<1>1. CASE chatLog[i].role = "user"
  <2>1. i \in UpTo(i) /\ \A k \in UpTo(i) : k <= i
    BY <1>1 DEF UpTo
  <2> QED BY <1>1, <2>1, LatestIs
<1>2. CASE chatLog[i].role # "user"
  <2>1. \A j \in 1..i : j # i => j \in 1..(i - 1)
    OBVIOUS
  <2>2. UpTo(i) = UpTo(i - 1)
    BY <1>2, <2>1 DEF UpTo
  <2> QED BY <1>2, <2>2 DEF Latest
<1> QED BY <1>1, <1>2

\* Looking back one message at a time finds the last message of the user up to a message.
LEMMA LookBackFinds == \A i \in Nat : LookBack[i] = Latest(i)
<1> DEFINE Step(f) == [i \in Nat |-> IF i = 0 THEN {} ELSE IF chatLog[i].role = "user" THEN {i} ELSE f[i - 1]]
           g == [i \in Nat |-> Latest(i)]
           look == CHOOSE f : f = Step(f)
<1>1. g = Step(g)
  <2>1. Latest(0) = {}
    BY DEF Latest, UpTo
  <2>2. \A i \in Nat : i # 0 => i - 1 \in Nat /\ g[i] = IF chatLog[i].role = "user" THEN {i} ELSE g[i - 1]
    BY LatestStep
  <2>3. \A i \in Nat : g[i] = IF i = 0 THEN {} ELSE IF chatLog[i].role = "user" THEN {i} ELSE g[i - 1]
    BY <2>1, <2>2
  <2>4. g = [i \in Nat |-> g[i]]
    OBVIOUS
  <2> HIDE DEF g
  <2> QED BY <2>3, <2>4
<1> HIDE DEF g
<1>2. look = Step(look)
  BY <1>1
<1>3. LookBack = look
  BY DEF LookBack
<1> HIDE DEF look
<1> DEFINE Bad == {i \in Nat : look[i] # Latest(i)}
<1>4. Bad = {}
  <2> SUFFICES ASSUME Bad # {} PROVE FALSE
    OBVIOUS
  <2>1. PICK i \in Bad : \A j \in Bad : i <= j
    BY NatMin
  <2>2. look[i] = IF i = 0 THEN {} ELSE IF chatLog[i].role = "user" THEN {i} ELSE look[i - 1]
    BY <1>2
  <2>3. i # 0
    BY <2>1, <2>2 DEF Latest, UpTo
  <2>4. i - 1 \in Nat /\ ~(i <= i - 1)
    BY <2>3
  <2>5. i - 1 \notin Bad
    BY <2>1, <2>4
  <2>6. look[i - 1] = Latest(i - 1)
    BY <2>4, <2>5
  <2>7. look[i] = Latest(i)
    BY <2>2, <2>3, <2>6, LatestStep
  <2> QED BY <2>1, <2>7
<1> QED BY <1>3, <1>4

LEMMA UserIndices ==
  ASSUME LogTypes
  PROVE  /\ Len(chatLog) \in Nat /\ DOMAIN chatLog = 1..Len(chatLog)
         /\ Users = {i \in 1..Len(chatLog) : chatLog[i].role = "user"}
  BY DEF LogTypes, Users

LEMMA PrecedingIsLatest ==
  ASSUME LogTypes, NEW i \in DOMAIN chatLog, i \notin Users
  PROVE  PrecedingUser(i) = Latest(i)
<1>1. {j \in Users : j < i} = UpTo(i)
  BY UserIndices DEF UpTo
<1> QED BY <1>1 DEF PrecedingUser, Latest

\* What is copied ends before the next message of the user.
LEMMA CopyIs ==
  ASSUME LogTypes, NEW i \in Nat, i >= 1, i <= Len(chatLog) + 1
  PROVE  \E end \in 1..(Len(chatLog) + 1) :
           /\ end >= i /\ Len(CopyRange(i)) = end - i
           /\ DOMAIN CopyRange(i) = 1..(end - i)
           /\ \A j \in Users : j > i => end <= j
           /\ end = Len(chatLog) + 1 \/ (end \in Users /\ end > i)
<1> DEFINE n == Len(chatLog)
           after == {j \in Users : j > i}
<1>1. n \in Nat /\ DOMAIN chatLog = 1..n /\ Users \subseteq 1..n
  BY UserIndices
<1>2. \E end \in 1..(n + 1) :
        /\ end >= i /\ CopyRange(i) = SubSeq(chatLog, i, end - 1)
        /\ \A j \in Users : j > i => end <= j
        /\ end = n + 1 \/ (end \in Users /\ end > i)
  <2>1. CASE after = {}
    <3>1. CopyRange(i) = SubSeq(chatLog, i, (n + 1) - 1)
      BY <2>1 DEF CopyRange
    <3>2. \A j \in Users : j > i => n + 1 <= j
      BY <2>1
    <3>3. n + 1 \in 1..(n + 1) /\ n + 1 >= i
      <4>1. n \in Nat /\ i <= n + 1
        BY <1>1
      <4> HIDE DEF n
      <4> QED BY <4>1
    <3> HIDE DEF n
    <3> QED BY <3>1, <3>2, <3>3
  <2>2. CASE after # {}
    <3> DEFINE e == CHOOSE j \in after : \A k \in after : j <= k
    <3>1. after \subseteq Nat
      <4>1. 1..n \subseteq Nat
        OBVIOUS
      <4> QED BY <1>1, <4>1
    <3>2. e \in after /\ \A k \in after : e <= k
      BY <2>2, <3>1, NatMin
    <3>3. CopyRange(i) = SubSeq(chatLog, i, e - 1)
      BY <2>2 DEF CopyRange
    <3> HIDE DEF e
    <3> QED BY <1>1, <3>2, <3>3
  <2> QED BY <2>1, <2>2
<1>3. PICK end \in 1..(n + 1) :
        /\ end >= i /\ CopyRange(i) = SubSeq(chatLog, i, end - 1)
        /\ \A j \in Users : j > i => end <= j
        /\ end = n + 1 \/ (end \in Users /\ end > i)
  BY <1>2
<1>4. DOMAIN CopyRange(i) = 1..(end - i) /\ Len(CopyRange(i)) = end - i
  BY <1>1, <1>3 DEF LogTypes
<1> QED BY <1>1, <1>3, <1>4

LEMMA TurnsAgree ==
  ASSUME LogTypes
  PROVE  TurnActionsAgree
<1> DEFINE n == Len(chatLog)
<1>0. n \in Nat /\ DOMAIN chatLog = 1..n /\ Users = {i \in 1..n : chatLog[i].role = "user"}
  BY UserIndices
<1> SUFFICES ASSUME NEW i \in DOMAIN chatLog \ Users
             PROVE  /\ PrecedingUser(i) = LookBack[i]
                    /\ \A j \in PrecedingUser(i) :
                          CopyRange(j + 1) = <<>> \/ i \in (j + 1) .. (j + Len(CopyRange(j + 1)))
                    /\ \A k \in DOMAIN CopyRange(i) : PrecedingUser(i + k - 1) = PrecedingUser(i)
  BY DEF TurnActionsAgree
<1>1. i \in 1..n /\ i \in Nat /\ i \notin Users
  BY <1>0
<1>2. PrecedingUser(i) = LookBack[i]
  BY <1>1, PrecedingIsLatest, LookBackFinds
<1>3. ASSUME NEW j \in PrecedingUser(i)
      PROVE  i \in (j + 1) .. (j + Len(CopyRange(j + 1)))
  <2>1. UpTo(i) # {} /\ UpTo(i) \in SUBSET (1..i)
    BY <1>1, PrecedingIsLatest DEF Latest, UpTo
  <2>2. PICK m \in UpTo(i) : \A k \in UpTo(i) : k <= m
    BY <1>1, <2>1, Greatest
  <2>3. j = m
    BY <1>1, <2>2, PrecedingIsLatest, LatestIs
  <2>4. j \in 1..i /\ j \in Users /\ j < i
    BY <1>0, <1>1, <2>2, <2>3 DEF UpTo
  <2>5. j + 1 \in Nat /\ j + 1 >= 1 /\ j + 1 <= n + 1
    BY <1>0, <1>1, <2>4
  <2>6. PICK end \in 1..(n + 1) :
           /\ end >= j + 1 /\ Len(CopyRange(j + 1)) = end - (j + 1)
           /\ end = n + 1 \/ (end \in Users /\ end > j + 1)
    BY <2>5, CopyIs
  <2>7. end > i
    <3>1. CASE end = n + 1
      BY <1>1, <3>1
    <3>2. CASE end \in Users /\ end <= i
      <4>1. end \in UpTo(i)
        BY <1>0, <3>2 DEF UpTo
      <4> QED BY <2>2, <2>3, <2>6, <4>1
    <3> QED BY <1>0, <1>1, <2>6, <3>1, <3>2
  <2> QED BY <1>0, <1>1, <2>4, <2>6, <2>7
<1>4. ASSUME NEW k \in DOMAIN CopyRange(i)
      PROVE  PrecedingUser(i + k - 1) = PrecedingUser(i)
  <2>0. i >= 1 /\ i <= n + 1
    BY <1>0, <1>1
  <2>1. PICK end \in 1..(n + 1) :
           /\ end >= i /\ DOMAIN CopyRange(i) = 1..(end - i)
           /\ \A j \in Users : j > i => end <= j
    BY <1>1, <2>0, CopyIs
  <2>2. k \in 1..(end - i) /\ i + k - 1 < end /\ i + k - 1 >= i
    BY <1>0, <1>1, <2>1
  <2>3. {j \in Users : j < i + k - 1} = {j \in Users : j < i}
    <3>1. ASSUME NEW j \in Users, j < i + k - 1 PROVE j < i
      <4>1. j \in 1..n /\ j # i
        BY <1>0, <1>1
      <4>2. ~(j > i)
        BY <2>1, <2>2, <3>1, <4>1
      <4> QED BY <1>1, <4>1, <4>2
    <3>2. ASSUME NEW j \in Users, j < i PROVE j < i + k - 1
      <4>1. j \in 1..n
        BY <1>0
      <4> QED BY <1>1, <2>2, <3>2, <4>1
    <3> QED BY <3>1, <3>2
  <2> QED BY <2>3 DEF PrecedingUser
<1> QED BY <1>2, <1>3, <1>4
-----------------------------------------------------------------------------
(* Messages: details *)

PanelInv ==
    /\ detailNow \in Nat /\ IsFiniteSet(asks)
    /\ panel \in [view : {"open", "closed"}, detail : Nat, error : BOOLEAN]
    /\ \A k, l \in asks : k.by = "panel" /\ l.by = "panel" => k = l
    /\ \A l \in asks : l.by \in {"panel", "native"}
    /\ panel.detail # 0 => ~panel.error /\ \A l \in asks : l.by # "panel"
    /\ panel.error => \A l \in asks : l.by # "panel"
    /\ panel.view = "open" => panel.detail # 0

LEMMA PanelStarts ==
  ASSUME MessagesInit
  PROVE  PanelInv
  BY FS_EmptySet DEF MessagesInit, PanelInv

LEMMA Asked1 ==
  ASSUME PanelInv, NEW by \in {"panel", "native"}, Ask(by),
         by = "panel" => panel.detail = 0 /\ \A l \in asks : l.by # "panel"
  PROVE  /\ IsFiniteSet(asks')
         /\ \A k, l \in asks' : k.by = "panel" /\ l.by = "panel" => k = l
         /\ \A l \in asks' : l.by \in {"panel", "native"}
         /\ by = "native" /\ (panel.detail # 0 \/ panel.error) => \A l \in asks' : l.by # "panel"
<1> DEFINE new == [by |-> by, asked |-> detailNow, id |-> askCount]
<1>1. asks' = asks \union {new} /\ new.by = by
  BY DEF Ask
<1> HIDE DEF new
<1>2. IsFiniteSet(asks')
  BY <1>1, FS_AddElement DEF PanelInv
<1> QED BY <1>1, <1>2 DEF PanelInv

LEMMA PanelKeeps ==
  ASSUME PanelInv, DetailNext \/ UNCHANGED detailVars
  PROVE  PanelInv'
<1>1. CASE UNCHANGED detailVars
  BY <1>1 DEF detailVars, PanelInv
<1>2. CASE DetailChanges
  <2>1. detailNow' \in Nat /\ UNCHANGED <<panel, asks>>
    BY <1>2 DEF DetailChanges, PanelInv
  <2> QED BY <2>1 DEF PanelInv
<1>3. CASE HandleLoad
  <2>1. CASE panel.detail # 0
    <3>1. /\ panel' = [panel EXCEPT !.view = IF @ = "open" THEN "closed" ELSE "open"]
          /\ UNCHANGED <<detailNow, asks>>
      BY <1>3, <2>1 DEF HandleLoad
    <3>2. /\ panel' \in [view : {"open", "closed"}, detail : Nat, error : BOOLEAN]
          /\ panel'.detail = panel.detail /\ panel'.error = panel.error
      BY <3>1 DEF PanelInv
    <3> QED BY <2>1, <3>1, <3>2 DEF PanelInv
  <2>2. CASE panel.detail = 0
    <3>1. /\ Ask("panel") /\ panel' = [panel EXCEPT !.error = FALSE]
          /\ \A l \in asks : l.by # "panel"
          /\ UNCHANGED detailNow
      BY <1>3, <2>2 DEF HandleLoad
    <3>2. /\ panel' \in [view : {"open", "closed"}, detail : Nat, error : BOOLEAN]
          /\ panel'.detail = 0 /\ panel'.view = panel.view /\ panel'.error = FALSE
      BY <2>2, <3>1 DEF PanelInv
    <3>3. /\ IsFiniteSet(asks')
          /\ \A k, l \in asks' : k.by = "panel" /\ l.by = "panel" => k = l
          /\ \A l \in asks' : l.by \in {"panel", "native"}
      BY <2>2, <3>1, Asked1
    <3> QED BY <3>1, <3>2, <3>3 DEF PanelInv
  <2> QED BY <2>1, <2>2
<1>4. CASE LoadNative
  <2>1. Ask("native") /\ UNCHANGED <<detailNow, panel>>
    BY <1>4 DEF LoadNative
  <2>2. /\ IsFiniteSet(asks')
        /\ \A k, l \in asks' : k.by = "panel" /\ l.by = "panel" => k = l
        /\ \A l \in asks' : l.by \in {"panel", "native"}
        /\ panel.detail # 0 \/ panel.error => \A l \in asks' : l.by # "panel"
    BY <2>1, Asked1
  <2> QED BY <2>1, <2>2 DEF PanelInv
<1>5. CASE DetailAnswered
  <2>1. PICK l \in asks, d \in 1..detailNow :
           /\ asks' = asks \ {l}
           /\ IF l.by = "panel"
              THEN panel' = [panel EXCEPT !.view = "open", !.detail = d] ELSE UNCHANGED panel
    BY <1>5 DEF DetailAnswered
  <2>2. UNCHANGED detailNow /\ IsFiniteSet(asks') /\ d \in Nat /\ d # 0
    BY <1>5, <2>1, FS_RemoveElement DEF DetailAnswered, PanelInv
  <2>3. CASE l.by = "panel"
    <3>1. panel.error = FALSE /\ \A k \in asks' : k.by # "panel"
      BY <2>1, <2>3 DEF PanelInv
    <3>2. /\ panel' \in [view : {"open", "closed"}, detail : Nat, error : BOOLEAN]
          /\ panel'.detail = d /\ panel'.error = FALSE
      BY <2>1, <2>2, <2>3, <3>1 DEF PanelInv
    <3> QED BY <2>1, <2>2, <3>1, <3>2 DEF PanelInv
  <2>4. CASE l.by # "panel"
    BY <2>1, <2>2, <2>4 DEF PanelInv
  <2> QED BY <2>3, <2>4
<1>6. CASE DetailFails
  <2>1. PICK l \in asks :
           /\ asks' = asks \ {l}
           /\ panel' = [panel EXCEPT !.error = @ \/ l.by = "panel"]
    BY <1>6 DEF DetailFails
  <2>2. UNCHANGED detailNow /\ IsFiniteSet(asks')
    BY <1>6, <2>1, FS_RemoveElement DEF DetailFails, PanelInv
  <2>3. /\ panel' \in [view : {"open", "closed"}, detail : Nat, error : BOOLEAN]
        /\ panel'.detail = panel.detail /\ panel'.view = panel.view
        /\ panel'.error => panel.error \/ l.by = "panel"
    BY <2>1 DEF PanelInv
  <2>4. panel'.error => \A k \in asks' : k.by # "panel"
    BY <2>1, <2>3 DEF PanelInv
  <2>5. panel.detail # 0 => ~panel'.error
    BY <2>3 DEF PanelInv
  <2> QED BY <2>1, <2>2, <2>3, <2>4, <2>5 DEF PanelInv
<1> QED BY <1>1, <1>2, <1>3, <1>4, <1>5, <1>6 DEF DetailNext

LEMMA PanelSound ==
  ASSUME PanelInv
  PROVE  PanelIsSound
<1> DEFINE ofPanel == {l \in asks : l.by = "panel"}
<1>1. Cardinality(ofPanel) <= 1
  <2>1. CASE ofPanel = {}
    BY <2>1, FS_EmptySet
  <2>2. ASSUME NEW k \in ofPanel PROVE Cardinality(ofPanel) = 1
    <3>1. ofPanel = {k}
      BY DEF PanelInv
    <3> QED BY <3>1, FS_Singleton
  <2> QED BY <2>1, <2>2
<1> QED BY <1>1 DEF PanelInv, PanelIsSound

-----------------------------------------------------------------------------
(* Messages: the question *)

\* An answer that is not marked was forgotten, and what is marked has been told.
QuestionInv ==
    /\ stored \in BOOLEAN
    /\ resolved \in Seq(SUBSET (Options \union {"typed"})) /\ forgotten \in Nat
    /\ asking \in [answered : BOOLEAN, checked : SUBSET Options, typed : BOOLEAN]
    /\ Len(resolved) <= (IF asking.answered THEN 1 ELSE 0) + forgotten
    /\ question.agent /\ (asking.answered \/ stored \/ updating) => resolved # <<>>

LEMMA QuestionStarts ==
  ASSUME MessagesInit
  PROVE  QuestionInv
<1>1. asking = Unanswered /\ stored = FALSE /\ updating = FALSE /\ resolved = <<>> /\ forgotten = 0
  BY DEF MessagesInit
<1>2. asking \in [answered : BOOLEAN, checked : SUBSET Options, typed : BOOLEAN] /\ ~asking.answered
  BY <1>1 DEF Unanswered
<1>3. Len(resolved) = 0 /\ resolved \in Seq(SUBSET (Options \union {"typed"}))
  BY <1>1
<1>4. Len(resolved) <= (IF asking.answered THEN 1 ELSE 0) + forgotten
  BY <1>1, <1>2, <1>3
<1> QED BY <1>1, <1>2, <1>3, <1>4 DEF QuestionInv

LEMMA Submitted ==
  ASSUME QuestionInv, NEW answer \in SUBSET (Options \union {"typed"}),
         ~asking.answered, MarkAndSubmit(answer)
  PROVE  QuestionInv'
<1>1. /\ asking' = [asking EXCEPT !.answered = TRUE] /\ UNCHANGED <<question, stored, forgotten>>
      /\ resolved' = IF question.agent THEN Append(resolved, answer) ELSE resolved
  BY DEF MarkAndSubmit
<1>2. asking' \in [answered : BOOLEAN, checked : SUBSET Options, typed : BOOLEAN] /\ asking'.answered
  BY <1>1 DEF QuestionInv
<1>3. /\ resolved' \in Seq(SUBSET (Options \union {"typed"})) /\ Len(resolved') <= 1 + forgotten
      /\ question.agent => resolved' # <<>>
  <2> DEFINE S == SUBSET (Options \union {"typed"})
  <2>1. resolved \in Seq(S) /\ answer \in S /\ Len(resolved) <= forgotten /\ forgotten \in Nat
    BY DEF QuestionInv
  <2> HIDE DEF S
  <2>2. resolved' \in Seq(S) /\ Len(resolved') <= 1 + forgotten /\ (question.agent => resolved' # <<>>)
    BY <1>1, <2>1
  <2> QED BY <2>2 DEF S
<1> QED BY <1>1, <1>2, <1>3 DEF QuestionInv

LEMMA QuestionKeeps ==
  ASSUME QuestionInv, QuestionNext \/ UNCHANGED questionVars
  PROVE  QuestionInv'
<1>0. QuestionNext \/ UNCHANGED questionVars
  OBVIOUS
<1>1. CASE UNCHANGED questionVars
  BY <1>1 DEF questionVars, QuestionInv
<1>2. CASE \E o \in Options : HandleOptionClick(o)
  BY <1>2, Submitted DEF HandleOptionClick
<1>3. CASE (\E o \in Options : HandleToggleOption(o)) \/ TypeAnswer
  <2>0. \A o \in Options : asking.checked \ {o} \in SUBSET Options /\ asking.checked \union {o} \in SUBSET Options
    BY DEF QuestionInv
  <2>1. /\ asking' \in [answered : BOOLEAN, checked : SUBSET Options, typed : BOOLEAN]
        /\ asking'.answered = asking.answered
        /\ UNCHANGED <<question, stored, updating, resolved, forgotten>>
    BY <1>3, <2>0 DEF HandleToggleOption, TypeAnswer, QuestionInv
  <2> QED BY <2>1 DEF QuestionInv
<1>4. CASE HandleMultiSelectSubmit
  <2>1. asking.checked \union Typed \in SUBSET (Options \union {"typed"})
    BY DEF QuestionInv, Typed
  <2> QED BY <1>4, <2>1, Submitted DEF HandleMultiSelectSubmit
<1>5. CASE HandleFreeformSubmit
  <2>1. Typed \in SUBSET (Options \union {"typed"})
    BY DEF Typed
  <2> QED BY <1>5, <2>1, Submitted DEF HandleFreeformSubmit
<1>6. CASE UpdateSettles
  <2>1. /\ updating /\ ~updating' /\ stored' \in BOOLEAN
        /\ UNCHANGED <<question, asking, resolved, forgotten>>
    BY <1>6 DEF UpdateSettles, QuestionInv
  <2> QED BY <2>1 DEF QuestionInv
<1>7. CASE Remount
  <2>1. /\ asking' = [Unanswered EXCEPT !.answered = stored]
        /\ forgotten' = IF asking.answered /\ ~stored THEN forgotten + 1 ELSE forgotten
        /\ UNCHANGED <<question, stored, updating, resolved>> /\ stored \in BOOLEAN
    BY <1>7 DEF Remount, QuestionInv
  <2>2. asking' \in [answered : BOOLEAN, checked : SUBSET Options, typed : BOOLEAN] /\ asking'.answered = stored
    BY <2>1 DEF Unanswered
  <2>3. Len(resolved) \in Nat
    BY DEF QuestionInv
  <2> QED BY <2>1, <2>2, <2>3 DEF QuestionInv
<1> QED BY <1>0, <1>1, <1>2, <1>3, <1>4, <1>5, <1>6, <1>7 DEF QuestionNext

LEMMA AnsweredOnce ==
  ASSUME QuestionInv
  PROVE  QuestionAnsweredOnce
<1>1. Len(resolved) \in Nat
  BY DEF QuestionInv
<1> QED BY <1>1 DEF QuestionInv, QuestionAnsweredOnce
-----------------------------------------------------------------------------
(* The composer *)

Files == Attachments \union {Empty}

\* Only a send that was confirmed has emptied the reference of a file that is shown.
AttachInv ==
    /\ chosen \in Files /\ attached \in {chosen, Empty}
    /\ send \in [Sends -> [state : {"idle", "sending", "sent", "failed"}, file : Files, shown : Files]]
    /\ attached # chosen => \E o \in Sends : send[o].state = "sent"
    /\ \A s \in Sends :
         /\ send[s].file \in {send[s].shown, Empty}
         /\ send[s].file # send[s].shown => \E o \in Sends \ {s} : send[o].state = "sent"

LEMMA AttachStarts ==
  ASSUME ComposerInit
  PROVE  AttachInv
  BY DEF ComposerInit, AttachInv, Files

\* A send goes from one state to the next, and one that is sent stays so.
LEMMA SendMoves ==
  ASSUME AttachInv, NEW s \in Sends, NEW to \in {"sent", "failed"}, send[s].state = "sending",
         send' = [send EXCEPT ![s].state = to]
  PROVE  /\ send' \in [Sends -> [state : {"idle", "sending", "sent", "failed"}, file : Files, shown : Files]]
         /\ \A o \in Sends : /\ send'[o].file = send[o].file /\ send'[o].shown = send[o].shown
                             /\ send[o].state = "sent" => send'[o].state = "sent"
         /\ send'[s].state = to
  BY DEF AttachInv

LEMMA AttachKeeps ==
  ASSUME AttachInv, SendNext \/ UNCHANGED sendVars
  PROVE  AttachInv'
<1>0. SendNext \/ UNCHANGED sendVars
  OBVIOUS
<1>1. CASE UNCHANGED sendVars
  BY <1>1 DEF sendVars, AttachInv
<1>2. CASE (\E f \in Attachments : SelectFile(f)) \/ ClearFile \/ Rerender
  <2>1. chosen' \in Files /\ attached' = chosen' /\ UNCHANGED send
    BY <1>2 DEF SelectFile, ClearFile, Rerender, SyncAttachments, AttachInv, Files
  <2> QED BY <2>1 DEF AttachInv
<1>3. CASE \E s \in Sends : OnNew(s)
  <2>1. PICK s \in Sends : OnNew(s)
    BY <1>3
  <2> DEFINE new == [state |-> "sending", file |-> attached, shown |-> chosen]
  <2>2. /\ send[s].state = "idle" /\ UNCHANGED <<chosen, attached>>
        /\ send' = [send EXCEPT ![s] = new]
    BY <2>1 DEF OnNew
  <2>3. /\ new \in [state : {"idle", "sending", "sent", "failed"}, file : Files, shown : Files]
        /\ new.file = attached /\ new.shown = chosen
    BY DEF AttachInv, Files
  <2> HIDE DEF new
  <2>4. /\ send' \in [Sends -> [state : {"idle", "sending", "sent", "failed"}, file : Files, shown : Files]]
        /\ send'[s] = new /\ \A o \in Sends \ {s} : send'[o] = send[o]
    BY <2>2, <2>3 DEF AttachInv
  <2>5. \A o \in Sends : send[o].state = "sent" => o # s /\ send'[o].state = "sent"
    BY <2>2, <2>4
  <2>6. ASSUME NEW o \in Sends
        PROVE  /\ send'[o].file \in {send'[o].shown, Empty}
               /\ send'[o].file # send'[o].shown => \E q \in Sends \ {o} : send'[q].state = "sent"
    <3>1. CASE o = s
      BY <2>3, <2>4, <2>5, <3>1 DEF AttachInv
    <3>2. CASE o # s
      BY <2>4, <2>5, <3>2 DEF AttachInv
    <3> QED BY <3>1, <3>2
  <2>7. attached # chosen => \E o \in Sends : send'[o].state = "sent"
    BY <2>5 DEF AttachInv
  <2> QED BY <2>2, <2>4, <2>6, <2>7 DEF AttachInv
<1>4. CASE \E s \in Sends : SendSucceeds(s) \/ SendFails(s)
  <2>1. PICK s \in Sends : SendSucceeds(s) \/ SendFails(s)
    BY <1>4
  <2>2. PICK to \in {"sent", "failed"} :
           /\ send[s].state = "sending" /\ send' = [send EXCEPT ![s].state = to]
           /\ UNCHANGED chosen /\ attached' = (IF to = "sent" THEN Empty ELSE attached)
    BY <2>1 DEF SendSucceeds, SendFails
  <2>3. /\ send' \in [Sends -> [state : {"idle", "sending", "sent", "failed"}, file : Files, shown : Files]]
        /\ \A o \in Sends : /\ send'[o].file = send[o].file /\ send'[o].shown = send[o].shown
                            /\ send[o].state = "sent" => send'[o].state = "sent"
        /\ send'[s].state = to
    BY <2>2, SendMoves
  <2>4. attached' \in {chosen, Empty} /\ (attached' # chosen => \E o \in Sends : send'[o].state = "sent")
    BY <2>2, <2>3 DEF AttachInv
  <2> QED BY <2>2, <2>3, <2>4 DEF AttachInv
<1> QED BY <1>0, <1>1, <1>2, <1>3, <1>4 DEF SendNext

LEMMA AttachShown ==
  ASSUME AttachInv
  PROVE  AttachmentsAreShown
  BY DEF AttachInv, AttachmentsAreShown

-----------------------------------------------------------------------------
(* The execution target *)

\* The dialog asks about no target whose question was declined.
TargetInv ==
    /\ IsFiniteSet(switches) /\ switching \in BOOLEAN
    /\ \A c \in switches : c.restart \in BOOLEAN
    /\ \A k, l \in switches : k.restart /\ l.restart => k = l
    /\ switching <=> \E c \in switches : c.restart
    /\ \A c \in switches : c.restart => c.to \notin refused
    /\ pendingTarget # Empty => pendingTarget \notin refused

LEMMA TargetStarts ==
  ASSUME ComposerInit
  PROVE  TargetInv
  BY FS_EmptySet DEF ComposerInit, TargetInv

LEMMA Switched ==
  ASSUME NEW t, NEW restart \in BOOLEAN, OnChange(t, restart), IsFiniteSet(switches)
  PROVE  \E c : /\ switches' = switches \union {c} /\ c.to = t /\ c.restart = restart
                /\ IsFiniteSet(switches')
<1> DEFINE new == [to |-> t, restart |-> restart, id |-> switchCount]
<1>1. switches' = switches \union {new} /\ new.to = t /\ new.restart = restart
  BY DEF OnChange
<1> HIDE DEF new
<1>2. IsFiniteSet(switches')
  BY <1>1, FS_AddElement
<1> QED BY <1>1, <1>2

LEMMA TargetKeeps ==
  ASSUME TargetInv, TargetNext \/ UNCHANGED targetVars
  PROVE  TargetInv'
<1>0. TargetNext \/ UNCHANGED targetVars
  OBVIOUS
<1>1. CASE UNCHANGED targetVars
  BY <1>1 DEF targetVars, TargetInv
<1>2. CASE \E t \in Targets : RequestChange(t)
  <2>1. PICK t \in Targets : RequestChange(t)
    BY <1>2
  <2>2. refused' = refused \ {t} /\ UNCHANGED switching
    BY <2>1 DEF RequestChange
  <2>3. CASE busy
    <3>1. pendingTarget' = t /\ UNCHANGED switches
      BY <2>1, <2>3 DEF RequestChange
    <3> QED BY <2>2, <3>1 DEF TargetInv
  <2>4. CASE ~busy
    <3>1. OnChange(t, FALSE) /\ UNCHANGED pendingTarget
      BY <2>1, <2>4 DEF RequestChange
    <3>2. PICK c : /\ switches' = switches \union {c} /\ c.restart = FALSE
                   /\ IsFiniteSet(switches')
      BY <3>1, Switched DEF TargetInv
    <3> QED BY <2>2, <3>1, <3>2 DEF TargetInv
  <2> QED BY <2>3, <2>4
<1>3. CASE ConfirmRestart
  <2>1. /\ pendingTarget # Empty /\ ~switching /\ OnChange(pendingTarget, TRUE) /\ switching' = TRUE
        /\ UNCHANGED <<pendingTarget, refused>>
    BY <1>3 DEF ConfirmRestart
  <2>2. PICK c : /\ switches' = switches \union {c} /\ c.to = pendingTarget /\ c.restart = TRUE
                 /\ IsFiniteSet(switches')
    BY <2>1, Switched DEF TargetInv
  <2> QED BY <2>1, <2>2 DEF TargetInv
<1>4. CASE DismissDialog
  <2>1. /\ pendingTarget' = Empty /\ UNCHANGED <<switching, switches>>
        /\ refused' = IF switching THEN refused ELSE refused \union {pendingTarget}
    BY <1>4 DEF DismissDialog
  <2> QED BY <2>1 DEF TargetInv
<1>5. CASE SwitchSucceeds \/ SwitchFails
  <2>1. PICK c \in switches :
           /\ switches' = switches \ {c} /\ pendingTarget' \in {pendingTarget, Empty}
           /\ switching' = IF c.restart THEN FALSE ELSE switching
           /\ UNCHANGED refused
    BY <1>5 DEF SwitchSucceeds, SwitchFails
  <2>2. IsFiniteSet(switches')
    BY <2>1, FS_RemoveElement DEF TargetInv
  <2> QED BY <2>1, <2>2 DEF TargetInv
<1>6. CASE TurnChanges
  BY <1>6 DEF TurnChanges, TargetInv
<1> QED BY <1>0, <1>1, <1>2, <1>3, <1>4, <1>5, <1>6 DEF TargetNext

LEMMA RestartsAsked ==
  ASSUME TargetInv
  PROVE  RestartsAreAsked
<1> DEFINE restarts == {c \in switches : c.restart}
<1>1. Cardinality(restarts) <= 1
  <2>1. CASE restarts = {}
    BY <2>1, FS_EmptySet
  <2>2. ASSUME NEW k \in restarts PROVE Cardinality(restarts) = 1
    <3>1. restarts = {k}
      BY DEF TargetInv
    <3> QED BY <3>1, FS_Singleton
  <2> QED BY <2>1, <2>2
<1>2. switching = (restarts # {})
  BY DEF TargetInv
<1>3. \A c \in restarts : c.to \notin refused
  BY DEF TargetInv
<1> QED BY <1>1, <1>2, <1>3 DEF RestartsAreAsked
-----------------------------------------------------------------------------
(* The editor of a definition *)

Contents == [id : Definitions, edits : SUBSET Edits]
Writes == [of : Contents, by : {"button", "timer"}]
Reads == [id : Definitions, got : Contents \union {Nothing}, preview : BOOLEAN \union {Nothing}]

LEMMA NothingElse == Nothing \notin Contents /\ Nothing \notin Writes /\ Nothing \notin Reads
  BY EditorAssumption DEF Contents, Writes, Reads

\* What is held anywhere is something the user made.
Within(x, es) == x.edits \subseteq es[x.id]

\* What a save writes of some edits.
Lasting(es) == es \intersect SavedEdits

EditorTypes ==
    /\ repository \in [Definitions -> SUBSET Edits] /\ edited \in [Definitions -> SUBSET Edits]
    /\ \A d \in Definitions : repository[d] \subseteq Lasting(edited[d])
    /\ editor \in Contents \union {Nothing} /\ (editor # Nothing => Within(editor, edited))
    /\ timer \in Contents \union {Nothing} /\ (timer # Nothing => Within(timer, edited))
    /\ saves \in [SaveSlots -> Writes \union {Nothing}]
    /\ \A s \in SaveSlots : saves[s] # Nothing =>
          Within(saves[s].of, edited) /\ saves[s].of.edits \subseteq SavedEdits
    /\ loads \in [LoadSlots -> Reads \union {Nothing}]
    /\ \A s \in LoadSlots : loads[s] # Nothing /\ loads[s].got # Nothing =>
          loads[s].got.id = loads[s].id /\ Within(loads[s].got, edited)

\* All the lasting edits of a definition are with the timer, with a save, or stored.
Held(d) ==
    \/ timer # Nothing /\ timer.id = d /\ Lasting(timer.edits) = Lasting(edited[d])
    \/ \E s \in SaveSlots :
         saves[s] # Nothing /\ saves[s].of.id = d /\ saves[s].of.edits = Lasting(edited[d])
    \/ repository[d] = Lasting(edited[d])

EditsInv ==
    \A d \in Definitions \ disturbed :
      /\ editor # Nothing /\ editor.id = d => Lasting(editor.edits) = Lasting(edited[d])
      /\ Held(d)

FlagsInv ==
    /\ shown \in [loading : BOOLEAN, saving : BOOLEAN]
    /\ shown.loading => \E s \in LoadSlots : loads[s] # Nothing
    /\ shown.saving => \E s \in SaveSlots : saves[s] # Nothing /\ saves[s].by = "button"

EditorInv == EditorTypes /\ EditsInv /\ FlagsInv

LEMMA EditorStarts ==
  ASSUME EditorInit
  PROVE  EditorInv
<1>1. EditorTypes
  BY DEF EditorInit, EditorTypes, Lasting
<1>2. EditsInv
  BY DEF EditorInit, EditsInv, Held, Lasting
<1>3. FlagsInv
  BY DEF EditorInit, FlagsInv
<1> QED BY <1>1, <1>2, <1>3 DEF EditorInv

LEMMA EditorRests ==
  ASSUME EditorInv, UNCHANGED editorVars
  PROVE  EditorInv'
<1>1. UNCHANGED <<repository, editor, preview, timer, saves, loads, shown, editorCalls, edited, disturbed>>
  BY DEF editorVars, editorState
<1> QED BY <1>1 DEF EditorInv, EditorTypes, EditsInv, Held, FlagsInv, Within

\* A step of a load leaves the edits and the saves alone.
LEMMA LoadGoes ==
  ASSUME EditorInv, NEW s \in LoadSlots, loads[s] # Nothing,
         NEW new \in Reads, new.id = loads[s].id,
         new.got # Nothing => new.got.id = new.id /\ Within(new.got, edited),
         loads' = [loads EXCEPT ![s] = new],
         UNCHANGED <<repository, editor, timer, saves, shown, edited, disturbed>>
  PROVE  EditorInv'
<1>1. /\ loads' \in [LoadSlots -> Reads \union {Nothing}] /\ loads'[s] = new
      /\ \A t \in LoadSlots \ {s} : loads'[t] = loads[t]
  BY DEF EditorInv, EditorTypes
<1>2. EditorTypes'
  BY <1>1 DEF EditorInv, EditorTypes, Within
<1>3. EditsInv'
  BY DEF EditorInv, EditsInv, Held
<1>4. FlagsInv'
  BY <1>1, NothingElse DEF EditorInv, FlagsInv
<1> QED BY <1>2, <1>3, <1>4 DEF EditorInv

LEMMA Loads ==
  ASSUME EditorInv, NEW s \in LoadSlots,
         (\E d \in Definitions : LoadDefinition(s, d)) \/ ReadDefinition(s)
           \/ FindOrCreatePreviewAgent(s) \/ ShowDefinition(s) \/ LoadFails(s)
  PROVE  EditorInv'
<1>1. CASE \E d \in Definitions : LoadDefinition(s, d)
  <2>1. PICK d \in Definitions : LoadDefinition(s, d)
    BY <1>1
  <2> DEFINE new == [id |-> d, got |-> Nothing, preview |-> Nothing]
  <2>2. /\ loads[s] = Nothing /\ loads' = [loads EXCEPT ![s] = new]
        /\ shown' = [shown EXCEPT !.loading = TRUE]
        /\ UNCHANGED <<repository, editor, timer, saves, edited, disturbed>>
    BY <2>1 DEF LoadDefinition, editorState
  <2>3. new \in Reads /\ new.got = Nothing
    BY DEF Reads
  <2> HIDE DEF new
  <2>4. /\ loads' \in [LoadSlots -> Reads \union {Nothing}] /\ loads'[s] = new
        /\ \A t \in LoadSlots \ {s} : loads'[t] = loads[t]
    BY <2>2, <2>3 DEF EditorInv, EditorTypes
  <2>5. EditorTypes'
    BY <2>2, <2>3, <2>4 DEF EditorInv, EditorTypes, Within
  <2>6. EditsInv'
    BY <2>2 DEF EditorInv, EditsInv, Held
  <2>7. FlagsInv'
    BY <2>2, <2>3, <2>4, NothingElse DEF EditorInv, FlagsInv
  <2> QED BY <2>5, <2>6, <2>7 DEF EditorInv
<1>2. CASE ReadDefinition(s)
  <2> DEFINE got == [id |-> loads[s].id, edits |-> repository[loads[s].id]]
             new == [loads[s] EXCEPT !.got = got]
  <2>1. /\ loads[s] # Nothing /\ loads' = [loads EXCEPT ![s] = new]
        /\ UNCHANGED <<repository, editor, timer, saves, shown, edited, disturbed>>
    BY <1>2 DEF ReadDefinition, editorState
  <2>2. loads[s] \in Reads
    BY <2>1 DEF EditorInv, EditorTypes
  <2>3. got \in Contents /\ got.id = loads[s].id /\ Within(got, edited)
    <3>1. repository[loads[s].id] \subseteq edited[loads[s].id]
      BY <2>2 DEF EditorInv, EditorTypes, Reads, Lasting
    <3> QED BY <2>2, <3>1 DEF EditorInv, EditorTypes, Reads, Contents, Within
  <2> HIDE DEF got
  <2>4. new \in Reads /\ new.id = loads[s].id /\ new.got = got
    BY <2>2, <2>3 DEF Reads
  <2> HIDE DEF new
  <2> QED BY <2>1, <2>3, <2>4, LoadGoes
<1>3. CASE FindOrCreatePreviewAgent(s)
  <2>1. PICK p \in BOOLEAN : /\ loads[s] # Nothing /\ loads' = [loads EXCEPT ![s].preview = p]
                             /\ UNCHANGED <<repository, editor, timer, saves, shown, edited, disturbed>>
    BY <1>3 DEF FindOrCreatePreviewAgent, editorState
  <2> DEFINE new == [loads[s] EXCEPT !.preview = p]
  <2>2. loads[s] \in Reads /\ loads' = [loads EXCEPT ![s] = new]
    BY <2>1 DEF EditorInv, EditorTypes
  <2>3. new \in Reads /\ new.id = loads[s].id /\ new.got = loads[s].got
    BY <2>2 DEF Reads
  <2> HIDE DEF new
  <2>4. new.got # Nothing => new.got.id = new.id /\ Within(new.got, edited)
    BY <2>1, <2>3 DEF EditorInv, EditorTypes
  <2> QED BY <2>1, <2>2, <2>3, <2>4, LoadGoes
<1>4. CASE ShowDefinition(s)
  <2>1. /\ loads[s] # Nothing /\ loads[s].got # Nothing /\ editor' = loads[s].got
        /\ shown' = [loading |-> FALSE, saving |-> FALSE]
        /\ loads' = [loads EXCEPT ![s] = Nothing]
        /\ disturbed' = IF Lasting(edited[loads[s].id]) \subseteq loads[s].got.edits
                        THEN disturbed ELSE disturbed \union {loads[s].id}
        /\ UNCHANGED <<repository, timer, saves, edited>>
    BY <1>4 DEF ShowDefinition, Lasting
  <2>2. loads[s] \in Reads /\ loads[s].got \in Contents /\ loads[s].got.id = loads[s].id /\ Within(loads[s].got, edited)
    BY <2>1 DEF EditorInv, EditorTypes, Reads
  <2>3. loads' \in [LoadSlots -> Reads \union {Nothing}] /\ \A t \in LoadSlots : loads'[t] \in {loads[t], Nothing}
    BY <2>1 DEF EditorInv, EditorTypes
  <2>4. EditorTypes'
    BY <2>1, <2>2, <2>3 DEF EditorInv, EditorTypes, Within
  <2>5. EditsInv'
    <3>1. ASSUME NEW d \in Definitions \ disturbed' PROVE Held(d)'
      BY <2>1 DEF EditorInv, EditsInv, Held
    <3>2. ASSUME NEW d \in Definitions \ disturbed', editor'.id = d
          PROVE  Lasting(editor'.edits) = Lasting(edited'[d])
      <4>1. editor' = loads[s].got /\ loads[s].id = d /\ d \notin disturbed'
        BY <2>1, <2>2, <3>2
      <4>2. Lasting(edited[d]) \subseteq loads[s].got.edits
        BY <2>1, <4>1
      <4>3. loads[s].got.edits \subseteq edited[d]
        BY <2>2, <4>1 DEF Within
      <4>4. Lasting(edited[d]) = Lasting(loads[s].got.edits)
        BY <4>2, <4>3 DEF Lasting
      <4> QED BY <2>1, <4>1, <4>4
    <3> QED BY <3>1, <3>2 DEF EditsInv
  <2>6. FlagsInv'
    BY <2>1 DEF FlagsInv
  <2> QED BY <2>4, <2>5, <2>6 DEF EditorInv
<1>5. CASE LoadFails(s)
  <2>1. /\ loads' = [loads EXCEPT ![s] = Nothing] /\ shown' = [shown EXCEPT !.loading = FALSE]
        /\ UNCHANGED <<repository, editor, timer, saves, edited, disturbed>>
    BY <1>5 DEF LoadFails, editorState
  <2>2. loads' \in [LoadSlots -> Reads \union {Nothing}] /\ \A t \in LoadSlots : loads'[t] \in {loads[t], Nothing}
    BY <2>1 DEF EditorInv, EditorTypes
  <2>3. EditorTypes'
    BY <2>1, <2>2 DEF EditorInv, EditorTypes, Within
  <2>4. EditsInv'
    BY <2>1 DEF EditorInv, EditsInv, Held
  <2>5. FlagsInv'
    BY <2>1 DEF EditorInv, FlagsInv
  <2> QED BY <2>3, <2>4, <2>5 DEF EditorInv
<1> QED BY <1>1, <1>2, <1>3, <1>4, <1>5

\* An edit goes to the editor and to the timer, which then holds all edits of its definition.
LEMMA Edit ==
  ASSUME EditorInv, NEW e \in Edits, UpdateDefinition(e)
  PROVE  EditorInv'
<1> DEFINE new == [editor EXCEPT !.edits = @ \union {e}]
<1>1. /\ editor # Nothing /\ editor' = new /\ timer' = new
      /\ edited' = [edited EXCEPT ![editor.id] = @ \union {e}]
      /\ disturbed' = IF timer # Nothing /\ timer.id # new.id THEN disturbed \union {timer.id} ELSE disturbed
      /\ UNCHANGED <<repository, saves, loads, shown>>
  BY DEF UpdateDefinition, ScheduleAutosave
<1>2. editor \in Contents /\ Within(editor, edited)
  BY <1>1 DEF EditorInv, EditorTypes
<1>3. new \in Contents /\ new.id = editor.id /\ new.edits = editor.edits \union {e}
  BY <1>2 DEF Contents
<1> HIDE DEF new
<1>4. editor.id \in Definitions
  BY <1>2 DEF Contents
<1>5. /\ edited' \in [Definitions -> SUBSET Edits]
      /\ edited'[editor.id] = edited[editor.id] \union {e}
      /\ \A d \in Definitions : d # editor.id => edited'[d] = edited[d]
  BY <1>1, <1>4 DEF EditorInv, EditorTypes
<1>6. \A x \in Contents : Within(x, edited) => Within(x, edited')
  BY <1>5 DEF Within, Contents
<1>7. Within(new, edited')
  BY <1>2, <1>3, <1>5 DEF Within
<1>8. EditorTypes'
  <2>1. \A s \in SaveSlots : saves[s] # Nothing => saves[s].of \in Contents
    BY DEF EditorInv, EditorTypes, Writes
  <2>2. \A s \in LoadSlots : loads[s] # Nothing /\ loads[s].got # Nothing => loads[s].got \in Contents
    BY DEF EditorInv, EditorTypes, Reads
  <2>3. \A d \in Definitions : repository[d] \subseteq Lasting(edited'[d])
    BY <1>5 DEF EditorInv, EditorTypes, Lasting
  <2> QED BY <1>1, <1>3, <1>5, <1>6, <1>7, <2>1, <2>2, <2>3 DEF EditorInv, EditorTypes
<1>9. EditsInv'
  <2> SUFFICES ASSUME NEW d \in Definitions \ disturbed'
               PROVE  /\ editor' # Nothing /\ editor'.id = d =>
                           Lasting(editor'.edits) = Lasting(edited'[d])
                      /\ Held(d)'
    BY DEF EditsInv
  <2>1. d \notin disturbed
    BY <1>1
  <2>2. CASE d = editor.id
    <3>1. Lasting(editor.edits) = Lasting(edited[d])
      BY <1>1, <2>1, <2>2 DEF EditorInv, EditsInv
    <3>2. Lasting(new.edits) = Lasting(edited'[d])
      BY <1>3, <1>5, <2>2, <3>1 DEF Lasting
    <3> QED BY <1>1, <1>3, <2>2, <3>2, NothingElse DEF Held
  <2>3. CASE d # editor.id
    <3>1. Held(d) /\ edited'[d] = edited[d]
      BY <1>5, <2>1, <2>3 DEF EditorInv, EditsInv
    <3>2. ~(timer # Nothing /\ timer.id = d)
      BY <1>1, <1>3, <2>3
    <3> QED BY <1>1, <1>3, <2>3, <3>1, <3>2 DEF Held
  <2> QED BY <2>2, <2>3
<1>10. FlagsInv'
  BY <1>1 DEF EditorInv, FlagsInv
<1> QED BY <1>8, <1>9, <1>10 DEF EditorInv

\* A save begins in an empty slot with some content.
LEMMA SaveBegins ==
  ASSUME EditorInv, NEW s \in SaveSlots, NEW x \in Contents, NEW by \in {"button", "timer"},
         Within(x, edited), StartSave(s, x, by)
  PROVE  /\ saves' \in [SaveSlots -> Writes \union {Nothing}]
         /\ saves[s] = Nothing /\ saves'[s] # Nothing /\ saves'[s].by = by
         /\ saves'[s].of.id = x.id /\ saves'[s].of.edits = Lasting(x.edits)
         /\ \A t \in SaveSlots \ {s} : saves'[t] = saves[t]
         /\ \A t \in SaveSlots : saves'[t] # Nothing =>
              Within(saves'[t].of, edited) /\ saves'[t].of.edits \subseteq SavedEdits
<1> DEFINE less == Written(x)
           new == [of |-> less, by |-> by]
<1>1. saves[s] = Nothing /\ saves' = [saves EXCEPT ![s] = new]
  BY DEF StartSave
<1>5. less \in Contents /\ less.id = x.id /\ less.edits = Lasting(x.edits)
  BY DEF Written, Contents, Lasting
<1> HIDE DEF less
<1>2. new \in Writes /\ new.of = less /\ new.by = by
  BY <1>5 DEF Writes
<1>6. Within(less, edited) /\ less.edits \subseteq SavedEdits
  BY <1>5 DEF Within, Lasting
<1> HIDE DEF new
<1>3. /\ saves' \in [SaveSlots -> Writes \union {Nothing}] /\ saves'[s] = new
      /\ \A t \in SaveSlots \ {s} : saves'[t] = saves[t]
  BY <1>1, <1>2 DEF EditorInv, EditorTypes
<1>4. \A t \in SaveSlots : saves'[t] # Nothing =>
        Within(saves'[t].of, edited) /\ saves'[t].of.edits \subseteq SavedEdits
  BY <1>2, <1>3, <1>6 DEF EditorInv, EditorTypes
<1> QED BY <1>1, <1>2, <1>3, <1>4, <1>5, NothingElse

LEMMA Begins ==
  ASSUME EditorInv, NEW s \in SaveSlots, SaveNow(s) \/ Autosave(s)
  PROVE  EditorInv'
<1>1. PICK x \in Contents, by \in {"button", "timer"} :
         /\ Within(x, edited) /\ StartSave(s, x, by)
         /\ IF by = "button" THEN timer' = timer /\ shown' = [shown EXCEPT !.saving = TRUE]
                             ELSE x = timer /\ timer' = Nothing /\ shown' = shown
         /\ UNCHANGED <<repository, editor, loads, edited, disturbed>>
  <2>1. CASE SaveNow(s)
    <3>1. editor \in Contents /\ Within(editor, edited)
      BY <2>1 DEF SaveNow, EditorInv, EditorTypes
    <3> QED BY <2>1, <3>1 DEF SaveNow, editorState
  <2>2. CASE Autosave(s)
    <3>1. timer \in Contents /\ Within(timer, edited)
      BY <2>2 DEF Autosave, EditorInv, EditorTypes
    <3> QED BY <2>2, <3>1 DEF Autosave, editorState
  <2> QED BY <2>1, <2>2
<1>2. /\ saves' \in [SaveSlots -> Writes \union {Nothing}]
      /\ saves[s] = Nothing /\ saves'[s] # Nothing /\ saves'[s].by = by
      /\ saves'[s].of.id = x.id /\ saves'[s].of.edits = Lasting(x.edits)
      /\ \A t \in SaveSlots \ {s} : saves'[t] = saves[t]
      /\ \A t \in SaveSlots : saves'[t] # Nothing =>
           Within(saves'[t].of, edited) /\ saves'[t].of.edits \subseteq SavedEdits
  BY <1>1, SaveBegins
<1>3. timer' \in Contents \union {Nothing} /\ (timer' # Nothing => Within(timer', edited))
  BY <1>1 DEF EditorInv, EditorTypes
<1>4. EditorTypes'
  BY <1>1, <1>2, <1>3 DEF EditorInv, EditorTypes
<1>5. EditsInv'
  <2>1. ASSUME NEW d \in Definitions, Held(d) PROVE Held(d)'
    <3>1. CASE timer # Nothing /\ timer.id = d /\ Lasting(timer.edits) = Lasting(edited[d])
      BY <1>1, <1>2, <3>1 DEF Held
    <3>2. CASE \E t \in SaveSlots :
                  saves[t] # Nothing /\ saves[t].of.id = d /\ saves[t].of.edits = Lasting(edited[d])
      BY <1>1, <1>2, <3>2 DEF Held
    <3>3. CASE repository[d] = Lasting(edited[d])
      BY <1>1, <3>3 DEF Held
    <3> QED BY <2>1, <3>1, <3>2, <3>3 DEF Held
  <2> QED BY <1>1, <2>1 DEF EditorInv, EditsInv
<1>6. FlagsInv'
  BY <1>1, <1>2 DEF EditorInv, FlagsInv
<1> QED BY <1>4, <1>5, <1>6 DEF EditorInv

\* A save that ends has stored what it was given, or its definition is disturbed.
LEMMA Ends ==
  ASSUME EditorInv, NEW s \in SaveSlots, SaveLands(s) \/ SaveFails(s)
  PROVE  EditorInv'
<1> DEFINE x == saves[s].of
<1>1. /\ saves[s] # Nothing /\ saves' = [saves EXCEPT ![s] = Nothing]
      /\ shown' = IF saves[s].by = "button" THEN [shown EXCEPT !.saving = FALSE] ELSE shown
      /\ UNCHANGED <<editor, timer, loads, edited>>
      /\ \/ /\ repository' = [repository EXCEPT ![x.id] = x.edits]
            /\ disturbed' = IF repository[x.id] \subseteq x.edits THEN disturbed ELSE disturbed \union {x.id}
         \/ repository' = repository /\ disturbed' = disturbed \union {x.id}
  BY DEF SaveLands, SaveFails, SaveSettles, editorState
<1>2. x \in Contents /\ Within(x, edited) /\ x.edits \subseteq SavedEdits /\ x.id \in Definitions /\ x.edits \in SUBSET Edits
  BY <1>1 DEF EditorInv, EditorTypes, Writes, Contents
<1>3. saves' \in [SaveSlots -> Writes \union {Nothing}] /\ saves'[s] = Nothing
      /\ \A t \in SaveSlots \ {s} : saves'[t] = saves[t]
  BY <1>1 DEF EditorInv, EditorTypes
<1> HIDE DEF x
<1>4. /\ repository' \in [Definitions -> SUBSET Edits]
      /\ \A d \in Definitions : d # x.id => repository'[d] = repository[d]
      /\ repository'[x.id] \in {x.edits, repository[x.id]}
      /\ x.id \notin disturbed' => repository'[x.id] = x.edits /\ repository[x.id] \subseteq x.edits
  BY <1>1, <1>2 DEF EditorInv, EditorTypes
<1>5. \A d \in Definitions : repository'[d] \subseteq Lasting(edited[d])
  BY <1>2, <1>4 DEF EditorInv, EditorTypes, Within, Lasting
<1>6. EditorTypes'
  BY <1>1, <1>3, <1>4, <1>5 DEF EditorInv, EditorTypes, Within
<1>7. EditsInv'
  <2>1. ASSUME NEW d \in Definitions \ disturbed'
        PROVE  /\ editor' # Nothing /\ editor'.id = d =>
                    Lasting(editor'.edits) = Lasting(edited'[d])
               /\ Held(d)'
    <3>1. d \notin disturbed /\ Held(d)
      BY <1>1 DEF EditorInv, EditsInv
    <3>2. editor' # Nothing /\ editor'.id = d => Lasting(editor'.edits) = Lasting(edited'[d])
      BY <1>1, <3>1 DEF EditorInv, EditsInv
    <3>3. CASE timer # Nothing /\ timer.id = d /\ Lasting(timer.edits) = Lasting(edited[d])
      BY <1>1, <3>2, <3>3 DEF Held
    <3>4. CASE \E t \in SaveSlots :
                  saves[t] # Nothing /\ saves[t].of.id = d /\ saves[t].of.edits = Lasting(edited[d])
      <4>1. PICK t \in SaveSlots :
              saves[t] # Nothing /\ saves[t].of.id = d /\ saves[t].of.edits = Lasting(edited[d])
        BY <3>4
      <4>2. CASE t = s
        <5>1. x.id = d /\ x.edits = Lasting(edited[d])
          BY <4>1, <4>2 DEF x
        <5>2. repository'[d] = Lasting(edited'[d])
          BY <1>1, <1>4, <5>1
        <5> QED BY <3>2, <5>2 DEF Held
      <4>3. CASE t # s
        BY <1>1, <1>3, <3>2, <4>1, <4>3 DEF Held
      <4> QED BY <4>2, <4>3
    <3>5. CASE repository[d] = Lasting(edited[d])
      <4>1. repository'[d] = Lasting(edited'[d])
        BY <1>1, <1>2, <1>4, <3>5 DEF Within, Lasting
      <4> QED BY <3>2, <4>1 DEF Held
    <3> QED BY <3>1, <3>2, <3>3, <3>4, <3>5 DEF Held
  <2> QED BY <2>1 DEF EditsInv
<1>8. FlagsInv'
  BY <1>1, <1>3 DEF EditorInv, FlagsInv
<1> QED BY <1>6, <1>7, <1>8 DEF EditorInv

LEMMA EditorKeeps ==
  ASSUME EditorInv, EditorNext \/ UNCHANGED editorVars
  PROVE  EditorInv'
  BY EditorRests, Loads, Edit, Begins, Ends DEF EditorNext

LEMMA EditorSound ==
  ASSUME EditorInv
  PROVE  EditsAreSaved /\ EditorSettles
<1>1. EditsAreSaved
  BY DEF EditorInv, EditsInv, Held, EditsAreSaved, Lasting
<1>2. EditorSettles
  BY DEF EditorInv, FlagsInv, EditorSettles
<1> QED BY <1>1, <1>2
-----------------------------------------------------------------------------
(* The wizard that creates an agent *)

Content == SUBSET (Stored \union Changes)
Wizards == [step : Nat, temporary : Content \union {Absent}, template : BOOLEAN,
            preview : WizardCalls \union {Absent}, loading : BOOLEAN]
CallsMade == [op : {"start", "preview", "finalize", "cleanup"},
              phase : {"called", "template", "stored", "deleted", "ended"},
              with : Content \union WizardCalls \union {Absent}]

LEMMA AbsentElse == Absent \notin WizardCalls /\ Absent \notin CallsMade
  BY CreationAssumption DEF CallsMade, Content

\* Where an agent comes from.
AccountedFor(a) ==
    \/ calls[a.call].op = "finalize" /\ <<a.call, a.of>> \in clicked
    \/ a.call = wizard.preview \/ a.call \in leaked

WizardInv ==
    /\ wizard \in Wizards
    /\ calls \in [WizardCalls -> CallsMade \union {Absent}]
    /\ \A a \in agents : a.call \in WizardCalls /\ calls[a.call] # Absent /\ AccountedFor(a)
    /\ created \subseteq clicked /\ \A x \in clicked : x = <<x[1], x[2]>>
    /\ \A c \in WizardCalls : calls[c] # Absent /\ calls[c].op = "finalize" => <<c, calls[c].with>> \in clicked
    /\ wizard.loading => \E c \in WizardCalls :
          calls[c] # Absent /\ calls[c].phase = "called" /\ calls[c].op \in {"start", "preview"}

DialogInv ==
    /\ dialog \in [open : BOOLEAN, loading : BOOLEAN, result : Generations \union {Absent}]
    /\ dialog.loading => generating # {}

LEMMA CreationStarts ==
  ASSUME CreationInit
  PROVE  WizardInv /\ DialogInv
<1>1. wizard \in Wizards /\ wizard.loading = FALSE
  BY DEF CreationInit, Wizards
<1>2. DialogInv
  BY DEF CreationInit, DialogInv
<1> QED BY <1>1, <1>2 DEF CreationInit, WizardInv

LEMMA DialogKeeps ==
  ASSUME DialogInv, DialogNext \/ UNCHANGED dialogVars
  PROVE  DialogInv'
<1>0. DialogNext \/ UNCHANGED dialogVars
  OBVIOUS
<1>1. CASE UNCHANGED dialogVars
  BY <1>1 DEF dialogVars, DialogInv
<1>2. CASE OpenDialog \/ CloseDialog
  <2>1. /\ dialog' \in [open : BOOLEAN, loading : BOOLEAN, result : Generations \union {Absent}]
        /\ dialog'.loading => dialog.loading
    <3>1. CASE OpenDialog
      BY <3>1 DEF OpenDialog
    <3>2. CASE CloseDialog
      BY <3>2 DEF CloseDialog, DialogInv
    <3> QED BY <1>2, <3>1, <3>2
  <2> QED BY <1>2, <2>1 DEF OpenDialog, CloseDialog, DialogInv
<1>3. CASE \E g \in Generations : Generate(g)
  BY <1>3 DEF Generate, DialogInv
<1>4. CASE \E g \in Generations : GenerateEnds(g)
  BY <1>4 DEF GenerateEnds, DialogInv
<1> QED BY <1>0, <1>1, <1>2, <1>3, <1>4 DEF DialogNext

\* A step that makes no call and no agent.
LEMMA WizardShows ==
  ASSUME WizardInv, wizard' \in Wizards, wizard'.preview = wizard.preview,
         wizard'.loading = wizard.loading, UNCHANGED <<calls, agents, created, clicked, leaked>>
  PROVE  WizardInv'
  BY DEF WizardInv, AccountedFor

\* A call is made, by a name that was not used.
LEMMA Called ==
  ASSUME WizardInv, NEW c \in WizardCalls, NEW op \in {"start", "preview", "finalize", "cleanup"},
         NEW with \in Content \union WizardCalls \union {Absent}, Call(c, op, with)
  PROVE  /\ calls[c] = Absent /\ calls' \in [WizardCalls -> CallsMade \union {Absent}]
         /\ calls'[c] # Absent /\ calls'[c].op = op /\ calls'[c].phase = "called" /\ calls'[c].with = with
         /\ \A d \in WizardCalls \ {c} : calls'[d] = calls[d]
         /\ \A a \in agents : a.call # c
<1> DEFINE new == [op |-> op, phase |-> "called", with |-> with]
<1>1. calls[c] = Absent /\ calls' = [calls EXCEPT ![c] = new]
  BY DEF Call
<1>2. new \in CallsMade /\ new.op = op /\ new.phase = "called" /\ new.with = with
  BY DEF CallsMade
<1> HIDE DEF new
<1>3. /\ calls' \in [WizardCalls -> CallsMade \union {Absent}] /\ calls'[c] = new
      /\ \A d \in WizardCalls \ {c} : calls'[d] = calls[d]
  BY <1>1, <1>2 DEF WizardInv
<1>4. \A a \in agents : a.call # c
  BY <1>1 DEF WizardInv
<1> QED BY <1>1, <1>2, <1>3, <1>4, AbsentElse

LEMMA Calling ==
  ASSUME WizardInv, NEW c \in WizardCalls,
         StartWizard(c) \/ CreatePreviewAgent(c) \/ Finalize(c) \/ Cleanup(c)
  PROVE  WizardInv'
<1>1. PICK op \in {"start", "preview", "finalize", "cleanup"},
           with \in Content \union WizardCalls \union {Absent} :
         /\ Call(c, op, with)
         /\ wizard' = (IF op \in {"start", "preview"} THEN [wizard EXCEPT !.loading = TRUE] ELSE wizard)
         /\ clicked' = (IF op = "finalize" THEN clicked \union {<<c, with>>} ELSE clicked)
         /\ UNCHANGED <<agents, created, leaked>>
  <2>1. CASE StartWizard(c)
    BY <2>1 DEF StartWizard
  <2>2. CASE CreatePreviewAgent(c)
    BY <2>2 DEF CreatePreviewAgent
  <2>3. CASE Finalize(c)
    <3>1. wizard.temporary \in Content
      BY <2>3 DEF Finalize, WizardInv, Wizards
    <3> QED BY <2>3, <3>1 DEF Finalize
  <2>4. CASE Cleanup(c)
    <3>1. wizard.preview \in WizardCalls
      BY <2>4 DEF Cleanup, WizardInv, Wizards
    <3> QED BY <2>4, <3>1 DEF Cleanup
  <2> QED BY <2>1, <2>2, <2>3, <2>4
<1>2. /\ calls[c] = Absent /\ calls' \in [WizardCalls -> CallsMade \union {Absent}]
      /\ calls'[c] # Absent /\ calls'[c].op = op /\ calls'[c].phase = "called" /\ calls'[c].with = with
      /\ \A d \in WizardCalls \ {c} : calls'[d] = calls[d]
      /\ \A a \in agents : a.call # c
  BY <1>1, Called
<1>3. wizard' \in Wizards /\ wizard'.preview = wizard.preview
  BY <1>1 DEF WizardInv, Wizards
<1>4. \A a \in agents' : a.call \in WizardCalls /\ calls'[a.call] # Absent /\ AccountedFor(a)'
  BY <1>1, <1>2, <1>3 DEF WizardInv, AccountedFor
<1>5. \A d \in WizardCalls : calls'[d] # Absent /\ calls'[d].op = "finalize" => <<d, calls'[d].with>> \in clicked'
  BY <1>1, <1>2 DEF WizardInv
<1>6. created' \subseteq clicked' /\ \A x \in clicked' : x = <<x[1], x[2]>>
  BY <1>1 DEF WizardInv
<1>7. wizard'.loading => \E d \in WizardCalls :
         calls'[d] # Absent /\ calls'[d].phase = "called" /\ calls'[d].op \in {"start", "preview"}
  <2>1. CASE op \in {"start", "preview"}
    BY <1>2, <2>1
  <2>2. CASE op \notin {"start", "preview"}
    BY <1>1, <1>2, <2>2 DEF WizardInv
  <2> QED BY <2>1, <2>2
<1> QED BY <1>2, <1>3, <1>4, <1>5, <1>6, <1>7 DEF WizardInv

\* A call goes on to another phase.
LEMMA WentOn ==
  ASSUME WizardInv, NEW c \in WizardCalls, calls[c] # Absent,
         NEW phase \in {"template", "stored", "deleted", "ended"}, GoOn(c, phase)
  PROVE  /\ calls' \in [WizardCalls -> CallsMade \union {Absent}] /\ calls'[c] # Absent
         /\ calls'[c].op = calls[c].op /\ calls'[c].with = calls[c].with /\ calls'[c].phase = phase
         /\ \A d \in WizardCalls \ {c} : calls'[d] = calls[d]
         /\ \A d \in WizardCalls : calls'[d] # Absent /\ calls'[d].op = "finalize" =>
               <<d, calls'[d].with>> \in clicked
<1> DEFINE new == [calls[c] EXCEPT !.phase = phase]
<1>1. calls[c] \in CallsMade /\ calls' = [calls EXCEPT ![c] = new]
  BY DEF GoOn, WizardInv
<1>2. /\ new \in CallsMade /\ new.op = calls[c].op /\ new.with = calls[c].with /\ new.phase = phase
  BY <1>1 DEF CallsMade
<1> HIDE DEF new
<1>3. /\ calls' \in [WizardCalls -> CallsMade \union {Absent}] /\ calls'[c] = new
      /\ \A d \in WizardCalls \ {c} : calls'[d] = calls[d]
  BY <1>1, <1>2 DEF WizardInv
<1> QED BY <1>2, <1>3, AbsentElse DEF WizardInv

\* An answer that leaves no more agents than there were, or one that is accounted for.
LEMMA WizardAnswered ==
  ASSUME WizardInv, NEW c \in WizardCalls,
         Restored(c) \/ TemplateLoaded(c) \/ PreviewCreated(c) \/ DefinitionStored(c)
           \/ AgentCreated(c) \/ CleanedUp(c)
  PROVE  WizardInv'
<1>1. CASE Restored(c)
  <2>1. PICK phase \in {"template", "ended"} :
          /\ calls[c] # Absent /\ GoOn(c, phase) /\ UNCHANGED <<agents, created, clicked, leaked>>
          /\ wizard' \in {[wizard EXCEPT !.temporary = Stored, !.loading = FALSE], [wizard EXCEPT !.loading = FALSE]}
    BY <1>1 DEF Restored, Answer, End
  <2>2. Stored \in Content
    BY DEF Content
  <2>3. wizard' \in Wizards /\ wizard'.preview = wizard.preview /\ ~wizard'.loading
    BY <2>1, <2>2 DEF WizardInv, Wizards
  <2> QED BY <2>1, <2>3, WentOn DEF WizardInv, AccountedFor
<1>2. CASE TemplateLoaded(c)
  <2>1. /\ calls[c] # Absent /\ calls[c].phase = "template" /\ GoOn(c, "ended")
        /\ UNCHANGED <<agents, created, clicked, leaked>>
        /\ wizard' \in {wizard, [wizard EXCEPT !.template = TRUE], [wizard EXCEPT !.loading = FALSE]}
    BY <1>2 DEF TemplateLoaded, Answer, End
  <2>2. wizard' \in Wizards /\ wizard'.preview = wizard.preview /\ (wizard'.loading => wizard.loading)
    BY <2>1 DEF WizardInv, Wizards
  <2> QED BY <2>1, <2>2, WentOn DEF WizardInv, AccountedFor
<1>3. CASE PreviewCreated(c)
  <2>1. /\ calls[c] # Absent /\ GoOn(c, "ended") /\ UNCHANGED <<created, clicked>>
        /\ \/ /\ agents' = agents \union {[call |-> c, of |-> Absent]}
              /\ leaked' = IF wizard.preview = Absent THEN leaked ELSE leaked \union {wizard.preview}
              /\ wizard' = [wizard EXCEPT !.preview = c, !.loading = FALSE]
           \/ wizard' = [wizard EXCEPT !.loading = FALSE] /\ UNCHANGED <<agents, leaked>>
    BY <1>3 DEF PreviewCreated, Answer, End
  <2>2. wizard' \in Wizards /\ ~wizard'.loading
    BY <2>1 DEF WizardInv, Wizards
  <2>3. CASE wizard' = [wizard EXCEPT !.loading = FALSE] /\ UNCHANGED <<agents, leaked>>
    <3>1. wizard'.preview = wizard.preview
      BY <2>3 DEF WizardInv, Wizards
    <3> QED BY <2>1, <2>2, <2>3, <3>1, WentOn DEF WizardInv, AccountedFor
  <2>4. CASE /\ agents' = agents \union {[call |-> c, of |-> Absent]}
             /\ leaked' = IF wizard.preview = Absent THEN leaked ELSE leaked \union {wizard.preview}
             /\ wizard' = [wizard EXCEPT !.preview = c, !.loading = FALSE]
    <3>1. wizard'.preview = c
      BY <2>4 DEF WizardInv, Wizards
    <3>2. \A a \in agents : a.call \in WizardCalls /\ calls'[a.call] # Absent /\ AccountedFor(a)'
      <4> SUFFICES ASSUME NEW a \in agents
                   PROVE  a.call \in WizardCalls /\ calls'[a.call] # Absent /\ AccountedFor(a)'
        OBVIOUS
      <4>1. a.call \in WizardCalls /\ calls[a.call] # Absent /\ AccountedFor(a)
        BY DEF WizardInv
      <4>2. calls'[a.call] # Absent /\ calls'[a.call].op = calls[a.call].op
        BY <2>1, <4>1, WentOn
      <4>3. a.call = wizard.preview => a.call \in leaked'
        BY <2>4, <4>1, AbsentElse
      <4> QED BY <2>1, <2>4, <4>1, <4>2, <4>3 DEF AccountedFor
    <3>3. ASSUME NEW a \in {[call |-> c, of |-> Absent]}
          PROVE  a.call \in WizardCalls /\ calls'[a.call] # Absent /\ AccountedFor(a)'
      BY <2>1, <3>1, WentOn DEF AccountedFor
    <3>4. \A a \in agents' : a.call \in WizardCalls /\ calls'[a.call] # Absent /\ AccountedFor(a)'
      BY <2>4, <3>2, <3>3
    <3> QED BY <2>1, <2>2, <3>4, WentOn DEF WizardInv
  <2> QED BY <2>1, <2>3, <2>4
<1>4. CASE DefinitionStored(c)
  <2>1. /\ calls[c] # Absent /\ calls[c].op = "finalize" /\ calls[c].phase = "called"
        /\ \E phase \in {"stored", "ended"} : GoOn(c, phase)
        /\ created' \in {created, created \union {<<c, calls[c].with>>}}
        /\ UNCHANGED <<wizard, agents, clicked, leaked>>
    BY <1>4 DEF DefinitionStored, Answer, End
  <2>2. created' \subseteq clicked
    BY <2>1 DEF WizardInv
  <2> QED BY <2>1, <2>2, WentOn DEF WizardInv, AccountedFor
<1>5. CASE AgentCreated(c)
  <2>1. /\ calls[c] # Absent /\ calls[c].op = "finalize" /\ calls[c].phase = "stored" /\ GoOn(c, "ended")
        /\ agents' \in {agents, agents \union {[call |-> c, of |-> d[2]] : d \in {x \in created : x[1] = c}}}
        /\ UNCHANGED <<wizard, created, clicked, leaked>>
    BY <1>5 DEF AgentCreated, Answer, End
  <2>2. ASSUME NEW d \in created, d[1] = c
        PROVE  <<c, d[2]>> \in clicked
    <3>1. d \in clicked
      BY DEF WizardInv
    <3>2. d = <<d[1], d[2]>>
      BY <3>1 DEF WizardInv
    <3> QED BY <2>2, <3>1, <3>2
  <2>3. \A a \in agents' : a \in agents \/ (a.call = c /\ <<c, a.of>> \in clicked)
    BY <2>1, <2>2
  <2>4. \A a \in agents' : a.call \in WizardCalls /\ calls'[a.call] # Absent /\ AccountedFor(a)'
    <3> SUFFICES ASSUME NEW a \in agents'
                 PROVE  a.call \in WizardCalls /\ calls'[a.call] # Absent /\ AccountedFor(a)'
      OBVIOUS
    <3>1. CASE a \in agents
      BY <2>1, <3>1, WentOn DEF WizardInv, AccountedFor
    <3>2. CASE a.call = c /\ <<c, a.of>> \in clicked
      BY <2>1, <3>2, WentOn DEF AccountedFor
    <3> QED BY <2>3, <3>1, <3>2
  <2> QED BY <2>1, <2>4, WentOn DEF WizardInv
<1>6. CASE CleanedUp(c)
  <2>1. /\ calls[c] # Absent /\ calls[c].op = "cleanup" /\ \E phase \in {"deleted", "ended"} : GoOn(c, phase)
        /\ agents' \subseteq agents
        /\ UNCHANGED <<wizard, created, clicked, leaked>>
    BY <1>6 DEF CleanedUp, Answer, End
  <2> QED BY <2>1, WentOn DEF WizardInv, AccountedFor
<1> QED BY <1>1, <1>2, <1>3, <1>4, <1>5, <1>6

LEMMA WizardKeeps ==
  ASSUME WizardInv, CreationNext \/ UNCHANGED wizardOnly
  PROVE  WizardInv'
<1>0. CreationNext \/ UNCHANGED wizardOnly
  OBVIOUS
<1>1. CASE UNCHANGED wizardOnly
  BY <1>1 DEF wizardOnly, WizardInv, AccountedFor
<1>2. CASE GoToStep \/ SelectTemplate \/ \E e \in Changes : UpdateTemporaryDefinition(e)
  <2>1. /\ UNCHANGED <<calls, agents, created, clicked, leaked>> /\ wizard' \in Wizards
        /\ wizard'.preview = wizard.preview /\ wizard'.loading = wizard.loading
    <3>1. CASE GoToStep
      BY <3>1 DEF GoToStep, WizardInv, Wizards
    <3>2. CASE SelectTemplate
      BY <3>2 DEF SelectTemplate, WizardInv, Wizards
    <3>3. CASE \E e \in Changes : UpdateTemporaryDefinition(e)
      <4>1. PICK e \in Changes : UpdateTemporaryDefinition(e)
        BY <3>3
      <4>2. wizard.temporary \union {e} \in Content
        BY <4>1 DEF UpdateTemporaryDefinition, WizardInv, Wizards, Content
      <4> QED BY <4>1, <4>2 DEF UpdateTemporaryDefinition, WizardInv, Wizards
    <3> QED BY <1>2, <3>1, <3>2, <3>3
  <2> QED BY <2>1, WizardShows
<1> QED BY <1>0, <1>1, <1>2, Calling, WizardAnswered DEF CreationNext

\* The wizard and the dialog leave each other's state alone.
LEMMA CreationKeeps ==
  ASSUME WizardInv, DialogInv, CreationNext \/ DialogNext \/ UNCHANGED wizardVars
  PROVE  WizardInv' /\ DialogInv'
<1>1. CASE CreationNext
  <2>1. UNCHANGED dialogVars
    BY <1>1 DEF CreationNext, StartWizard, Restored, TemplateLoaded, CreatePreviewAgent, PreviewCreated,
                Finalize, DefinitionStored, AgentCreated, Cleanup, CleanedUp, GoToStep, SelectTemplate,
                UpdateTemporaryDefinition
  <2> QED BY <1>1, <2>1, WizardKeeps, DialogKeeps
<1>2. CASE DialogNext
  <2>1. UNCHANGED wizardOnly
    BY <1>2 DEF DialogNext, OpenDialog, CloseDialog, Generate, GenerateEnds
  <2> QED BY <1>2, <2>1, WizardKeeps, DialogKeeps
<1>3. CASE UNCHANGED wizardVars
  <2>1. UNCHANGED wizardOnly /\ UNCHANGED dialogVars
    BY <1>3 DEF wizardVars, wizardOnly, dialogVars
  <2> QED BY <2>1, WizardKeeps, DialogKeeps
<1> QED BY <1>1, <1>2, <1>3

LEMMA CreationSound ==
  ASSUME WizardInv, DialogInv
  PROVE  AgentsAreAccountedFor /\ CreationSettles
<1>1. AgentsAreAccountedFor
  BY DEF WizardInv, AccountedFor, AgentsAreAccountedFor
<1>2. CreationSettles
  BY DEF WizardInv, DialogInv, CreationSettles
<1> QED BY <1>1, <1>2
-----------------------------------------------------------------------------
(* Sequences some of whose elements are left out *)

\* A filter goes through a sequence and keeps what is in a set.
Filters(f, s, K) ==
    /\ f[0] = <<>>
    /\ \A i \in 1..Len(s) : f[i] = IF s[i] \in K THEN Append(f[i - 1], s[i]) ELSE f[i - 1]

\* The first i elements without those from a to b.
Rest(s, a, b, i) == SubSeq(s, 1, IF i < a THEN i ELSE a - 1) \o SubSeq(s, b + 1, i)

LEMMA AppendConcat ==
  ASSUME NEW S, NEW a \in Seq(S), NEW b \in Seq(S), NEW e \in S
  PROVE  a \o Append(b, e) = Append(a \o b, e)
  OBVIOUS

LEMMA SubSeqGrows ==
  ASSUME NEW S, NEW s \in Seq(S), NEW m \in Nat, NEW i \in 1..Len(s), 1 <= m, m <= i
  PROVE  SubSeq(s, m, i) = Append(SubSeq(s, m, i - 1), s[i]) /\ s[i] \in S /\ SubSeq(s, m, i - 1) \in Seq(S)
<1>1. s[i] \in S /\ i \in Nat /\ Len(s) \in Nat
  OBVIOUS
<1>2. SubSeq(s, m, i - 1) \in Seq(S) /\ Len(SubSeq(s, m, i - 1)) = i - m
  OBVIOUS
<1>3. Len(SubSeq(s, m, i)) = i - m + 1 /\ SubSeq(s, m, i) \in Seq(S)
  OBVIOUS
<1>4. \A j \in 1..(i - m + 1) : SubSeq(s, m, i)[j] = s[m + j - 1]
  BY <1>1, <1>3
<1>5. \A j \in 1..(i - m) : SubSeq(s, m, i - 1)[j] = s[m + j - 1]
  BY <1>1, <1>2
<1> QED BY <1>1, <1>2, <1>3, <1>4, <1>5

LEMMA RestStep ==
  ASSUME NEW S, NEW s \in Seq(S), NEW a \in Nat, NEW b \in Nat, 1 <= a, a <= b + 1, b <= Len(s)
  PROVE  /\ Rest(s, a, b, 0) = <<>>
         /\ \A i \in 1..Len(s) :
              Rest(s, a, b, i) = IF a <= i /\ i <= b THEN Rest(s, a, b, i - 1)
                                                     ELSE Append(Rest(s, a, b, i - 1), s[i])
<1>0. Len(s) \in Nat
  OBVIOUS
<1>1. Rest(s, a, b, 0) = <<>>
  <2>1. SubSeq(s, 1, 0) = <<>> /\ SubSeq(s, b + 1, 0) = <<>>
    OBVIOUS
  <2>2. (IF 0 < a THEN 0 ELSE a - 1) = 0
    OBVIOUS
  <2>3. <<>> \o <<>> = <<>>
    OBVIOUS
  <2> QED BY <2>1, <2>2, <2>3 DEF Rest
<1>2. ASSUME NEW i \in 1..Len(s)
      PROVE  Rest(s, a, b, i) = IF a <= i /\ i <= b THEN Rest(s, a, b, i - 1)
                                                    ELSE Append(Rest(s, a, b, i - 1), s[i])
  <2>0. i \in Nat /\ i - 1 \in Nat
    OBVIOUS
  <2>1. CASE i < a
    <3>1. SubSeq(s, 1, i) = Append(SubSeq(s, 1, i - 1), s[i]) /\ s[i] \in S /\ SubSeq(s, 1, i - 1) \in Seq(S)
      BY SubSeqGrows
    <3>2. SubSeq(s, b + 1, i) = <<>> /\ SubSeq(s, b + 1, i - 1) = <<>>
      BY <2>0, <2>1
    <3>3. \A x \in Seq(S) : x \o <<>> = x
      OBVIOUS
    <3>4. i - 1 < a
      BY <2>1
    <3>5. SubSeq(s, 1, i) \in Seq(S)
      BY <3>1
    <3> QED BY <2>1, <3>1, <3>2, <3>3, <3>4, <3>5 DEF Rest
  <2>2. CASE a <= i /\ i <= b
    <3>1. SubSeq(s, b + 1, i) = <<>> /\ SubSeq(s, b + 1, i - 1) = <<>>
      BY <2>0, <2>2
    <3>2. (IF i < a THEN i ELSE a - 1) = (IF i - 1 < a THEN i - 1 ELSE a - 1)
      BY <2>0, <2>2
    <3> QED BY <2>2, <3>1, <3>2 DEF Rest
  <2>3. CASE i > b
    <3>1. (IF i < a THEN i ELSE a - 1) = a - 1 /\ (IF i - 1 < a THEN i - 1 ELSE a - 1) = a - 1
      BY <2>0, <2>3
    <3>2. /\ SubSeq(s, b + 1, i) = Append(SubSeq(s, b + 1, i - 1), s[i]) /\ s[i] \in S
          /\ SubSeq(s, b + 1, i - 1) \in Seq(S)
      BY <2>3, SubSeqGrows
    <3>3. SubSeq(s, 1, a - 1) \in Seq(S)
      BY <1>0
    <3>4. SubSeq(s, 1, a - 1) \o Append(SubSeq(s, b + 1, i - 1), s[i])
             = Append(SubSeq(s, 1, a - 1) \o SubSeq(s, b + 1, i - 1), s[i])
      BY <3>2, <3>3, AppendConcat
    <3> QED BY <2>3, <3>1, <3>2, <3>4 DEF Rest
  <2> QED BY <1>0, <2>0, <2>1, <2>2, <2>3
<1> QED BY <1>1, <1>2

LEMMA FilterIs ==
  ASSUME NEW S, NEW s \in Seq(S), NEW a \in Nat, NEW b \in Nat, 1 <= a, a <= b + 1, b <= Len(s),
         NEW K, \A i \in 1..Len(s) : s[i] \in K <=> ~(a <= i /\ i <= b),
         NEW f, Filters(f, s, K)
  PROVE  f[Len(s)] = Rest(s, a, b, Len(s))
<1> DEFINE Bad == {i \in 0..Len(s) : f[i] # Rest(s, a, b, i)}
<1>1. Bad = {}
  <2> SUFFICES ASSUME Bad # {} PROVE FALSE
    OBVIOUS
  <2>1. Bad \subseteq Nat
    OBVIOUS
  <2>2. PICK i \in Bad : \A j \in Bad : i <= j
    BY <2>1, NatMin
  <2>3. i # 0
    BY <2>2, RestStep DEF Filters
  <2>4. i \in 1..Len(s) /\ i - 1 \in 0..Len(s) /\ ~(i <= i - 1)
    BY <2>3
  <2>5. i - 1 \notin Bad
    BY <2>2, <2>4
  <2>6. f[i - 1] = Rest(s, a, b, i - 1)
    BY <2>4, <2>5
  <2>7. f[i] = IF s[i] \in K THEN Append(f[i - 1], s[i]) ELSE f[i - 1]
    BY <2>4 DEF Filters
  <2>8. Rest(s, a, b, i) = IF a <= i /\ i <= b THEN Rest(s, a, b, i - 1)
                                               ELSE Append(Rest(s, a, b, i - 1), s[i])
    BY <2>4, RestStep
  <2> QED BY <2>2, <2>4, <2>6, <2>7, <2>8
<1>2. Len(s) \in 0..Len(s)
  OBVIOUS
<1> QED BY <1>1, <1>2

\* The filter as it runs.
Filtered(f, s, a, b) ==
    f = [i \in 0..Len(s) |-> IF i = 0 THEN <<>>
                             ELSE IF a <= i /\ i <= b THEN f[i - 1] ELSE Append(f[i - 1], s[i])]

LEMMA FilterExists ==
  ASSUME NEW S, NEW s \in Seq(S), NEW a \in Nat, NEW b \in Nat, 1 <= a, a <= b + 1, b <= Len(s)
  PROVE  \E f : Filtered(f, s, a, b)
<1> DEFINE f == [i \in 0..Len(s) |-> Rest(s, a, b, i)]
<1>1. ASSUME NEW i \in 0..Len(s)
      PROVE  f[i] = IF i = 0 THEN <<>>
                    ELSE IF a <= i /\ i <= b THEN f[i - 1] ELSE Append(f[i - 1], s[i])
  <2>1. CASE i = 0
    BY <2>1, RestStep
  <2>2. CASE i # 0
    <3>1. i \in 1..Len(s) /\ i - 1 \in 0..Len(s)
      BY <2>2
    <3> QED BY <2>2, <3>1, RestStep
  <2> QED BY <2>1, <2>2
<1>2. f = [i \in 0..Len(s) |-> f[i]]
  OBVIOUS
<1> HIDE DEF f
<1>3. f = [i \in 0..Len(s) |-> IF i = 0 THEN <<>>
                               ELSE IF a <= i /\ i <= b THEN f[i - 1] ELSE Append(f[i - 1], s[i])]
  BY <1>1, <1>2
<1> QED BY <1>3 DEF Filtered
-----------------------------------------------------------------------------
(* The output of a terminal session *)

Lesser(m, n) == IF m <= n THEN m ELSE n

\* The last k of n numbers, in order.
LastOf(s, n, k) ==
    /\ s \in Seq(Nat) /\ Len(s) = Lesser(n, k)
    /\ \A i \in 1..Len(s) : s[i] = n - Len(s) + i

LEMMA KeepsLast ==
  ASSUME NEW s, NEW n \in Nat, NEW k \in Nat, NEW m \in Nat, m <= k, LastOf(s, n, k)
  PROVE  LastOf(KeepLast(s, m), n, m)
<1> DEFINE from == IF Len(s) > m THEN Len(s) - m + 1 ELSE 1
           t == SubSeq(s, from, Len(s))
<1>1. s \in Seq(Nat) /\ Len(s) \in Nat /\ Len(s) <= n /\ Len(s) = Lesser(n, k)
  BY DEF LastOf, Lesser
<1>2. from \in 1..(Len(s) + 1)
  BY <1>1
<1>3. Len(s) - from + 1 = Lesser(n, m)
  BY <1>1 DEF Lesser
<1>4. KeepLast(s, m) = t
  BY DEF KeepLast
<1> HIDE DEF from
<1>5. t \in Seq(Nat) /\ Len(t) = Len(s) - from + 1 /\ \A i \in 1..Len(t) : t[i] = s[from + i - 1]
  BY <1>1, <1>2
<1> HIDE DEF t
<1>6. ASSUME NEW i \in 1..Len(t) PROVE t[i] = n - Len(t) + i
  <2>1. from + i - 1 \in 1..Len(s)
    BY <1>1, <1>2, <1>5
  <2>2. s[from + i - 1] = n - Len(s) + (from + i - 1)
    BY <2>1 DEF LastOf
  <2>3. t[i] = n - Len(s) + (from + i - 1) /\ Len(t) = Len(s) - from + 1
    BY <1>5, <2>2
  <2> QED BY <1>1, <1>2, <2>3
<1> QED BY <1>3, <1>4, <1>5, <1>6 DEF LastOf

LEMMA KeepsNew ==
  ASSUME NEW s, NEW n \in Nat, NEW k \in Nat, LastOf(s, n, k)
  PROVE  LastOf(KeepLast(Append(s, n + 1), k), n + 1, k)
<1> DEFINE a == Append(s, n + 1)
<1>1. s \in Seq(Nat) /\ Len(s) \in Nat /\ Len(s) = Lesser(n, k)
  BY DEF LastOf, Lesser
<1>2. /\ a \in Seq(Nat) /\ Len(a) = Len(s) + 1 /\ a[Len(s) + 1] = n + 1
      /\ \A i \in 1..Len(s) : a[i] = s[i]
  BY <1>1
<1>3. Len(a) = Lesser(n + 1, k + 1)
  BY <1>1, <1>2 DEF Lesser
<1> HIDE DEF a
<1>4. ASSUME NEW i \in 1..Len(a) PROVE a[i] = n + 1 - Len(a) + i
  <2>1. CASE i \in 1..Len(s)
    <3>1. a[i] = n - Len(s) + i
      BY <1>2, <2>1 DEF LastOf
    <3> QED BY <1>1, <1>2, <2>1, <3>1
  <2>2. CASE i = Len(s) + 1
    BY <1>1, <1>2, <2>2
  <2> QED BY <1>1, <1>2, <2>1, <2>2
<1>5. LastOf(a, n + 1, k + 1)
  BY <1>2, <1>3, <1>4 DEF LastOf
<1>6. LastOf(KeepLast(a, k), n + 1, k)
  BY <1>5, KeepsLast
<1> QED BY <1>6 DEF a

\* What is kept from a number on.
LEMMA SinceIs ==
  ASSUME NEW n \in Nat, LastOf(chunks, n, KeepChunks), NEW from \in Nat, from >= 1
  PROVE  LET new == ChunksSince(from)
             base == n - Len(chunks)
             low == IF from <= base THEN base ELSE from - 1
         IN  /\ new \in Seq(Nat) /\ Len(new) = (IF low <= n THEN n - low ELSE 0)
             /\ \A j \in 1..Len(new) : new[j] = low + j
<1> DEFINE L == Len(chunks)
           base == n - L
           low == IF from <= base THEN base ELSE from - 1
           b == IF low <= n THEN low - base ELSE L
           Step(f) == [i \in 0..L |-> IF i = 0 THEN <<>>
                                      ELSE IF chunks[i] >= from THEN Append(f[i - 1], chunks[i]) ELSE f[i - 1]]
           F == CHOOSE f : f = Step(f)
<1>1. chunks \in Seq(Nat) /\ L \in Nat /\ L <= n /\ \A i \in 1..L : chunks[i] = base + i
  BY OutputAssumption DEF LastOf, Lesser
<1>2. b \in 0..L /\ \A i \in 1..L : chunks[i] >= from <=> ~(1 <= i /\ i <= b)
  BY <1>1
<1>3. F = Step(F)
  <2>1. PICK f : Filtered(f, chunks, 1, b)
    <3> HIDE DEF b
    <3>1. b \in Nat /\ 1 <= b + 1 /\ b <= L
      BY <1>1, <1>2
    <3> QED BY <1>1, <3>1, FilterExists
  <2>2. f = Step(f)
    <3>1. ASSUME NEW i \in 0..L
          PROVE  f[i] = IF i = 0 THEN <<>>
                        ELSE IF chunks[i] >= from THEN Append(f[i - 1], chunks[i]) ELSE f[i - 1]
      <4> HIDE DEF b
      <4>1. f[i] = IF i = 0 THEN <<>>
                   ELSE IF 1 <= i /\ i <= b THEN f[i - 1] ELSE Append(f[i - 1], chunks[i])
        BY <2>1 DEF Filtered
      <4>2. i # 0 => (chunks[i] >= from <=> ~(1 <= i /\ i <= b))
        BY <1>1, <1>2
      <4> QED BY <4>1, <4>2
    <3>2. f = [i \in 0..L |-> f[i]]
      BY <2>1 DEF Filtered
    <3> QED BY <3>1, <3>2
  <2> HIDE DEF Step
  <2> QED BY <2>2
<1>4. ChunksSince(from) = F[L]
  BY DEF ChunksSince
<1>5. Filters(F, chunks, {c \in Nat : c >= from})
  <2> HIDE DEF F
  <2>1. 0 \in 0..L /\ F[0] = <<>>
    BY <1>1, <1>3
  <2>2. ASSUME NEW i \in 1..L
        PROVE  F[i] = IF chunks[i] \in {c \in Nat : c >= from} THEN Append(F[i - 1], chunks[i]) ELSE F[i - 1]
    <3>1. i \in 0..L /\ i # 0 /\ chunks[i] \in Nat
      BY <1>1
    <3>2. F[i] = IF chunks[i] >= from THEN Append(F[i - 1], chunks[i]) ELSE F[i - 1]
      BY <1>3, <3>1
    <3> QED BY <3>1, <3>2
  <2> QED BY <2>1, <2>2 DEF Filters
<1> HIDE DEF F
<1>6. F[L] = Rest(chunks, 1, b, L)
  <2>1. \A i \in 1..L : chunks[i] \in {c \in Nat : c >= from} <=> ~(1 <= i /\ i <= b)
    BY <1>1, <1>2
  <2>2. b \in Nat /\ 1 <= b + 1 /\ b <= L
    BY <1>1, <1>2
  <2> HIDE DEF b
  <2> QED BY <1>1, <1>5, <2>1, <2>2, FilterIs
<1>7. Rest(chunks, 1, b, L) = SubSeq(chunks, b + 1, L)
  <2> HIDE DEF b
  <2>1. (IF L < 1 THEN L ELSE 1 - 1) = 0
    BY <1>1
  <2>2. SubSeq(chunks, 1, 0) = <<>> /\ SubSeq(chunks, b + 1, L) \in Seq(Nat)
    BY <1>1, <1>2
  <2>3. \A x \in Seq(Nat) : <<>> \o x = x
    OBVIOUS
  <2> QED BY <2>1, <2>2, <2>3 DEF Rest
<1>8. /\ SubSeq(chunks, b + 1, L) \in Seq(Nat) /\ Len(SubSeq(chunks, b + 1, L)) = L - b
      /\ \A j \in 1..(L - b) : SubSeq(chunks, b + 1, L)[j] = base + b + j
  <2> HIDE DEF b
  <2>1. /\ SubSeq(chunks, b + 1, L) \in Seq(Nat) /\ Len(SubSeq(chunks, b + 1, L)) = L - b
        /\ \A j \in 1..(L - b) : SubSeq(chunks, b + 1, L)[j] = chunks[b + j]
    BY <1>1, <1>2
  <2>2. \A j \in 1..(L - b) : b + j \in 1..L
    BY <1>1, <1>2
  <2> QED BY <1>1, <1>2, <2>1, <2>2
<1>9. ChunksSince(from) = SubSeq(chunks, b + 1, L)
  BY <1>4, <1>6, <1>7
<1>10. L - b = (IF low <= n THEN n - low ELSE 0) /\ (low <= n => base + b = low)
  BY <1>1
<1> HIDE DEF b
<1>11. \A j \in 1..(L - b) : base + b + j = low + j \/ ~(low <= n)
  BY <1>1, <1>2, <1>10
<1> DEFINE new == ChunksSince(from)
<1>12. new \in Seq(Nat) /\ Len(new) = (IF low <= n THEN n - low ELSE 0)
  BY <1>8, <1>9, <1>10
<1>13. ASSUME NEW j \in 1..Len(new) PROVE new[j] = low + j
  <2>1. j \in 1..(L - b) /\ new[j] = base + b + j
    BY <1>8, <1>9
  <2>2. low <= n
    BY <1>12, <1>13
  <2> QED BY <1>11, <2>1, <2>2
<1> HIDE DEF new
<1>14. /\ new \in Seq(Nat) /\ Len(new) = (IF low <= n THEN n - low ELSE 0)
       /\ \A j \in 1..Len(new) : new[j] = low + j
  BY <1>12, <1>13
<1> QED BY <1>14 DEF new
Waits == {"idle", "preparing", "output", "exit", "execute", "failed"}

Readings == [from : Nat, wait : Waits, done : BOOLEAN,
             got : Seq(Nat), lost : SUBSET Nat]

Ascending(s) == \A i, j \in 1..Len(s) : i < j => s[i] < s[j]

\* What a reader got and what was lost to it make up the output to where it goes on.
ReadingOk(x) ==
    /\ x.from >= 1 /\ x.from <= nextChunk /\ Ascending(x.got)
    /\ ToSet(x.got) \union x.lost = 1..(x.from - 1)
    /\ \A c \in x.lost : c + KeepChunks < nextChunk

Executions == {"detached", "until-exit", "until-timeout"}
Executing == {"preparing", "execute", "failed"}

\* terminal.execute alone waits as "execute", and ends what it has started unless it failed, when
\* it has read nothing.
OutputInv ==
    /\ nextChunk \in Nat /\ nextChunk >= 1
    /\ LastOf(chunks, nextChunk - 1, KeepChunks) /\ LastOf(tail, nextChunk - 1, KeepTail)
    /\ reader \in [Readers -> Readings] /\ \A r \in Readers : ReadingOk(reader[r])
    /\ \A r \in Readers :
         /\ reader[r].wait = "preparing" => executed \in Executions
         /\ reader[r].wait = "execute" => executed = "until-timeout"
         /\ reader[r].wait \in {"preparing", "failed"} => reader[r].from = 1
    /\ executed = "until-timeout" => finished \/ \E r \in Readers : reader[r].wait \in Executing
    /\ timedOut => executed = "until-timeout" /\ finished
    /\ finished \in BOOLEAN /\ timedOut \in BOOLEAN

LEMMA OutputStarts ==
  ASSUME OutputInit
  PROVE  OutputInv
<1>1. LastOf(<<>>, 0, KeepChunks) /\ LastOf(<<>>, 0, KeepTail)
  BY OutputAssumption DEF LastOf, Lesser
<1> DEFINE new == [from |-> 1, wait |-> "idle", done |-> FALSE, got |-> <<>>, lost |-> {}]
<1>2. new \in Readings /\ new.from = 1 /\ new.got = <<>> /\ new.lost = {} /\ new.wait = "idle"
  BY DEF Readings, Waits
<1>3. reader = [r \in Readers |-> new] /\ nextChunk = 1
  BY DEF OutputInit
<1> HIDE DEF new
<1>4. ReadingOk(new)
  BY <1>2, <1>3 DEF ReadingOk, Ascending, ToSet
<1>5. reader \in [Readers -> Readings] /\ \A r \in Readers : reader[r] = new
  BY <1>2, <1>3
<1>6. nextChunk - 1 = 0 /\ nextChunk \in Nat /\ nextChunk >= 1 /\ chunks = <<>> /\ tail = <<>>
  BY <1>3 DEF OutputInit
<1>7. executed = "none" /\ timedOut = FALSE /\ finished = FALSE
  BY DEF OutputInit
<1> QED BY <1>1, <1>2, <1>4, <1>5, <1>6, <1>7 DEF OutputInv

\* What an answer adds to what a reader got.
LEMMA AnswerAdds ==
  ASSUME OutputInv, NEW r \in Readers
  PROVE  LET x == reader[r]
             new == ChunksSince(x.from)
             got == x.got \o new
             lost == x.lost \union ((x.from .. nextChunk - 1) \ ToSet(new))
         IN  /\ got \in Seq(Nat) /\ lost \in SUBSET Nat /\ Ascending(got)
             /\ ToSet(got) \union lost = 1..(nextChunk - 1)
             /\ \A c \in lost : c + KeepChunks < nextChunk
<1>0. \A a, b \in Seq(Nat) :
        /\ a \o b \in Seq(Nat) /\ Len(a \o b) = Len(a) + Len(b)
        /\ \A j \in 1..Len(a) : (a \o b)[j] = a[j]
        /\ \A j \in 1..Len(b) : (a \o b)[Len(a) + j] = b[j]
  BY ConcatIs
<1> DEFINE x == reader[r]
           n == nextChunk - 1
           new == ChunksSince(x.from)
           base == n - Len(chunks)
           low == IF x.from <= base THEN base ELSE x.from - 1
           got == x.got \o new
           lost == x.lost \union ((x.from .. n) \ ToSet(new))
<1>1. x \in Readings /\ ReadingOk(x) /\ n \in Nat /\ LastOf(chunks, n, KeepChunks)
      /\ nextChunk = n + 1
  BY DEF OutputInv
<1> HIDE DEF x, n
<1>2. x.from \in Nat /\ x.from >= 1 /\ x.from <= n + 1 /\ x.got \in Seq(Nat) /\ x.lost \in SUBSET Nat
  BY <1>1 DEF Readings, ReadingOk
<1>3. base \in Nat /\ (base > 0 => Len(chunks) = KeepChunks)
  BY <1>1, OutputAssumption DEF LastOf, Lesser
<1>4. low \in Nat /\ low <= n /\ x.from <= low + 1 /\ (low # x.from - 1 => low = base /\ base > 0)
  BY <1>1, <1>2, <1>3
<1>5. new \in Seq(Nat) /\ Len(new) = n - low /\ \A j \in 1..Len(new) : new[j] = low + j
  BY <1>1, <1>2, <1>4, SinceIs
<1> HIDE DEF new, low, base
<1>6. got \in Seq(Nat) /\ Len(got) = Len(x.got) + Len(new)
      /\ (\A j \in 1..Len(x.got) : got[j] = x.got[j])
      /\ \A j \in 1..Len(new) : got[Len(x.got) + j] = new[j]
  BY <1>0, <1>2, <1>5
<1> HIDE DEF got
<1>7. \A i \in 1..Len(x.got) : x.got[i] \in 1..(x.from - 1)
  BY <1>1, <1>2 DEF ReadingOk, ToSet
<1>8. ToSet(new) = (low + 1)..n
  <2>1. \A c \in (low + 1)..n : c - low \in 1..Len(new) /\ new[c - low] = c
    BY <1>1, <1>4, <1>5
  <2>2. DOMAIN new = 1..Len(new)
    BY <1>5
  <2>3. \A j \in 1..Len(new) : new[j] \in (low + 1)..n
    BY <1>1, <1>4, <1>5
  <2>4. ToSet(new) \subseteq (low + 1)..n
    BY <2>2, <2>3 DEF ToSet
  <2>5. (low + 1)..n \subseteq ToSet(new)
    BY <2>1, <2>2 DEF ToSet
  <2> QED BY <2>4, <2>5
<1>9. ToSet(got) = ToSet(x.got) \union ToSet(new)
  <2>1. DOMAIN got = 1..Len(got) /\ DOMAIN x.got = 1..Len(x.got) /\ DOMAIN new = 1..Len(new)
    BY <1>2, <1>5, <1>6
  <2>2. Len(x.got) \in Nat /\ Len(new) \in Nat
    BY <1>2, <1>5
  <2>3. \A i \in 1..Len(x.got) : i \in 1..Len(got)
    BY <1>6, <2>2
  <2>4. \A i \in 1..Len(new) : Len(x.got) + i \in 1..Len(got)
    BY <1>6, <2>2
  <2>5. \A i \in 1..Len(got) : i \in 1..Len(x.got) \/ (i - Len(x.got) \in 1..Len(new) /\ Len(x.got) + (i - Len(x.got)) = i)
    BY <1>6, <2>2
  <2>6. ToSet(x.got) \subseteq ToSet(got)
    BY <1>6, <2>1, <2>3 DEF ToSet
  <2>7. ToSet(new) \subseteq ToSet(got)
    BY <1>6, <2>1, <2>4 DEF ToSet
  <2>8. ASSUME NEW i \in 1..Len(got) PROVE got[i] \in ToSet(x.got) \union ToSet(new)
    <3>1. CASE i \in 1..Len(x.got)
      BY <1>6, <2>1, <3>1 DEF ToSet
    <3>2. CASE i - Len(x.got) \in 1..Len(new) /\ Len(x.got) + (i - Len(x.got)) = i
      <4>1. got[i] = new[i - Len(x.got)]
        BY <1>6, <3>2
      <4> QED BY <2>1, <3>2, <4>1 DEF ToSet
    <3> QED BY <2>5, <3>1, <3>2
  <2>9. ToSet(got) \subseteq ToSet(x.got) \union ToSet(new)
    BY <2>1, <2>8 DEF ToSet
  <2> QED BY <2>6, <2>7, <2>9
<1>10. Ascending(got)
  <2> SUFFICES ASSUME NEW i \in 1..Len(got), NEW j \in 1..Len(got), i < j PROVE got[i] < got[j]
    BY DEF Ascending
  <2> DEFINE p == Len(x.got)
             q == Len(new)
  <2>1. p \in Nat /\ q \in Nat /\ Len(got) = p + q /\ i \in Nat /\ j \in Nat
    BY <1>2, <1>5, <1>6
  <2>2. \A k \in 1..p : got[k] = x.got[k] /\ got[k] \in Nat /\ got[k] <= low
    <3> SUFFICES ASSUME NEW k \in 1..p PROVE got[k] = x.got[k] /\ got[k] \in Nat /\ got[k] <= low
      OBVIOUS
    <3>1. got[k] = x.got[k] /\ x.got[k] \in 1..(x.from - 1)
      BY <1>6, <1>7
    <3> QED BY <1>2, <1>4, <3>1
  <2>3. \A k \in 1..q : got[p + k] = low + k
    BY <1>5, <1>6
  <2>4. \A k, l \in 1..p : k < l => x.got[k] < x.got[l]
    BY <1>1 DEF ReadingOk, Ascending
  <2> HIDE DEF p, q
  <2>5. CASE j <= p
    <3>1. i \in 1..p /\ j \in 1..p
      BY <2>1, <2>5
    <3> QED BY <2>2, <2>4, <3>1
  <2>6. CASE i <= p /\ j > p
    <3>1. i \in 1..p /\ j - p \in 1..q /\ p + (j - p) = j
      BY <2>1, <2>6
    <3>2. got[j] = low + (j - p)
      BY <2>3, <3>1
    <3> QED BY <1>4, <2>1, <2>2, <3>1, <3>2
  <2>7. CASE i > p
    <3>1. /\ i - p \in 1..q /\ p + (i - p) = i
          /\ j - p \in 1..q /\ p + (j - p) = j
      BY <2>1, <2>7
    <3>2. got[i] = low + (i - p) /\ got[j] = low + (j - p)
      BY <2>3, <3>1
    <3> QED BY <1>4, <2>1, <3>1, <3>2
  <2> QED BY <2>1, <2>5, <2>6, <2>7
<1>11. ToSet(got) \union lost = 1..n
  <2>1. ToSet(x.got) \union x.lost = 1..(x.from - 1)
    BY <1>1 DEF ReadingOk
  <2>2. 1..n = (1..(x.from - 1)) \union (x.from .. n)
    BY <1>1, <1>2
  <2>3. (low + 1)..n \subseteq x.from .. n
    BY <1>1, <1>2, <1>4
  <2> QED BY <1>8, <1>9, <2>1, <2>2, <2>3
<1>12. ASSUME NEW c \in lost PROVE c + KeepChunks < nextChunk
  <2>1. CASE c \in x.lost
    BY <1>1, <2>1 DEF ReadingOk
  <2>2. CASE c \in (x.from .. n) \ ToSet(new)
    <3>1. c <= low /\ c >= x.from /\ c \in Nat
      BY <1>1, <1>2, <1>4, <1>8, <2>2
    <3>2. low = base /\ Len(chunks) = KeepChunks
      BY <1>2, <1>3, <1>4, <3>1
    <3> QED BY <1>1, <3>1, <3>2, OutputAssumption DEF base, n, OutputInv
  <2> QED BY <2>1, <2>2
<1>13. lost \in SUBSET Nat
  BY <1>1, <1>2
<1> QED BY <1>6, <1>10, <1>11, <1>12, <1>13 DEF n, x, got, new

\* A step in which no reader gets an answer and nothing is written.
LEMMA OutputWaits ==
  ASSUME OutputInv, UNCHANGED <<chunks, nextChunk, tail, reader, execute>>,
         finished' \in BOOLEAN, finished => finished'
  PROVE  OutputInv'
<1>1. UNCHANGED <<executed, timedOut>>
  BY DEF execute
<1> QED BY <1>1 DEF OutputInv, LastOf, ReadingOk, Ascending

LEMMA OutputWritten ==
  ASSUME OutputInv, ReceiveChunk
  PROVE  OutputInv'
<1> DEFINE n == nextChunk - 1
<1>1. n \in Nat /\ nextChunk = n + 1
  BY DEF OutputInv
<1>2. /\ chunks' = KeepLast(Append(chunks, n + 1), KeepChunks)
      /\ tail' = KeepLast(Append(tail, n + 1), KeepTail)
      /\ nextChunk' = nextChunk + 1
      /\ UNCHANGED <<finished, reader, executed, timedOut>>
  BY <1>1 DEF ReceiveChunk, execute
<1>3. LastOf(chunks, n, KeepChunks) /\ LastOf(tail, n, KeepTail)
  BY DEF OutputInv
<1> HIDE DEF n
<1>4. LastOf(chunks', n + 1, KeepChunks) /\ LastOf(tail', n + 1, KeepTail)
  BY <1>1, <1>2, <1>3, KeepsNew, OutputAssumption
<1>5. nextChunk' - 1 = n + 1 /\ nextChunk' \in Nat /\ nextChunk' >= 1
  BY <1>1, <1>2
<1>6. LastOf(chunks, nextChunk - 1, KeepChunks)' /\ LastOf(tail, nextChunk - 1, KeepTail)'
  <2>1. LastOf(chunks', nextChunk' - 1, KeepChunks) /\ LastOf(tail', nextChunk' - 1, KeepTail)
    BY <1>4, <1>5
  <2> QED BY <2>1 DEF LastOf
<1>7. ASSUME NEW r \in Readers PROVE ReadingOk(reader[r])'
  <2>1. ReadingOk(reader[r]) /\ reader[r] \in Readings
    BY DEF OutputInv
  <2>2. \A c \in reader[r].lost : c + KeepChunks < nextChunk'
    BY <1>1, <1>2, <2>1, OutputAssumption DEF ReadingOk, Readings
  <2>3. reader[r].from <= nextChunk'
    BY <1>1, <1>2, <2>1 DEF ReadingOk, Readings
  <2> QED BY <1>2, <2>1, <2>2, <2>3 DEF ReadingOk, Ascending
<1> QED BY <1>2, <1>5, <1>6, <1>7 DEF OutputInv

\* A reader begins to wait.
LEMMA BeginsToWait ==
  ASSUME OutputInv, NEW r \in Readers, NEW what \in Waits, Wait(r, what)
  PROVE  /\ reader' \in [Readers -> Readings] /\ \A q \in Readers : q # r => reader'[q] = reader[q]
         /\ reader'[r].wait = what
         /\ \A q \in Readers : reader'[q].from = reader[q].from /\ reader'[q].got = reader[q].got
                               /\ reader'[q].lost = reader[q].lost
<1> DEFINE new == [reader[r] EXCEPT !.wait = what]
<1>1. reader' = [reader EXCEPT ![r] = new] /\ reader[r] \in Readings
  BY DEF Wait, OutputInv
<1>2. new \in Readings /\ new.wait = what /\ new.from = reader[r].from /\ new.got = reader[r].got
      /\ new.lost = reader[r].lost
  BY <1>1 DEF Readings
<1> HIDE DEF new
<1> QED BY <1>1, <1>2 DEF OutputInv

\* A step that changes at most what one reader waits for and the mode of the call.
LEMMA Follows ==
  ASSUME OutputInv, NEW r \in Readers,
         \/ \E untilExit \in BOOLEAN : FollowOutput(r, untilExit)
         \/ \E mode \in Executions : Execute(r, mode)
         \/ ExecutePrepared(r) \/ ExecuteFails(r)
  PROVE  OutputInv'
<1>1. /\ UNCHANGED <<chunks, nextChunk, tail, finished, timedOut>>
      /\ \/ /\ \E what \in {"output", "exit"} : Wait(r, what)
            /\ executed' = executed /\ reader[r].wait = "idle"
         \/ /\ Wait(r, "preparing") /\ executed' \in Executions /\ executed = "none"
            /\ nextChunk = 1
         \/ /\ \/ executed = "detached" /\ Wait(r, "idle")
               \/ executed = "until-exit" /\ Wait(r, "exit")
               \/ executed = "until-timeout" /\ Wait(r, "execute")
               \/ Wait(r, "failed")
            /\ executed' = executed /\ reader[r].wait = "preparing"
  BY DEF FollowOutput, Execute, ExecutePrepared, ExecuteFails, OutputInv, Executions, notices, execute
<1>2. LastOf(chunks, nextChunk - 1, KeepChunks)' /\ LastOf(tail, nextChunk - 1, KeepTail)'
  BY <1>1 DEF OutputInv, LastOf
<1>3. PICK what \in Waits :
        /\ Wait(r, what)
        /\ \/ what \in {"output", "exit"} /\ executed' = executed /\ reader[r].wait = "idle"
           \/ /\ what = "preparing" /\ executed' \in Executions /\ executed = "none"
              /\ nextChunk = 1
           \/ /\ \/ executed = "detached" /\ what = "idle"
                 \/ executed = "until-exit" /\ what = "exit"
                 \/ executed = "until-timeout" /\ what = "execute"
                 \/ what = "failed"
              /\ executed' = executed /\ reader[r].wait = "preparing"
  BY <1>1 DEF Waits
<1>4. /\ reader' \in [Readers -> Readings] /\ reader'[r].wait = what
      /\ \A q \in Readers : q # r => reader'[q] = reader[q]
      /\ \A q \in Readers : reader'[q].from = reader[q].from /\ reader'[q].got = reader[q].got
                            /\ reader'[q].lost = reader[q].lost
  BY <1>3, BeginsToWait
<1>5. \A q \in Readers : ReadingOk(reader[q])'
  BY <1>1, <1>4 DEF OutputInv, ReadingOk, Ascending
<1>6. ASSUME NEW q \in Readers
      PROVE  /\ reader'[q].wait = "preparing" => executed' \in Executions
             /\ reader'[q].wait = "execute" => executed' = "until-timeout"
             /\ reader'[q].wait \in {"preparing", "failed"} => reader'[q].from = 1
  <2>1. /\ reader[q].wait = "preparing" => executed \in Executions
        /\ reader[q].wait = "execute" => executed = "until-timeout"
        /\ reader[q].wait \in {"preparing", "failed"} => reader[q].from = 1
        /\ reader[q].from \in Nat /\ reader[q].from >= 1 /\ reader[q].from <= nextChunk
    BY DEF OutputInv, ReadingOk, Readings
  <2>2. "none" \notin Executions
    BY DEF Executions
  <2>3. CASE q = r
    BY <1>3, <1>4, <2>1, <2>2, <2>3
  <2>4. CASE q # r
    BY <1>3, <1>4, <2>1, <2>2, <2>4
  <2> QED BY <2>3, <2>4
<1>7. executed' = "until-timeout" => finished' \/ \E q \in Readers : reader'[q].wait \in Executing
  <2> SUFFICES ASSUME executed' = "until-timeout", ~finished
               PROVE  \E q \in Readers : reader'[q].wait \in Executing
    BY <1>1
  <2>1. CASE what \in Executing
    BY <1>4, <2>1
  <2>2. CASE what \notin Executing
    <3>1. executed = "until-timeout" /\ reader[r].wait = "idle"
      BY <1>3, <2>2 DEF Executing
    <3>2. PICK q \in Readers : reader[q].wait \in Executing
      BY <3>1 DEF OutputInv
    <3>3. q # r
      BY <3>1, <3>2 DEF Executing
    <3> QED BY <1>4, <3>2, <3>3
  <2> QED BY <2>1, <2>2
<1>8. timedOut' => executed' = "until-timeout" /\ finished'
  BY <1>1, <1>3 DEF OutputInv
<1> QED BY <1>1, <1>2, <1>4, <1>5, <1>6, <1>7, <1>8 DEF OutputInv

LEMMA Returns ==
  ASSUME OutputInv, NEW r \in Readers, FollowReturns(r) \/ FollowTimesOut(r)
  PROVE  OutputInv'
<1> DEFINE x == reader[r]
           new == ChunksSince(x.from)
           got == x.got \o new
           lost == x.lost \union ((x.from .. nextChunk - 1) \ ToSet(new))
           y == [x EXCEPT !.from = nextChunk, !.wait = "idle", !.done = finished, !.got = got, !.lost = lost]
           tooLate == x.wait = "execute" /\ ~finished
<1>1. /\ reader' = [reader EXCEPT ![r] = y]
      /\ timedOut' = (timedOut \/ tooLate) /\ finished' = (finished \/ tooLate)
      /\ UNCHANGED <<chunks, nextChunk, tail, executed>>
  <2>1. ReturnChunks(r) /\ UNCHANGED <<chunks, nextChunk, tail, executed>>
    BY DEF FollowReturns, FollowTimesOut
  <2>2. AnswerFollow(r) /\ timedOut' = (timedOut \/ tooLate) /\ finished' = (finished \/ tooLate)
    BY <2>1, Zenon DEF ReturnChunks
  <2>3. reader' = [reader EXCEPT ![r] = y]
    <3>1. reader' = [reader EXCEPT ![r] = [Answered(x, new) EXCEPT !.from = nextChunk]]
      BY <2>2 DEF AnswerFollow
    <3>2. x \in Readings
      BY DEF OutputInv
    <3>3. [Answered(x, new) EXCEPT !.from = nextChunk] = y
      <4> HIDE DEF x, new
      <4> QED BY <3>2 DEF Answered, Readings
    <3> QED BY <3>1, <3>3
  <2> QED BY <2>1, <2>2, <2>3
<1>2. /\ got \in Seq(Nat) /\ lost \in SUBSET Nat /\ Ascending(got)
      /\ ToSet(got) \union lost = 1..(nextChunk - 1)
      /\ \A c \in lost : c + KeepChunks < nextChunk
  BY AnswerAdds
<1> HIDE DEF got, lost
<1>3. x \in Readings /\ nextChunk \in Nat /\ nextChunk >= 1 /\ finished \in BOOLEAN
  BY DEF OutputInv
<1>4. /\ y \in Readings /\ y.from = nextChunk /\ y.wait = "idle" /\ y.got = got /\ y.lost = lost
  BY <1>2, <1>3 DEF Readings, Waits
<1> HIDE DEF y
<1>5. reader' \in [Readers -> Readings] /\ reader'[r] = y /\ \A q \in Readers : q # r => reader'[q] = reader[q]
  BY <1>1, <1>4 DEF OutputInv
<1>6. LastOf(chunks, nextChunk - 1, KeepChunks)' /\ LastOf(tail, nextChunk - 1, KeepTail)'
  BY <1>1 DEF OutputInv, LastOf
<1>7. ASSUME NEW q \in Readers PROVE ReadingOk(reader[q])'
  <2>1. CASE q = r
    <3>1. ReadingOk(y)
      BY <1>2, <1>3, <1>4 DEF ReadingOk
    <3> QED BY <1>1, <1>5, <2>1, <3>1 DEF ReadingOk, Ascending
  <2>2. CASE q # r
    BY <1>1, <1>5, <2>2 DEF OutputInv, ReadingOk, Ascending
  <2> QED BY <2>1, <2>2
<1>8. \A q \in Readers :
        /\ reader'[q].wait = "preparing" => executed' \in Executions
        /\ reader'[q].wait = "execute" => executed' = "until-timeout"
        /\ reader'[q].wait \in {"preparing", "failed"} => reader'[q].from = 1
  BY <1>1, <1>4, <1>5 DEF OutputInv
<1>9. executed' = "until-timeout" => finished' \/ \E q \in Readers : reader'[q].wait \in Executing
  <2> SUFFICES ASSUME executed = "until-timeout", ~finished, x.wait # "execute"
               PROVE  \E q \in Readers : reader'[q].wait \in Executing
    BY <1>1
  <2>1. x.wait \notin Executing
    BY DEF FollowReturns, FollowTimesOut, Executing
  <2>2. PICK q \in Readers : reader[q].wait \in Executing
    BY DEF OutputInv
  <2> QED BY <1>5, <2>1, <2>2
<1>10. timedOut' => executed' = "until-timeout" /\ finished'
  BY <1>1 DEF OutputInv
<1>11. finished' \in BOOLEAN /\ timedOut' \in BOOLEAN
  BY <1>1
<1> QED BY <1>1, <1>3, <1>5, <1>6, <1>7, <1>8, <1>9, <1>10, <1>11 DEF OutputInv

LEMMA OutputKeeps ==
  ASSUME OutputInv, OutputNext \/ UNCHANGED outputVars
  PROVE  OutputInv'
<1>0. OutputNext \/ UNCHANGED outputVars
  OBVIOUS
<1>1. CASE UNCHANGED outputVars
  BY <1>1, OutputWaits DEF outputVars, execute, OutputInv
<1>2. CASE ListenToOutput \/ NoticeTimer
  BY <1>2, OutputWaits DEF ListenToOutput, NoticeTimer, OutputInv
<1>3. CASE SessionDone
  BY <1>3, OutputWaits DEF SessionDone
<1>4. CASE \E r \in Readers :
             \/ \E untilExit \in BOOLEAN : FollowOutput(r, untilExit)
             \/ \E mode \in Executions : Execute(r, mode)
             \/ ExecutePrepared(r) \/ ExecuteFails(r)
  BY <1>4, Follows
<1>5. CASE \E r \in Readers : FollowReturns(r) \/ FollowTimesOut(r)
  BY <1>5, Returns
<1> QED BY <1>0, <1>1, <1>2, <1>3, <1>4, <1>5, OutputWritten DEF OutputNext, Executions

LEMMA ReadersSee ==
  ASSUME OutputInv
  PROVE  ReadersSeeTheOutput
<1>1. ASSUME NEW r \in Readers
      PROVE  LET got == reader[r].got IN
             /\ \A i, j \in DOMAIN got : i < j => got[i] < got[j]
             /\ ToSet(got) \union reader[r].lost = 1 .. (reader[r].from - 1)
             /\ \A c \in reader[r].lost : c + KeepChunks < nextChunk
  <2>1. ReadingOk(reader[r]) /\ reader[r].got \in Seq(Nat)
    BY DEF OutputInv, Readings
  <2>2. DOMAIN reader[r].got = 1..Len(reader[r].got)
    BY <2>1
  <2> QED BY <2>1, <2>2 DEF ReadingOk, Ascending
<1>2. ASSUME NEW n \in 1..KeepTail
      PROVE  LET end == GetOutputText(n) IN
             /\ Len(end) = (IF nextChunk - 1 < n THEN nextChunk - 1 ELSE n)
             /\ \A i \in DOMAIN end : end[i] = nextChunk - 1 - Len(end) + i
  <2>1. LastOf(KeepLast(tail, n), nextChunk - 1, n)
    BY KeepsLast, OutputAssumption DEF OutputInv
  <2>2. DOMAIN KeepLast(tail, n) = 1..Len(KeepLast(tail, n))
    BY <2>1 DEF LastOf
  <2>3. nextChunk \in Nat
    BY DEF OutputInv
  <2> QED BY <2>1, <2>2, <2>3 DEF LastOf, Lesser, GetOutputText
<1>3. executed = "until-timeout" /\ ~finished =>
         \E r \in Readers : \/ reader[r].wait \in {"preparing", "execute"}
                            \/ reader[r].wait = "failed" /\ reader[r].from = 1
  <2> SUFFICES ASSUME executed = "until-timeout", ~finished
               PROVE  \E r \in Readers : \/ reader[r].wait \in {"preparing", "execute"}
                                         \/ reader[r].wait = "failed" /\ reader[r].from = 1
    OBVIOUS
  <2>1. PICK r \in Readers : reader[r].wait \in Executing
    BY DEF OutputInv
  <2> QED BY <2>1 DEF OutputInv, Executing
<1> QED BY <1>1, <1>2, <1>3 DEF OutputInv, ReadersSeeTheOutput

\* The notifications and what waits for the next one, one after the other.
Told == FlattenSeq(sent) \o unsent

NoticesInv ==
    /\ sent \in Seq(Seq(Nat)) /\ unsent \in Seq(Nat) /\ first \in Nat /\ nextChunk \in Nat
    /\ \A i \in 1..Len(Told) : Told[i] = first + i - 1
    /\ listening => first + Len(Told) = nextChunk
    /\ unsent # <<>> => merging
    /\ ~listening => unsent = <<>>
    /\ listening \in BOOLEAN

LEMMA ToldIs ==
  ASSUME sent \in Seq(Seq(Nat)), unsent \in Seq(Nat)
  PROVE  /\ FlattenSeq(sent) \in Seq(Nat)
         /\ Told \in Seq(Nat) /\ Len(Told) \in Nat /\ DOMAIN Told = 1..Len(Told)
<1>1. FlattenSeq(sent) \in Seq(Nat)
  <2>1. <<>> \in Seq(Nat)
    OBVIOUS
  <2> QED BY <2>1, FlattenAppend
<1>2. FlattenSeq(sent) \o unsent \in Seq(Nat)
  BY <1>1, ConcatIs
<1> QED BY <1>1, <1>2 DEF Told

LEMMA NoticesStart ==
  ASSUME OutputInit
  PROVE  NoticesInv
<1>1. sent = <<>> /\ unsent = <<>> /\ first = 1 /\ nextChunk = 1 /\ listening = FALSE
  BY DEF OutputInit
<1>2. Told = <<>>
  BY <1>1, FlattenEmpty DEF Told
<1>3. Len(Told) = 0 /\ sent \in Seq(Seq(Nat)) /\ unsent \in Seq(Nat)
  BY <1>1, <1>2
<1>4. \A i \in 1..Len(Told) : Told[i] = first + i - 1
  BY <1>3
<1> QED BY <1>1, <1>3, <1>4 DEF NoticesInv

\* A flush moves what waits into the notifications.
LEMMA Flushed ==
  ASSUME NoticesInv, FlushNotices
  PROVE  /\ sent' \in Seq(Seq(Nat)) /\ unsent' = <<>> /\ Told' = Told
<1>1. /\ unsent' = <<>> /\ sent' = IF unsent = <<>> THEN sent ELSE Append(sent, unsent)
      /\ sent \in Seq(Seq(Nat)) /\ unsent \in Seq(Nat)
  BY DEF FlushNotices, NoticesInv
<1>2. FlattenSeq(sent) \in Seq(Nat)
  BY <1>1, ToldIs
<1>3. \A x \in Seq(Nat) : x \o <<>> = x
  OBVIOUS
<1>4. CASE unsent = <<>>
  <2>1. sent' = sent
    BY <1>1, <1>4
  <2> QED BY <1>1, <1>4, <2>1 DEF Told
<1>5. CASE unsent # <<>>
  <2>1. sent' = Append(sent, unsent) /\ sent' \in Seq(Seq(Nat))
    BY <1>1, <1>5
  <2>2. FlattenSeq(Append(sent, unsent)) = FlattenSeq(sent) \o unsent
    BY <1>1, FlattenAppend
  <2>3. FlattenSeq(sent) \o unsent \in Seq(Nat)
    BY <1>1, <1>2, ConcatIs
  <2>4. Told' = (FlattenSeq(sent) \o unsent) \o <<>>
    BY <1>1, <2>1, <2>2 DEF Told
  <2>5. Told' = FlattenSeq(sent) \o unsent
    BY <1>3, <2>3, <2>4
  <2> QED BY <1>1, <2>1, <2>5 DEF Told
<1> QED BY <1>4, <1>5

LEMMA NoticesKeep ==
  ASSUME NoticesInv, OutputNext \/ UNCHANGED outputVars
  PROVE  NoticesInv'
<1>0. OutputNext \/ UNCHANGED outputVars
  OBVIOUS
<1>1. ASSUME UNCHANGED <<listening, first, unsent, sent, merging, nextChunk>> PROVE NoticesInv'
  BY <1>1 DEF NoticesInv, Told
<1>2. CASE UNCHANGED outputVars
  BY <1>1, <1>2 DEF outputVars
<1>3. CASE ListenToOutput
  <2>1. /\ ~listening /\ sent = <<>> /\ listening' = TRUE /\ first' = nextChunk
        /\ UNCHANGED <<unsent, sent, merging, nextChunk>>
    BY <1>3 DEF ListenToOutput
  <2>2. unsent = <<>>
    BY <2>1 DEF NoticesInv
  <2>3. Told' = <<>>
    BY <2>1, <2>2, FlattenEmpty DEF Told
  <2> QED BY <2>1, <2>2, <2>3 DEF NoticesInv
<1>4. CASE ReceiveChunk
  <2>1. nextChunk' = nextChunk + 1 /\ UNCHANGED <<listening, first, sent>> /\ PushNotice(nextChunk)
    BY <1>4 DEF ReceiveChunk
  <2>2. CASE listening
    <3>1. unsent' = Append(unsent, nextChunk) /\ merging' = TRUE
      BY <2>1, <2>2 DEF PushNotice
    <3>2. sent \in Seq(Seq(Nat)) /\ unsent \in Seq(Nat) /\ nextChunk \in Nat /\ FlattenSeq(sent) \in Seq(Nat)
      BY ToldIs DEF NoticesInv
    <3>3. Told' = Append(Told, nextChunk)
      <4>1. FlattenSeq(sent) \o Append(unsent, nextChunk) = Append(FlattenSeq(sent) \o unsent, nextChunk)
        BY <3>2, AppendConcat
      <4> QED BY <2>1, <3>1, <4>1 DEF Told
    <3>4. Told \in Seq(Nat) /\ first + Len(Told) = nextChunk /\ Len(Told) \in Nat /\ first \in Nat
      BY <2>2, <3>2, ToldIs DEF NoticesInv
    <3>5. /\ Len(Told') = Len(Told) + 1 /\ Told'[Len(Told) + 1] = nextChunk
          /\ \A i \in 1..Len(Told) : Told'[i] = Told[i]
      BY <3>2, <3>3, <3>4
    <3>6. ASSUME NEW i \in 1..Len(Told') PROVE Told'[i] = first + i - 1
      <4>1. CASE i = Len(Told) + 1
        BY <3>4, <3>5, <4>1
      <4>2. CASE i # Len(Told) + 1
        <5>1. i \in 1..Len(Told)
          BY <3>4, <3>5, <4>2
        <5> QED BY <3>5, <5>1 DEF NoticesInv
      <4> QED BY <4>1, <4>2
    <3>7. unsent' \in Seq(Nat)
      BY <3>1, <3>2
    <3>8. first + Len(Told') = nextChunk'
      BY <2>1, <3>4, <3>5
    <3> QED BY <2>1, <2>2, <3>1, <3>2, <3>4, <3>6, <3>7, <3>8 DEF NoticesInv
  <2>3. CASE ~listening
    <3>1. UNCHANGED <<unsent, merging>>
      BY <2>1, <2>3 DEF PushNotice
    <3>2. Told' = Told /\ nextChunk' \in Nat
      BY <2>1, <3>1 DEF Told, NoticesInv
    <3> QED BY <2>1, <2>3, <3>1, <3>2 DEF NoticesInv
  <2> QED BY <2>2, <2>3
<1>5. CASE NoticeTimer
  <2>1. FlushNotices /\ UNCHANGED <<listening, first, nextChunk>>
    BY <1>5 DEF NoticeTimer
  <2>2. sent' \in Seq(Seq(Nat)) /\ unsent' = <<>> /\ unsent' \in Seq(Nat) /\ Told' = Told
    BY <2>1, Flushed
  <2> QED BY <2>1, <2>2 DEF NoticesInv
<1>6. CASE SessionDone
  <2>1. listening' = FALSE /\ UNCHANGED <<first, nextChunk>>
    BY <1>6 DEF SessionDone
  <2>2. CASE listening
    <3>1. FlushNotices
      BY <1>6, <2>2 DEF SessionDone
    <3>2. sent' \in Seq(Seq(Nat)) /\ unsent' = <<>> /\ unsent' \in Seq(Nat) /\ Told' = Told
      BY <3>1, Flushed
    <3> QED BY <2>1, <3>2 DEF NoticesInv
  <2>3. CASE ~listening
    <3>1. UNCHANGED <<unsent, merging, sent>>
      BY <1>6, <2>3 DEF SessionDone
    <3> QED BY <2>1, <2>3, <3>1 DEF NoticesInv, Told
  <2> QED BY <2>2, <2>3
<1>7. CASE \E r \in Readers :
             \/ \E untilExit \in BOOLEAN : FollowOutput(r, untilExit)
             \/ \E mode \in {"detached", "until-exit", "until-timeout"} : Execute(r, mode)
             \/ ExecutePrepared(r) \/ ExecuteFails(r)
             \/ FollowReturns(r) \/ FollowTimesOut(r)
  <2>1. UNCHANGED notices /\ UNCHANGED nextChunk
    BY <1>7 DEF FollowOutput, Execute, ExecutePrepared, ExecuteFails, FollowReturns, FollowTimesOut
  <2> QED BY <1>1, <2>1 DEF notices
<1> QED BY <1>0, <1>2, <1>3, <1>4, <1>5, <1>6, <1>7 DEF OutputNext

LEMMA NoticesTrue ==
  ASSUME NoticesInv
  PROVE  NoticesAreTheOutput
<1>1. DOMAIN Told = 1..Len(Told)
  BY ToldIs DEF NoticesInv
<1> QED BY <1>1 DEF NoticesInv, NoticesAreTheOutput, Told
-----------------------------------------------------------------------------
(* An open chat session *)

Versions == SessionMessages \X Nat

\* No message of a sequence of ids, or of <<id, version>>, occurs twice.
OnceEach(s) == \A i, j \in 1..Len(s) : s[i] = s[j] => i = j
OnceEachId(s) == \A i, j \in 1..Len(s) : s[i][1] = s[j][1] => i = j

\* What start has read is the log of that moment; what was written since is noted as missed.
ReadInv ==
    reads # None /\ reads.messages # None =>
      LET r == reads.messages IN
      /\ r \in Seq(Versions) /\ Len(r) <= Len(log)
      /\ \A i \in 1..Len(r) : r[i][1] = log[i] /\ (log[i] \notin missed => r[i][2] = version[log[i]])
      /\ \A i \in 1..Len(log) : i > Len(r) => log[i] \in missed

\* Messages created before one that is listed, or on its way, are listed or on their way before it.
OrderInv ==
    subscribed =>
      /\ \A j \in 1..Len(ordered), k, l \in 1..Len(log) :
           k < l /\ log[k] \notin missed /\ log[l] = ordered[j] => \E i \in 1..(j - 1) : ordered[i] = log[k]
      /\ \A j \in 1..Len(arriving), k, l \in 1..Len(log) :
           k < l /\ log[k] \notin missed /\ log[l] = arriving[j][1] =>
             \/ \E i \in 1..Len(ordered) : ordered[i] = log[k]
             \/ \E i \in 1..(j - 1) : arriving[i][1] = log[k]
      /\ \A k \in 1..Len(log) : log[k] \notin missed =>
             \/ \E i \in 1..Len(ordered) : ordered[i] = log[k]
             \/ \E i \in 1..Len(arriving) : arriving[i][1] = log[k]

\* The last version on its way is the current one; without one the current one is shown.
VersionInv ==
    subscribed =>
      /\ \A j \in 1..Len(arriving) :
           (\A i \in 1..Len(arriving) : i > j => arriving[i][1] # arriving[j][1])
             => arriving[j][2] = version[arriving[j][1]]
      /\ \A k \in 1..Len(log) :
           log[k] \notin missed /\ (\A i \in 1..Len(arriving) : arriving[i][1] # log[k])
             => \E i \in 1..Len(messages) : messages[i] = <<log[k], version[log[k]]>>

\* The messages that are shown are those that are listed, each once.
ListInv ==
    /\ OnceEachId(messages) /\ OnceEach(ordered) /\ Len(messages) = Len(ordered)
    /\ \A i \in 1..Len(messages) : \E j \in 1..Len(ordered) : ordered[j] = messages[i][1]
    /\ \A j \in 1..Len(ordered) : \E i \in 1..Len(messages) : ordered[j] = messages[i][1]

SessionTypes ==
    /\ log \in Seq(SessionMessages) /\ OnceEach(log) /\ version \in [SessionMessages -> Nat]
    /\ \A m \in SessionMessages : version[m] # 0 <=> \E k \in 1..Len(log) : log[k] = m
    /\ messages \in Seq(Versions) /\ ordered \in Seq(SessionMessages) /\ arriving \in Seq(Versions)
    /\ \A j \in 1..Len(ordered) : \E k \in 1..Len(log) : log[k] = ordered[j]
    /\ \A j \in 1..Len(arriving) : \E k \in 1..Len(log) : log[k] = arriving[j][1]
    /\ subscribed \in BOOLEAN
    /\ subscribed => opened = TRUE /\ reads = None
    /\ reads # None => opened = TRUE
    /\ ~subscribed => arriving = <<>>

SessionInv == SessionTypes /\ ReadInv /\ OrderInv /\ VersionInv /\ ListInv

LEMMA SessionStarts ==
  ASSUME SessionInit
  PROVE  SessionInv
<1>1. SessionTypes
  <2>1. /\ log = <<>> /\ messages = <<>> /\ ordered = <<>> /\ arriving = <<>>
        /\ version = [m \in SessionMessages |-> 0] /\ subscribed = FALSE /\ reads = None
    BY DEF SessionInit
  <2>2. OnceEach(log) /\ log \in Seq(SessionMessages) /\ version \in [SessionMessages -> Nat]
    BY <2>1 DEF OnceEach
  <2>3. Len(log) = 0 /\ Len(ordered) = 0 /\ Len(arriving) = 0
    BY <2>1
  <2>4. messages \in Seq(Versions) /\ ordered \in Seq(SessionMessages) /\ arriving \in Seq(Versions)
    BY <2>1
  <2>5. \A m \in SessionMessages : version[m] = 0 /\ ~(\E k \in 1..Len(log) : log[k] = m)
    BY <2>1, <2>3
  <2>6. /\ \A j \in 1..Len(ordered) : FALSE
        /\ \A j \in 1..Len(arriving) : FALSE
    BY <2>3
  <2> QED BY <2>1, <2>2, <2>4, <2>5, <2>6 DEF SessionTypes
<1>2. ReadInv /\ OrderInv /\ VersionInv
  BY DEF SessionInit, ReadInv, OrderInv, VersionInv
<1>3. ListInv
  BY DEF SessionInit, ListInv, OnceEach, OnceEachId
<1> QED BY <1>1, <1>2, <1>3 DEF SessionInv

\* Steps that touch neither the log nor what is shown of it.
LEMMA SessionRests ==
  ASSUME SessionInv, UNCHANGED <<log, version, opened, reads, subscribed, arriving, messages, ordered, missed>>
  PROVE  SessionInv'
<1>1. SessionTypes'
  BY DEF SessionInv, SessionTypes, OnceEach
<1>2. ReadInv' /\ OrderInv' /\ VersionInv'
  <2>1. ReadInv'
    BY DEF SessionInv, ReadInv
  <2>2. OrderInv'
    BY DEF SessionInv, OrderInv
  <2>3. VersionInv'
    BY DEF SessionInv, VersionInv
  <2> QED BY <2>1, <2>2, <2>3
<1>3. ListInv'
  BY DEF SessionInv, ListInv, OnceEach, OnceEachId
<1> QED BY <1>1, <1>2, <1>3 DEF SessionInv

LEMMA SessionOpens ==
  ASSUME SessionInv, StartSession \/ FetchAnswered \/ StartFails \/ StopSession
  PROVE  SessionInv'
<1>1. /\ UNCHANGED <<log, version, messages, ordered>>
      /\ arriving' \in {arriving, <<>>} /\ subscribed' \in {subscribed, FALSE}
  BY DEF StartSession, FetchAnswered, StartFails, StopSession, sessionServer, sessionShown
<1>2. ListInv'
  BY <1>1 DEF SessionInv, ListInv, OnceEach, OnceEachId
<1>3. CASE StartSession
  <2>1. /\ ~opened /\ opened' = TRUE /\ reads' = [agent |-> None, messages |-> None]
        /\ UNCHANGED <<subscribed, arriving>>
    BY <1>3 DEF StartSession
  <2>2. ~subscribed
    BY <2>1 DEF SessionInv, SessionTypes
  <2>3. SessionTypes'
    BY <1>1, <2>1, <2>2 DEF SessionInv, SessionTypes, OnceEach
  <2>4. ReadInv'
    BY <2>1 DEF ReadInv
  <2>5. OrderInv' /\ VersionInv'
    BY <2>1, <2>2 DEF OrderInv, VersionInv
  <2> QED BY <1>2, <2>3, <2>4, <2>5 DEF SessionInv
<1>4. CASE FetchAnswered
  <2>1. /\ reads # None /\ UNCHANGED <<opened, subscribed, arriving, missed>>
        /\ \/ reads' = [reads EXCEPT !.agent = status]
           \/ reads' = [reads EXCEPT !.messages = [i \in DOMAIN log |-> <<log[i], version[log[i]]>>]]
    BY <1>4 DEF FetchAnswered
  <2>2. ~subscribed /\ opened = TRUE
    BY <2>1 DEF SessionInv, SessionTypes
  <2>3. SessionTypes'
    BY <1>1, <2>1, <2>2 DEF SessionInv, SessionTypes, OnceEach
  <2>4. ReadInv'
    <3> DEFINE now == [i \in DOMAIN log |-> <<log[i], version[log[i]]>>]
    <3>1. now \in Seq(Versions) /\ Len(now) = Len(log) /\ \A i \in 1..Len(log) : now[i] = <<log[i], version[log[i]]>>
      <4>1. log \in Seq(SessionMessages) /\ DOMAIN log = 1..Len(log) /\ Len(log) \in Nat
        BY DEF SessionInv, SessionTypes
      <4>2. \A i \in 1..Len(log) : <<log[i], version[log[i]]>> \in Versions
        BY <4>1 DEF SessionInv, SessionTypes, Versions
      <4>3. now \in [1..Len(log) -> Versions]
        BY <4>1, <4>2
      <4> QED BY <4>1, <4>3, IsSeqOf
    <3> HIDE DEF now
    <3>2. reads'.messages = now \/ reads'.messages = reads.messages
      <4>1. CASE reads' = [reads EXCEPT !.agent = status]
        BY <4>1
      <4>2. CASE reads' = [reads EXCEPT !.messages = now]
        BY <4>2
      <4> QED BY <2>1, <4>1, <4>2 DEF now
    <3>3. CASE reads'.messages = now
      BY <1>1, <3>1, <3>3 DEF ReadInv, SessionInv, SessionTypes
    <3>4. CASE reads'.messages = reads.messages
      BY <1>1, <2>1, <3>4 DEF ReadInv, SessionInv
    <3> QED BY <3>2, <3>3, <3>4
  <2>5. OrderInv' /\ VersionInv'
    BY <2>1, <2>2 DEF OrderInv, VersionInv
  <2> QED BY <1>2, <2>3, <2>4, <2>5 DEF SessionInv
<1>5. CASE StartFails \/ StopSession
  <2>1. reads' = None /\ ~subscribed' /\ arriving' = <<>> /\ subscribed' \in BOOLEAN
    <3>1. CASE StartFails
      <4>1. reads # None /\ reads' = None /\ subscribed' = subscribed /\ arriving' = arriving
        BY <3>1 DEF StartFails
      <4>2. ~subscribed /\ arriving = <<>> /\ subscribed \in BOOLEAN
        BY <4>1 DEF SessionInv, SessionTypes
      <4> QED BY <4>1, <4>2
    <3>2. CASE StopSession
      BY <3>2 DEF StopSession
    <3> QED BY <1>5, <3>1, <3>2
  <2>2. SessionTypes'
    <3>1. Len(arriving') = 0 /\ arriving' \in Seq(Versions)
      BY <2>1
    <3>2. /\ log' \in Seq(SessionMessages) /\ OnceEach(log)' /\ version' \in [SessionMessages -> Nat]
          /\ \A m \in SessionMessages : version'[m] # 0 <=> \E k \in 1..Len(log') : log'[k] = m
          /\ messages' \in Seq(Versions) /\ ordered' \in Seq(SessionMessages)
          /\ \A l \in 1..Len(ordered') : \E k \in 1..Len(log') : log'[k] = ordered'[l]
      BY <1>1 DEF SessionInv, SessionTypes, OnceEach
    <3> QED BY <2>1, <3>1, <3>2 DEF SessionTypes
  <2>3. ReadInv' /\ OrderInv' /\ VersionInv'
    BY <2>1 DEF ReadInv, OrderInv, VersionInv
  <2> QED BY <1>2, <2>2, <2>3 DEF SessionInv
<1> QED BY <1>3, <1>4, <1>5

\* The session shows what it has read, and listens from now on.
LEMMA SessionShows ==
  ASSUME SessionInv, ShowAndSubscribe
  PROVE  SessionInv'
<1> DEFINE r == reads.messages
<1>1. /\ reads # None /\ r # None /\ messages' = r /\ ordered' = [i \in DOMAIN r |-> r[i][1]]
      /\ subscribed' = TRUE /\ reads' = None
      /\ UNCHANGED <<log, version, opened, arriving, missed>>
  BY DEF ShowAndSubscribe, sessionServer
<1>2. opened = TRUE /\ arriving = <<>>
  BY <1>1 DEF SessionInv, SessionTypes
<1>3. /\ r \in Seq(Versions) /\ Len(r) \in Nat /\ Len(log) \in Nat /\ Len(r) <= Len(log)
      /\ \A i \in 1..Len(r) : r[i][1] = log[i] /\ (log[i] \notin missed => r[i][2] = version[log[i]])
      /\ \A i \in 1..Len(log) : i > Len(r) => log[i] \in missed
  <2>1. Len(log) \in Nat
    BY DEF SessionInv, SessionTypes
  <2>2. r \in Seq(Versions) => Len(r) \in Nat
    OBVIOUS
  <2> QED BY <1>1, <2>1, <2>2 DEF SessionInv, ReadInv
<1>4. log \in Seq(SessionMessages) /\ OnceEach(log)
  BY DEF SessionInv, SessionTypes
<1>5. /\ ordered' \in Seq(SessionMessages) /\ Len(ordered') = Len(r)
      /\ \A i \in 1..Len(r) : ordered'[i] = log[i]
  <2>1. DOMAIN r = 1..Len(r)
    BY <1>3
  <2>2. \A i \in 1..Len(r) : ordered'[i] = log[i] /\ log[i] \in SessionMessages
    BY <1>1, <1>3, <1>4, <2>1
  <2>3. ordered' \in [1..Len(r) -> SessionMessages]
    BY <1>1, <2>1, <2>2
  <2> QED BY <1>3, <2>2, <2>3, IsSeqOf
<1>6. \A i \in 1..Len(r) : i \in 1..Len(log) /\ r[i] \in Versions /\ r[i] = <<r[i][1], r[i][2]>>
  BY <1>3 DEF Versions
<1> HIDE DEF r
<1>7. SessionTypes'
  <2>1. \A j \in 1..Len(ordered') : \E k \in 1..Len(log') : log'[k] = ordered'[j]
    BY <1>1, <1>5, <1>6
  <2>2. Len(arriving') = 0 /\ arriving' \in Seq(Versions) /\ messages' \in Seq(Versions)
    BY <1>1, <1>2, <1>3
  <2>3. /\ log' \in Seq(SessionMessages) /\ OnceEach(log)' /\ version' \in [SessionMessages -> Nat]
        /\ \A m \in SessionMessages : version'[m] # 0 <=> \E k \in 1..Len(log') : log'[k] = m
    BY <1>1 DEF SessionInv, SessionTypes, OnceEach
  <2> QED BY <1>1, <1>2, <1>5, <2>1, <2>2, <2>3 DEF SessionTypes
<1>8. ReadInv'
  BY <1>1 DEF ReadInv
<1>9. OrderInv'
  <2>1. \A j \in 1..Len(arriving') : FALSE
    <3>1. Len(arriving') = 0
      BY <1>1, <1>2
    <3> QED BY <3>1
  <2>2. ASSUME NEW j \in 1..Len(ordered'), NEW k \in 1..Len(log), NEW l \in 1..Len(log), k < l, log[l] = ordered'[j]
        PROVE  \E i \in 1..(j - 1) : ordered'[i] = log[k]
    <3>1. j \in 1..Len(r) /\ log[l] = log[j] /\ j \in 1..Len(log)
      BY <1>5, <1>6, <2>2
    <3>2. l = j
      BY <1>4, <3>1 DEF OnceEach
    <3>3. k \in 1..(j - 1) /\ k \in 1..Len(r)
      BY <1>3, <2>2, <3>1, <3>2
    <3> QED BY <1>5, <3>3
  <2>3. ASSUME NEW k \in 1..Len(log), log[k] \notin missed
        PROVE  \E i \in 1..Len(ordered') : ordered'[i] = log[k]
    <3>1. k \in 1..Len(r)
      BY <1>3, <2>3
    <3> QED BY <1>5, <3>1
  <2> QED BY <1>1, <2>1, <2>2, <2>3 DEF OrderInv
<1>10. VersionInv'
  <2>1. \A j \in 1..Len(arriving') : FALSE
    <3>1. Len(arriving') = 0
      BY <1>1, <1>2
    <3> QED BY <3>1
  <2>2. ASSUME NEW k \in 1..Len(log), log[k] \notin missed
        PROVE  \E i \in 1..Len(r) : r[i] = <<log[k], version[log[k]]>>
    <3>1. k \in 1..Len(r)
      BY <1>3, <2>2
    <3>2. r[k] = <<log[k], version[log[k]]>>
      BY <1>3, <1>6, <2>2, <3>1
    <3> QED BY <3>1, <3>2
  <2> QED BY <1>1, <2>1, <2>2 DEF VersionInv
<1>11. ListInv'
  <2>1. \A i, j \in 1..Len(r) : log[i] = log[j] => i = j
    BY <1>4, <1>6 DEF OnceEach
  <2>2. OnceEachId(messages)' /\ OnceEach(ordered)'
    BY <1>1, <1>3, <1>5, <2>1 DEF OnceEach, OnceEachId
  <2> QED BY <1>1, <1>3, <1>5, <2>2 DEF ListInv
<1> QED BY <1>7, <1>8, <1>9, <1>10, <1>11 DEF SessionInv

\* What the node's log becomes when a message is written.
LEMMA LogGrows ==
  ASSUME SessionInv, NEW m \in SessionMessages, NodeWrites(m)
  PROVE  /\ log' \in Seq(SessionMessages) /\ OnceEach(log)'
         /\ version' \in [SessionMessages -> Nat] /\ version'[m] = version[m] + 1 /\ version'[m] # 0
         /\ \A x \in SessionMessages : x # m => version'[x] = version[x]
         /\ \A x \in SessionMessages : version'[x] # 0 <=> \E k \in 1..Len(log') : log'[k] = x
         /\ Len(log) \in Nat /\ Len(log') \in Nat /\ Len(log) <= Len(log')
         /\ \A k \in 1..Len(log) : k \in 1..Len(log') /\ log'[k] = log[k] /\ log[k] \in SessionMessages
         /\ \A k \in 1..Len(log') : k \in 1..Len(log) \/ log'[k] = m
         /\ \E k \in 1..Len(log') : log'[k] = m
<1>1. /\ log \in Seq(SessionMessages) /\ Len(log) \in Nat /\ version \in [SessionMessages -> Nat]
      /\ \A x \in SessionMessages : version[x] # 0 <=> \E k \in 1..Len(log) : log[k] = x
      /\ OnceEach(log)
  <2>1. log \in Seq(SessionMessages) => Len(log) \in Nat
    OBVIOUS
  <2> QED BY <2>1 DEF SessionInv, SessionTypes
<1>2. /\ version' = [version EXCEPT ![m] = @ + 1]
      /\ log' = IF version[m] = 0 THEN Append(log, m) ELSE log
  BY DEF NodeWrites
<1>3. /\ version' \in [SessionMessages -> Nat] /\ version'[m] = version[m] + 1 /\ version'[m] # 0
      /\ \A x \in SessionMessages : x # m => version'[x] = version[x]
  BY <1>1, <1>2
<1>4. CASE version[m] = 0
  <2>1. /\ log' \in Seq(SessionMessages) /\ Len(log') = Len(log) + 1 /\ log'[Len(log) + 1] = m
        /\ \A k \in 1..Len(log) : log'[k] = log[k] /\ log[k] \in SessionMessages
    BY <1>1, <1>2, <1>4
  <2>2. \A k \in 1..Len(log) : log[k] # m
    BY <1>1, <1>4
  <2>3. \A k \in 1..Len(log') : k \in 1..Len(log) \/ k = Len(log) + 1
    BY <1>1, <2>1
  <2>4. OnceEach(log)'
    <3> SUFFICES ASSUME NEW i \in 1..Len(log'), NEW j \in 1..Len(log'), log'[i] = log'[j] PROVE i = j
      BY DEF OnceEach
    <3>1. CASE i \in 1..Len(log) /\ j \in 1..Len(log)
      BY <1>1, <2>1, <3>1 DEF OnceEach
    <3>2. CASE i = Len(log) + 1
      BY <2>1, <2>2, <2>3, <3>2
    <3>3. CASE j = Len(log) + 1
      BY <2>1, <2>2, <2>3, <3>3
    <3> QED BY <2>3, <3>1, <3>2, <3>3
  <2>5. Len(log) + 1 \in 1..Len(log')
    BY <1>1, <2>1
  <2>6. ASSUME NEW x \in SessionMessages
        PROVE  version'[x] # 0 <=> \E k \in 1..Len(log') : log'[k] = x
    <3>1. CASE x = m
      BY <1>3, <2>1, <2>5, <3>1
    <3>2. CASE x # m
      <4>1. version'[x] = version[x]
        BY <1>3, <3>2
      <4>2. (\E k \in 1..Len(log') : log'[k] = x) <=> \E k \in 1..Len(log) : log[k] = x
        <5>1. ASSUME NEW k \in 1..Len(log'), log'[k] = x PROVE k \in 1..Len(log) /\ log[k] = x
          BY <2>1, <2>3, <3>2, <5>1
        <5>2. ASSUME NEW k \in 1..Len(log), log[k] = x PROVE k \in 1..Len(log') /\ log'[k] = x
          BY <1>1, <2>1, <5>2
        <5> QED BY <5>1, <5>2
      <4> QED BY <1>1, <4>1, <4>2
    <3> QED BY <3>1, <3>2
  <2>7. \A k \in 1..Len(log) : k \in 1..Len(log')
    BY <1>1, <2>1
  <2>8. \A k \in 1..Len(log') : k \in 1..Len(log) \/ log'[k] = m
    BY <2>1, <2>3
  <2>9. Len(log') \in Nat /\ Len(log) <= Len(log')
    BY <1>1, <2>1
  <2>10. \E k \in 1..Len(log') : log'[k] = m
    BY <2>1, <2>5
  <2> QED BY <1>1, <1>3, <2>1, <2>4, <2>6, <2>7, <2>8, <2>9, <2>10
<1>5. CASE version[m] # 0
  <2>1. log' = log
    BY <1>2, <1>5
  <2>2. \E k \in 1..Len(log) : log[k] = m
    BY <1>1, <1>5
  <2>3. \A x \in SessionMessages : version'[x] # 0 <=> version[x] # 0
    BY <1>3, <1>5
  <2>4. \A k \in 1..Len(log) : log[k] \in SessionMessages
    BY <1>1
  <2>5. OnceEach(log)'
    BY <1>1, <2>1 DEF OnceEach
  <2> QED BY <1>1, <1>3, <2>1, <2>2, <2>3, <2>4, <2>5
<1> QED BY <1>4, <1>5

LEMMA ArrivingGrows ==
  ASSUME SessionInv, NEW m \in SessionMessages, NodeWrites(m), subscribed
  PROVE  /\ Len(arriving) \in Nat /\ Len(arriving') = Len(arriving) + 1 /\ arriving' \in Seq(Versions)
         /\ \A j \in 1..Len(arriving) : j \in 1..Len(arriving') /\ arriving'[j] = arriving[j]
         /\ arriving'[Len(arriving')] = <<m, version'[m]>> /\ Len(arriving') \in 1..Len(arriving')
         /\ \A j \in 1..Len(arriving') : j \in 1..Len(arriving) \/ j = Len(arriving')
<1>1. arriving \in Seq(Versions) /\ Len(arriving) \in Nat
  <2>1. arriving \in Seq(Versions)
    BY DEF SessionInv, SessionTypes
  <2> QED BY <2>1
<1>2. <<m, version'[m]>> \in Versions
  BY LogGrows DEF Versions
<1>3. arriving' = Append(arriving, <<m, version'[m]>>)
  BY DEF NodeWrites
<1> DEFINE e == <<m, version'[m]>>
<1> HIDE DEF e
<1>4. arriving' = Append(arriving, e) /\ e \in Versions
  BY <1>2, <1>3 DEF e
<1>5. /\ Len(arriving') = Len(arriving) + 1 /\ arriving' \in Seq(Versions)
      /\ \A j \in 1..Len(arriving) : arriving'[j] = arriving[j]
      /\ arriving'[Len(arriving) + 1] = e
  BY <1>1, <1>4
<1>6. /\ \A j \in 1..Len(arriving) : j \in 1..Len(arriving')
      /\ Len(arriving') \in 1..Len(arriving')
      /\ \A j \in 1..Len(arriving') : j \in 1..Len(arriving) \/ j = Len(arriving')
  BY <1>1, <1>5
<1> QED BY <1>1, <1>5, <1>6 DEF e

LEMMA SessionHears ==
  ASSUME SessionInv, NEW m \in SessionMessages, NodeWrites(m), subscribed
  PROVE  SessionInv'
<1>1. UNCHANGED <<opened, reads, subscribed, messages, ordered, missed>>
  BY DEF NodeWrites, sessionShown
<1>2. reads = None /\ opened = TRUE
  BY DEF SessionInv, SessionTypes
<1>3. /\ \A k \in 1..Len(log) : k \in 1..Len(log') /\ log'[k] = log[k] /\ log[k] \in SessionMessages
      /\ \A k \in 1..Len(log') : k \in 1..Len(log) \/ log'[k] = m
      /\ \E k \in 1..Len(log') : log'[k] = m
      /\ OnceEach(log)'
      /\ Len(log) \in Nat /\ Len(log') \in Nat
  BY LogGrows
<1>4. /\ Len(arriving) \in Nat /\ Len(arriving') = Len(arriving) + 1 /\ arriving' \in Seq(Versions)
      /\ \A j \in 1..Len(arriving) : j \in 1..Len(arriving') /\ arriving'[j] = arriving[j]
      /\ arriving'[Len(arriving')][1] = m /\ arriving'[Len(arriving')][2] = version'[m]
      /\ Len(arriving') \in 1..Len(arriving')
      /\ \A j \in 1..Len(arriving') : j \in 1..Len(arriving) \/ j = Len(arriving')
  BY ArrivingGrows
<1>5. /\ \A j \in 1..Len(ordered) : \E k \in 1..Len(log) : log[k] = ordered[j]
      /\ \A j \in 1..Len(arriving) : \E k \in 1..Len(log) : log[k] = arriving[j][1]
      /\ messages \in Seq(Versions) /\ ordered \in Seq(SessionMessages)
  BY DEF SessionInv, SessionTypes
<1>6. SessionTypes'
  <2>1. \A j \in 1..Len(ordered') : \E k \in 1..Len(log') : log'[k] = ordered'[j]
    BY <1>1, <1>3, <1>5
  <2>2. \A j \in 1..Len(arriving') : \E k \in 1..Len(log') : log'[k] = arriving'[j][1]
    BY <1>3, <1>4, <1>5
  <2>3. /\ log' \in Seq(SessionMessages) /\ version' \in [SessionMessages -> Nat]
        /\ \A x \in SessionMessages : version'[x] # 0 <=> \E k \in 1..Len(log') : log'[k] = x
    BY LogGrows
  <2> QED BY <1>1, <1>2, <1>3, <1>4, <1>5, <2>1, <2>2, <2>3 DEF SessionTypes
<1>7. ReadInv'
  BY <1>1, <1>2 DEF ReadInv
\* A message that was listed, or on its way, before the write has its place in the old log.
<1>8. ASSUME NEW l \in 1..Len(log'), NEW x, log'[l] = x, \E k \in 1..Len(log) : log[k] = x
      PROVE  l \in 1..Len(log) /\ log[l] = x
  <2>1. PICK k \in 1..Len(log) : log[k] = x
    BY <1>8
  <2>2. k \in 1..Len(log') /\ log'[k] = log'[l]
    BY <1>3, <1>8, <2>1
  <2>3. k = l
    BY <1>3, <2>2 DEF OnceEach
  <2> QED BY <2>1, <2>3
<1>9. OrderInv'
  <2>1. ASSUME NEW j \in 1..Len(ordered), NEW k \in 1..Len(log'), NEW l \in 1..Len(log'),
               k < l, log'[k] \notin missed, log'[l] = ordered[j]
        PROVE  \E i \in 1..(j - 1) : ordered[i] = log'[k]
    <3>1. l \in 1..Len(log) /\ log[l] = ordered[j]
      BY <1>5, <1>8, <2>1
    <3>2. k \in 1..Len(log) /\ log'[k] = log[k]
      BY <1>3, <2>1, <3>1
    <3>3. /\ log[k] \notin missed
          /\ \A q, k1, k2 \in Nat : q \in 1..Len(ordered) /\ k1 \in 1..Len(log) /\ k2 \in 1..Len(log)
               /\ k1 < k2 /\ log[k1] \notin missed /\ log[k2] = ordered[q]
                 => \E i \in 1..(q - 1) : ordered[i] = log[k1]
      BY <2>1, <3>2 DEF SessionInv, OrderInv
    <3>4. \E i \in 1..(j - 1) : ordered[i] = log[k]
      BY <2>1, <3>1, <3>2, <3>3
    <3> QED BY <3>2, <3>4
  <2>2. ASSUME NEW k \in 1..Len(log), log'[k] \notin missed
        PROVE  \/ \E i \in 1..Len(ordered) : ordered[i] = log'[k]
               \/ \E i \in 1..Len(arriving) : arriving'[i][1] = log'[k]
    <3>1. log'[k] = log[k]
      BY <1>3
    <3>2. \/ \E i \in 1..Len(ordered) : ordered[i] = log[k]
          \/ \E i \in 1..Len(arriving) : arriving[i][1] = log[k]
      BY <2>2, <3>1 DEF SessionInv, OrderInv
    <3> QED BY <1>4, <3>1, <3>2
  <2>3. ASSUME NEW j \in 1..Len(arriving'), NEW k \in 1..Len(log'), NEW l \in 1..Len(log'),
               k < l, log'[k] \notin missed, log'[l] = arriving'[j][1]
        PROVE  \/ \E i \in 1..Len(ordered) : ordered[i] = log'[k]
               \/ \E i \in 1..(j - 1) : arriving'[i][1] = log'[k]
    <3>1. CASE j \in 1..Len(arriving)
      <4>1. l \in 1..Len(log) /\ log[l] = arriving[j][1]
        BY <1>4, <1>5, <1>8, <2>3, <3>1
      <4>2. k \in 1..Len(log) /\ log'[k] = log[k]
        BY <1>3, <2>3, <4>1
      <4>3. \/ \E i \in 1..Len(ordered) : ordered[i] = log[k]
            \/ \E i \in 1..(j - 1) : arriving[i][1] = log[k]
        BY <2>3, <3>1, <4>1, <4>2 DEF SessionInv, OrderInv
      <4>4. \A i \in 1..(j - 1) : i \in 1..Len(arriving)
        BY <1>4, <3>1
      <4> QED BY <1>4, <4>2, <4>3, <4>4
    <3>2. CASE j = Len(arriving')
      <4>1. k \in 1..Len(log)
        <5>1. CASE k \in 1..Len(log)
          BY <5>1
        <5>2. CASE log'[k] = m
          <6>1. k = l
            BY <1>3, <1>4, <2>3, <3>2, <5>2 DEF OnceEach
          <6> QED BY <2>3, <6>1
        <5> QED BY <1>3, <5>1, <5>2
      <4>2. j - 1 = Len(arriving)
        BY <1>4, <3>2
      <4> QED BY <2>2, <2>3, <4>1, <4>2
    <3> QED BY <1>4, <3>1, <3>2
  <2>4. ASSUME NEW k \in 1..Len(log'), log'[k] \notin missed
        PROVE  \/ \E i \in 1..Len(ordered) : ordered[i] = log'[k]
               \/ \E i \in 1..Len(arriving') : arriving'[i][1] = log'[k]
    <3>1. CASE k \in 1..Len(log)
      BY <1>4, <2>2, <2>4, <3>1
    <3>2. CASE log'[k] = m
      BY <1>4, <3>2
    <3> QED BY <1>3, <3>1, <3>2
  <2> QED BY <1>1, <2>1, <2>3, <2>4 DEF OrderInv
<1>10. VersionInv'
  <2>0. \A x \in SessionMessages : x # m => version'[x] = version[x]
    BY LogGrows
  <2>1. ASSUME NEW j \in 1..Len(arriving'), \A i \in 1..Len(arriving') : i > j => arriving'[i][1] # arriving'[j][1]
        PROVE  arriving'[j][2] = version'[arriving'[j][1]]
    <3>1. CASE j = Len(arriving')
      BY <1>4, <3>1
    <3>2. CASE j \in 1..Len(arriving)
      <4>1. Len(arriving') > j
        BY <1>4, <3>2
      <4>2. arriving[j][1] # m
        BY <1>4, <2>1, <3>2, <4>1
      <4>3. arriving[j][1] \in SessionMessages
        BY <1>3, <1>5, <3>2
      <4>4. \A i \in 1..Len(arriving) : i > j => arriving[i][1] # arriving[j][1]
        BY <1>4, <2>1, <3>2
      <4>5. arriving[j][2] = version[arriving[j][1]]
        BY <3>2, <4>4 DEF SessionInv, VersionInv
      <4> QED BY <1>4, <2>0, <3>2, <4>2, <4>3, <4>5
    <3> QED BY <1>4, <3>1, <3>2
  <2>2. ASSUME NEW k \in 1..Len(log'), log'[k] \notin missed, \A i \in 1..Len(arriving') : arriving'[i][1] # log'[k]
        PROVE  \E i \in 1..Len(messages) : messages[i] = <<log'[k], version'[log'[k]]>>
    <3>1. log'[k] # m
      BY <1>4, <2>2
    <3>2. k \in 1..Len(log) /\ log'[k] = log[k] /\ log[k] \in SessionMessages
      BY <1>3, <3>1
    <3>3. \A i \in 1..Len(arriving) : arriving[i][1] # log[k]
      BY <1>4, <2>2, <3>2
    <3>4. \E i \in 1..Len(messages) : messages[i] = <<log[k], version[log[k]]>>
      BY <2>2, <3>2, <3>3 DEF SessionInv, VersionInv
    <3> QED BY <2>0, <3>1, <3>2, <3>4
  <2> QED BY <1>1, <2>1, <2>2 DEF VersionInv
<1>11. ListInv'
  BY <1>1 DEF SessionInv, ListInv, OnceEach, OnceEachId
<1> QED BY <1>6, <1>7, <1>9, <1>10, <1>11 DEF SessionInv

\* Without a subscription the write is missed, or start has not read yet.
LEMMA SessionMisses ==
  ASSUME SessionInv, NEW m \in SessionMessages, NodeWrites(m), ~subscribed
  PROVE  SessionInv'
<1>1. /\ UNCHANGED <<opened, reads, subscribed, messages, ordered, arriving>>
      /\ reads # None /\ reads.messages # None => missed' = missed \union {m}
  BY DEF NodeWrites, sessionShown
<1>2. /\ \A k \in 1..Len(log) : k \in 1..Len(log') /\ log'[k] = log[k] /\ log[k] \in SessionMessages
      /\ \A k \in 1..Len(log') : k \in 1..Len(log) \/ log'[k] = m
      /\ OnceEach(log)'
      /\ Len(log) \in Nat /\ Len(log') \in Nat /\ Len(log) <= Len(log')
      /\ \A x \in SessionMessages : x # m => version'[x] = version[x]
  BY LogGrows
<1>3. SessionTypes'
  <2>1. /\ \A j \in 1..Len(ordered) : \E k \in 1..Len(log) : log[k] = ordered[j]
        /\ arriving = <<>> /\ Len(arriving) = 0
        /\ messages \in Seq(Versions) /\ ordered \in Seq(SessionMessages) /\ arriving \in Seq(Versions)
        /\ reads # None => opened = TRUE
    BY DEF SessionInv, SessionTypes
  <2>2. \A j \in 1..Len(ordered') : \E k \in 1..Len(log') : log'[k] = ordered'[j]
    BY <1>1, <1>2, <2>1
  <2>3. /\ log' \in Seq(SessionMessages) /\ version' \in [SessionMessages -> Nat]
        /\ \A x \in SessionMessages : version'[x] # 0 <=> \E k \in 1..Len(log') : log'[k] = x
    BY LogGrows
  <2>4. \A j \in 1..Len(arriving') : FALSE
    BY <1>1, <2>1
  <2>5. subscribed' \in BOOLEAN /\ ~subscribed'
    BY <1>1 DEF SessionInv, SessionTypes
  <2> QED BY <1>1, <1>2, <2>1, <2>2, <2>3, <2>4, <2>5 DEF SessionTypes
<1>4. ReadInv'
  <2> DEFINE r == reads.messages
  <2> HIDE DEF r
  <2>1. CASE reads # None /\ r # None
    <3>1. missed' = missed \union {m}
      BY <1>1, <2>1 DEF r
    <3>2. /\ r \in Seq(Versions) /\ Len(r) <= Len(log)
          /\ \A i \in 1..Len(r) : r[i][1] = log[i] /\ (log[i] \notin missed => r[i][2] = version[log[i]])
          /\ \A i \in 1..Len(log) : i > Len(r) => log[i] \in missed
      BY <2>1 DEF SessionInv, ReadInv, r
    <3>3. Len(r) \in Nat
      BY <3>2
    <3>4. ASSUME NEW i \in 1..Len(r)
          PROVE  r[i][1] = log'[i] /\ (log'[i] \notin missed' => r[i][2] = version'[log'[i]])
      <4>1. i \in 1..Len(log)
        BY <1>2, <3>2, <3>3
      <4>2. log'[i] = log[i] /\ log[i] \in SessionMessages
        BY <1>2, <4>1
      <4> QED BY <1>2, <3>1, <3>2, <4>2
    <3>5. ASSUME NEW i \in 1..Len(log'), i > Len(r) PROVE log'[i] \in missed'
      <4>1. CASE i \in 1..Len(log)
        BY <1>2, <3>1, <3>2, <3>5, <4>1
      <4>2. CASE log'[i] = m
        BY <3>1, <4>2
      <4> QED BY <1>2, <4>1, <4>2
    <3>6. Len(r) <= Len(log')
      BY <1>2, <3>2, <3>3
    <3>7. reads'.messages = r
      BY <1>1 DEF r
    <3> QED BY <3>2, <3>4, <3>5, <3>6, <3>7 DEF ReadInv
  <2>2. CASE ~(reads # None /\ r # None)
    BY <1>1, <2>2 DEF ReadInv, r
  <2> QED BY <2>1, <2>2
<1>5. OrderInv' /\ VersionInv'
  BY <1>1 DEF OrderInv, VersionInv
<1>6. ListInv'
  BY <1>1 DEF SessionInv, ListInv, OnceEach, OnceEachId
<1> QED BY <1>3, <1>4, <1>5, <1>6 DEF SessionInv

\* What is left when the messages from a to b, those that have an id, are taken out.
LEMMA WithoutRest ==
  ASSUME messages \in Seq(Versions), NEW id, NEW a \in Nat, NEW b \in Nat,
         1 <= a, a <= b + 1, b <= Len(messages),
         \A i \in 1..Len(messages) : messages[i][1] # id <=> ~(a <= i /\ i <= b)
  PROVE  Without(id) = Rest(messages, a, b, Len(messages))
<1> DEFINE L == Len(messages)
           Step(f) == [i \in 0..L |-> IF i = 0 THEN <<>>
                                      ELSE IF messages[i][1] # id THEN Append(f[i - 1], messages[i]) ELSE f[i - 1]]
           F == CHOOSE f : f = Step(f)
<1>1. L \in Nat
  OBVIOUS
<1>2. F = Step(F)
  <2>1. PICK f : Filtered(f, messages, a, b)
    BY FilterExists
  <2>2. f = Step(f)
    <3>1. ASSUME NEW i \in 0..L
          PROVE  f[i] = IF i = 0 THEN <<>>
                        ELSE IF messages[i][1] # id THEN Append(f[i - 1], messages[i]) ELSE f[i - 1]
      <4>1. f[i] = IF i = 0 THEN <<>>
                   ELSE IF a <= i /\ i <= b THEN f[i - 1] ELSE Append(f[i - 1], messages[i])
        BY <2>1 DEF Filtered
      <4>2. i # 0 => (messages[i][1] # id <=> ~(a <= i /\ i <= b))
        BY <1>1
      <4> QED BY <4>1, <4>2
    <3>2. f = [i \in 0..L |-> f[i]]
      BY <2>1 DEF Filtered
    <3> QED BY <3>1, <3>2
  <2> HIDE DEF Step
  <2> QED BY <2>2
<1>3. Without(id) = F[L]
  BY DEF Without
<1>4. Filters(F, messages, {c \in Versions : c[1] # id})
  <2> HIDE DEF F
  <2>1. 0 \in 0..L /\ F[0] = <<>>
    BY <1>1, <1>2
  <2>2. ASSUME NEW i \in 1..L
        PROVE  F[i] = IF messages[i] \in {c \in Versions : c[1] # id} THEN Append(F[i - 1], messages[i]) ELSE F[i - 1]
    <3>1. i \in 0..L /\ i # 0 /\ messages[i] \in Versions
      BY <1>1
    <3>2. F[i] = IF messages[i][1] # id THEN Append(F[i - 1], messages[i]) ELSE F[i - 1]
      BY <1>2, <3>1
    <3> QED BY <3>1, <3>2
  <2> QED BY <2>1, <2>2 DEF Filters
<1> HIDE DEF F
<1>5. \A i \in 1..L : messages[i] \in {c \in Versions : c[1] # id} <=> ~(a <= i /\ i <= b)
  <2>1. \A i \in 1..L : messages[i] \in Versions
    OBVIOUS
  <2> QED BY <2>1
<1> QED BY <1>3, <1>4, <1>5, FilterIs

\* The elements of such a rest, by their places in the sequence.
LEMMA RestIs ==
  ASSUME NEW S, NEW s \in Seq(S), NEW a \in Nat, NEW b \in Nat, 1 <= a, a <= b + 1, b <= Len(s)
  PROVE  LET w == Rest(s, a, b, Len(s)) IN
         /\ w \in Seq(S) /\ Len(w) = Len(s) - (b + 1 - a)
         /\ \A i \in 1..Len(w) : w[i] = s[IF i < a THEN i ELSE i + (b + 1 - a)]
<1>0. \A x, y \in Seq(S) :
        /\ x \o y \in Seq(S) /\ Len(x \o y) = Len(x) + Len(y)
        /\ \A j \in 1..Len(x) : (x \o y)[j] = x[j]
        /\ \A j \in 1..Len(y) : (x \o y)[Len(x) + j] = y[j]
  BY ConcatIs
<1> DEFINE L == Len(s)
           front == SubSeq(s, 1, a - 1)
           back == SubSeq(s, b + 1, L)
           w == front \o back
<1>1. L \in Nat
  OBVIOUS
<1>2. Rest(s, a, b, L) = w
  <2>1. (IF L < a THEN L ELSE a - 1) = a - 1
    BY <1>1
  <2> QED BY <2>1 DEF Rest
<1>3. front \in Seq(S) /\ Len(front) = a - 1 /\ \A i \in 1..(a - 1) : front[i] = s[i]
  BY <1>1
<1>4. back \in Seq(S) /\ Len(back) = L - b /\ \A i \in 1..(L - b) : back[i] = s[b + i]
  BY <1>1
<1> HIDE DEF front, back
<1>5. /\ w \in Seq(S) /\ Len(w) = Len(front) + Len(back)
      /\ \A i \in 1..Len(front) : w[i] = front[i]
      /\ \A i \in 1..Len(back) : w[Len(front) + i] = back[i]
  BY <1>0, <1>3, <1>4
<1> HIDE DEF w
<1>6. Len(w) = L - (b + 1 - a)
  BY <1>1, <1>3, <1>4, <1>5
<1>7. ASSUME NEW i \in 1..Len(w) PROVE w[i] = s[IF i < a THEN i ELSE i + (b + 1 - a)]
  <2>1. CASE i < a
    <3>1. i \in 1..(a - 1)
      BY <1>1, <1>6, <2>1
    <3> QED BY <1>3, <1>5, <2>1, <3>1
  <2>2. CASE i >= a
    <3>1. i - (a - 1) \in 1..(L - b) /\ Len(front) + (i - (a - 1)) = i
      BY <1>1, <1>3, <1>6, <2>2
    <3>2. w[i] = back[i - (a - 1)]
      BY <1>4, <1>5, <3>1
    <3>3. back[i - (a - 1)] = s[b + (i - (a - 1))]
      BY <1>4, <3>1
    <3>4. b + (i - (a - 1)) = i + (b + 1 - a) /\ ~(i < a)
      BY <2>2
    <3> QED BY <3>2, <3>3, <3>4
  <2> QED BY <2>1, <2>2
<1> QED BY <1>2, <1>5, <1>6, <1>7

LEMMA WithoutIs ==
  ASSUME messages \in Seq(Versions), OnceEachId(messages), NEW id
  PROVE  LET w == Without(id) IN
         /\ w \in Seq(Versions) /\ OnceEachId(w)
         /\ \A i \in 1..Len(w) : w[i][1] # id /\ \E k \in 1..Len(messages) : messages[k] = w[i]
         /\ \A k \in 1..Len(messages) : messages[k][1] # id => \E i \in 1..Len(w) : w[i] = messages[k]
         /\ (\E k \in 1..Len(messages) : messages[k][1] = id) => Len(w) = Len(messages) - 1
         /\ ~(\E k \in 1..Len(messages) : messages[k][1] = id) => Len(w) = Len(messages)
<1> DEFINE L == Len(messages)
           w == Without(id)
<1>1. L \in Nat
  OBVIOUS
<1>2. PICK a \in 1..(L + 1), b \in 0..L :
        /\ a <= b + 1
        /\ \A i \in 1..L : messages[i][1] # id <=> ~(a <= i /\ i <= b)
        /\ \/ a = b /\ \E k \in 1..L : messages[k][1] = id
           \/ a = b + 1 /\ ~(\E k \in 1..L : messages[k][1] = id)
  <2>1. CASE \E k \in 1..L : messages[k][1] = id
    <3>1. PICK k \in 1..L : messages[k][1] = id
      BY <2>1
    <3>2. \A i \in 1..L : messages[i][1] # id <=> ~(k <= i /\ i <= k)
      <4> TAKE i \in 1..L
      <4>1. messages[i][1] = id => i = k
        BY <3>1 DEF OnceEachId
      <4>2. (k <= i /\ i <= k) <=> i = k
        BY <1>1
      <4> QED BY <3>1, <4>1, <4>2
    <3>3. k \in 1..(L + 1) /\ k \in 0..L /\ k <= k + 1
      BY <1>1
    <3> QED BY <2>1, <3>2, <3>3
  <2>2. CASE ~(\E k \in 1..L : messages[k][1] = id)
    <3>1. \A i \in 1..L : messages[i][1] # id <=> ~(1 <= i /\ i <= 0)
      BY <1>1, <2>2
    <3>2. 1 \in 1..(L + 1) /\ 0 \in 0..L /\ 1 <= 0 + 1 /\ 1 = 0 + 1
      BY <1>1
    <3> QED BY <2>2, <3>1, <3>2
  <2> QED BY <2>1, <2>2
<1>3. a \in Nat /\ b \in Nat /\ 1 <= a /\ b <= L /\ a <= b + 1
  BY <1>1, <1>2
<1>4. w = Rest(messages, a, b, L)
  BY <1>2, <1>3, WithoutRest
<1> DEFINE to(i) == IF i < a THEN i ELSE i + (b + 1 - a)
<1>5. /\ w \in Seq(Versions) /\ Len(w) = L - (b + 1 - a)
      /\ \A i \in 1..Len(w) : w[i] = messages[to(i)]
  BY <1>3, <1>4, RestIs
<1> HIDE DEF w
<1>6. \A i \in 1..Len(w) : to(i) \in 1..L /\ ~(a <= to(i) /\ to(i) <= b)
  BY <1>1, <1>3, <1>5
<1>7. \A i, j \in 1..Len(w) : to(i) = to(j) => i = j
  BY <1>1, <1>3, <1>5
<1>8. \A k \in 1..L : ~(a <= k /\ k <= b) => \E i \in 1..Len(w) : to(i) = k
  <2> SUFFICES ASSUME NEW k \in 1..L, ~(a <= k /\ k <= b) PROVE \E i \in 1..Len(w) : to(i) = k
    OBVIOUS
  <2>1. CASE k < a
    <3>1. k \in 1..Len(w) /\ to(k) = k
      BY <1>1, <1>3, <1>5, <2>1
    <3> QED BY <3>1
  <2>2. CASE k > b
    <3>1. k - (b + 1 - a) \in 1..Len(w) /\ to(k - (b + 1 - a)) = k
      BY <1>1, <1>3, <1>5, <2>2
    <3> QED BY <3>1
  <2> QED BY <1>3, <2>1, <2>2
<1> HIDE DEF to
<1>9. OnceEachId(w)
  <2> SUFFICES ASSUME NEW i \in 1..Len(w), NEW j \in 1..Len(w), w[i][1] = w[j][1] PROVE i = j
    BY DEF OnceEachId
  <2>1. messages[to(i)][1] = messages[to(j)][1]
    BY <1>5
  <2>2. to(i) = to(j)
    BY <1>6, <2>1 DEF OnceEachId
  <2> QED BY <1>7, <2>2
<1>10. \A i \in 1..Len(w) : w[i][1] # id /\ \E k \in 1..L : messages[k] = w[i]
  BY <1>2, <1>5, <1>6
<1>11. \A k \in 1..L : messages[k][1] # id => \E i \in 1..Len(w) : w[i] = messages[k]
  BY <1>2, <1>5, <1>8
<1>12. /\ (\E k \in 1..L : messages[k][1] = id) => Len(w) = L - 1
       /\ ~(\E k \in 1..L : messages[k][1] = id) => Len(w) = L
  <2>1. CASE a = b /\ \E k \in 1..L : messages[k][1] = id
    <3>1. Len(w) = L - 1
      BY <1>1, <1>3, <1>5, <2>1
    <3> QED BY <2>1, <3>1
  <2>2. CASE a = b + 1 /\ ~(\E k \in 1..L : messages[k][1] = id)
    <3>1. Len(w) = L
      BY <1>1, <1>3, <1>5, <2>2
    <3> QED BY <2>2, <3>1
  <2> QED BY <1>2, <2>1, <2>2
<1> QED BY <1>5, <1>9, <1>10, <1>11, <1>12 DEF w

\* What a step of handleNewMessage does to the three sequences.
LEMMA HandleIs ==
  ASSUME SessionInv, HandleNewMessage
  PROVE  LET x == arriving[1][1]
             v == arriving[1][2]
         IN /\ subscribed /\ x \in SessionMessages /\ v \in Nat
            /\ \E k \in 1..Len(log) : log[k] = x
            /\ Len(arriving) \in Nat /\ Len(arriving) >= 1 /\ arriving' \in Seq(Versions)
            /\ Len(arriving') = Len(arriving) - 1
            /\ \A j \in 1..Len(arriving') : j + 1 \in 1..Len(arriving) /\ arriving'[j] = arriving[j + 1]
            /\ ordered' \in Seq(SessionMessages) /\ Len(ordered) \in Nat /\ Len(ordered') \in Nat
            /\ \A j \in 1..Len(ordered) : j \in 1..Len(ordered') /\ ordered'[j] = ordered[j]
            /\ \A j \in 1..Len(ordered') : j \in 1..Len(ordered) \/ (j = Len(ordered) + 1 /\ ordered'[j] = x)
            /\ \/ /\ ordered' = ordered /\ \E j \in 1..Len(ordered) : ordered[j] = x
               \/ /\ ~(\E j \in 1..Len(ordered) : ordered[j] = x)
                  /\ Len(ordered') = Len(ordered) + 1 /\ ordered'[Len(ordered) + 1] = x
                  /\ Len(ordered) + 1 \in 1..Len(ordered')
            /\ \E w \in Seq(Versions) : w = Without(x) /\ messages' = Append(w, <<x, v>>)
            /\ UNCHANGED <<log, version, opened, reads, subscribed, missed>>
<1> DEFINE x == arriving[1][1]
           v == arriving[1][2]
<1>1. /\ arriving # <<>> /\ arriving' = Tail(arriving)
      /\ messages' = Append(Without(Head(arriving)[1]), Head(arriving))
      /\ ordered' = IF Head(arriving)[1] \in ToSet(ordered) THEN ordered ELSE Append(ordered, Head(arriving)[1])
      /\ UNCHANGED <<log, version, opened, reads, subscribed, missed>>
  BY DEF HandleNewMessage, sessionServer
<1>2. /\ arriving \in Seq(Versions) /\ ordered \in Seq(SessionMessages) /\ messages \in Seq(Versions)
      /\ subscribed \in BOOLEAN /\ (~subscribed => arriving = <<>>)
      /\ \A j \in 1..Len(arriving) : \E k \in 1..Len(log) : log[k] = arriving[j][1]
  BY DEF SessionInv, SessionTypes
<1>3. subscribed
  BY <1>1, <1>2
<1>4. Len(arriving) \in Nat /\ Len(arriving) >= 1 /\ Head(arriving) = arriving[1] /\ arriving[1] \in Versions
  BY <1>1, <1>2
<1>5. /\ arriving' \in Seq(Versions) /\ Len(arriving') = Len(arriving) - 1
      /\ \A j \in 1..Len(arriving') : j + 1 \in 1..Len(arriving) /\ arriving'[j] = arriving[j + 1]
  BY <1>1, <1>2
<1>6. x \in SessionMessages /\ v \in Nat /\ arriving[1] = <<x, v>>
  BY <1>4 DEF Versions
<1>7. \E k \in 1..Len(log) : log[k] = x
  <2>1. 1 \in 1..Len(arriving)
    BY <1>4
  <2> QED BY <1>2, <2>1
<1> HIDE DEF x, v
<1>8. ordered' = IF x \in ToSet(ordered) THEN ordered ELSE Append(ordered, x)
  BY <1>1, <1>4 DEF x
<1>9. x \in ToSet(ordered) <=> \E j \in 1..Len(ordered) : ordered[j] = x
  <2>1. DOMAIN ordered = 1..Len(ordered)
    BY <1>2
  <2> QED BY <2>1 DEF ToSet
<1>10. Len(ordered) \in Nat
  BY <1>2
<1>11. CASE x \in ToSet(ordered)
  <2>1. ordered' = ordered /\ \E j \in 1..Len(ordered) : ordered[j] = x
    BY <1>8, <1>9, <1>11
  <2>2. \E w \in Seq(Versions) : w = Without(x) /\ messages' = Append(w, <<x, v>>)
    <3>1. OnceEachId(messages)
      BY DEF SessionInv, ListInv
    <3>2. Without(x) \in Seq(Versions)
      BY <1>2, <3>1, WithoutIs
    <3>3. messages' = Append(Without(x), <<x, v>>)
      BY <1>1, <1>4, <1>6 DEF x
    <3> QED BY <3>2, <3>3
  <2> QED BY <1>1, <1>2, <1>3, <1>4, <1>5, <1>6, <1>7, <1>10, <2>1, <2>2 DEF x, v
<1>12. CASE x \notin ToSet(ordered)
  <2>1. /\ ordered' \in Seq(SessionMessages) /\ Len(ordered') = Len(ordered) + 1
        /\ ordered'[Len(ordered) + 1] = x /\ \A j \in 1..Len(ordered) : ordered'[j] = ordered[j]
    <3>1. ordered' = Append(ordered, x)
      BY <1>8, <1>12
    <3> QED BY <1>2, <1>6, <3>1
  <2>2. /\ Len(ordered) + 1 \in 1..Len(ordered') /\ Len(ordered') \in Nat
        /\ \A j \in 1..Len(ordered) : j \in 1..Len(ordered')
        /\ \A j \in 1..Len(ordered') : j \in 1..Len(ordered) \/ j = Len(ordered) + 1
    BY <1>10, <2>1
  <2>3. \E w \in Seq(Versions) : w = Without(x) /\ messages' = Append(w, <<x, v>>)
    <3>1. OnceEachId(messages)
      BY DEF SessionInv, ListInv
    <3>2. Without(x) \in Seq(Versions)
      BY <1>2, <3>1, WithoutIs
    <3>3. messages' = Append(Without(x), <<x, v>>)
      BY <1>1, <1>4, <1>6 DEF x
    <3> QED BY <3>2, <3>3
  <2>4. ~(\E j \in 1..Len(ordered) : ordered[j] = x)
    BY <1>9, <1>12
  <2> QED BY <1>1, <1>3, <1>4, <1>5, <1>6, <1>7, <1>10, <2>1, <2>2, <2>3, <2>4 DEF x, v
<1> QED BY <1>11, <1>12

\* A message moves to the end of what is shown and its id keeps its place.
LEMMA SessionHandles ==
  ASSUME SessionInv, HandleNewMessage
  PROVE  SessionInv'
<1> DEFINE x == arriving[1][1]
           v == arriving[1][2]
<1>1. /\ subscribed /\ x \in SessionMessages /\ v \in Nat
      /\ \E k \in 1..Len(log) : log[k] = x
      /\ Len(arriving) \in Nat /\ Len(arriving) >= 1 /\ arriving' \in Seq(Versions)
      /\ Len(arriving') = Len(arriving) - 1
      /\ \A j \in 1..Len(arriving') : j + 1 \in 1..Len(arriving) /\ arriving'[j] = arriving[j + 1]
  BY HandleIs
<1>2. /\ ordered' \in Seq(SessionMessages) /\ Len(ordered) \in Nat /\ Len(ordered') \in Nat
      /\ \A j \in 1..Len(ordered) : j \in 1..Len(ordered') /\ ordered'[j] = ordered[j]
      /\ \A j \in 1..Len(ordered') : j \in 1..Len(ordered) \/ (j = Len(ordered) + 1 /\ ordered'[j] = x)
      /\ \/ /\ ordered' = ordered /\ \E j \in 1..Len(ordered) : ordered[j] = x
         \/ /\ ~(\E j \in 1..Len(ordered) : ordered[j] = x)
            /\ Len(ordered') = Len(ordered) + 1 /\ ordered'[Len(ordered) + 1] = x
            /\ Len(ordered) + 1 \in 1..Len(ordered')
  BY HandleIs
<1>3. UNCHANGED <<log, version, opened, reads, subscribed, missed>>
  BY HandleIs
<1>4. PICK w \in Seq(Versions) : w = Without(x) /\ messages' = Append(w, <<x, v>>)
  BY HandleIs
<1>5. arriving \in Seq(Versions) /\ messages \in Seq(Versions) /\ log \in Seq(SessionMessages) /\ ordered \in Seq(SessionMessages)
  BY DEF SessionInv, SessionTypes
<1>6. OnceEachId(messages) /\ OnceEach(ordered) /\ Len(messages) = Len(ordered)
  BY DEF SessionInv, ListInv
<1>7. /\ OnceEachId(w)
      /\ \A i \in 1..Len(w) : w[i][1] # x /\ \E k \in 1..Len(messages) : messages[k] = w[i]
      /\ \A k \in 1..Len(messages) : messages[k][1] # x => \E i \in 1..Len(w) : w[i] = messages[k]
      /\ (\E k \in 1..Len(messages) : messages[k][1] = x) => Len(w) = Len(messages) - 1
      /\ ~(\E k \in 1..Len(messages) : messages[k][1] = x) => Len(w) = Len(messages)
  BY <1>4, <1>5, <1>6, WithoutIs
<1>8. 1 \in 1..Len(arriving) /\ \A j \in 1..Len(arriving) : j = 1 \/ (j - 1 \in 1..Len(arriving') /\ arriving'[j - 1] = arriving[j])
  BY <1>1
<1> DEFINE e == <<x, v>>
<1>9. e \in Versions /\ e[1] = x
  BY <1>1 DEF Versions
<1>10. messages' = Append(w, e)
  BY <1>4
<1>11. arriving[1][1] = x /\ arriving[1][2] = v
  OBVIOUS
<1>12. e = <<x, v>>
  OBVIOUS
<1> HIDE DEF e, x, v
<1>13. /\ messages' \in Seq(Versions) /\ Len(w) \in Nat /\ Len(messages') = Len(w) + 1
       /\ \A i \in 1..Len(w) : i \in 1..Len(messages') /\ messages'[i] = w[i]
       /\ messages'[Len(w) + 1] = e /\ Len(w) + 1 \in 1..Len(messages')
       /\ \A i \in 1..Len(messages') : i \in 1..Len(w) \/ i = Len(w) + 1
  <2>1. Len(w) \in Nat
    BY <1>4
  <2>2. /\ messages' \in Seq(Versions) /\ Len(messages') = Len(w) + 1 /\ messages'[Len(w) + 1] = e
        /\ \A i \in 1..Len(w) : messages'[i] = w[i]
    BY <1>4, <1>9, <1>10
  <2>3. /\ \A i \in 1..Len(w) : i \in 1..Len(messages')
        /\ Len(w) + 1 \in 1..Len(messages')
        /\ \A i \in 1..Len(messages') : i \in 1..Len(w) \/ i = Len(w) + 1
    BY <2>1, <2>2
  <2> QED BY <2>1, <2>2, <2>3
<1>14. \E j \in 1..Len(ordered') : ordered'[j] = x
  BY <1>2
<1>15. SessionTypes'
  <2>1. \A j \in 1..Len(ordered) : \E k \in 1..Len(log) : log[k] = ordered[j]
    BY DEF SessionInv, SessionTypes
  <2>2. \A j \in 1..Len(arriving) : \E k \in 1..Len(log) : log[k] = arriving[j][1]
    BY DEF SessionInv, SessionTypes
  <2>3. \A j \in 1..Len(ordered') : \E k \in 1..Len(log') : log'[k] = ordered'[j]
    BY <1>1, <1>2, <1>3, <2>1
  <2>4. \A j \in 1..Len(arriving') : \E k \in 1..Len(log') : log'[k] = arriving'[j][1]
    BY <1>1, <1>3, <2>2
  <2>5. /\ log' \in Seq(SessionMessages) /\ OnceEach(log)' /\ version' \in [SessionMessages -> Nat]
        /\ \A y \in SessionMessages : version'[y] # 0 <=> \E k \in 1..Len(log') : log'[k] = y
        /\ subscribed' \in BOOLEAN /\ subscribed' /\ opened' = TRUE /\ reads' = None
    BY <1>1, <1>3 DEF SessionInv, SessionTypes, OnceEach
  <2> QED BY <1>1, <1>2, <1>13, <2>3, <2>4, <2>5 DEF SessionTypes
<1>16. ReadInv'
  BY <1>3 DEF SessionInv, ReadInv
<1>17. OrderInv'
  <2>1. /\ \A j \in 1..Len(ordered), k, l \in 1..Len(log) :
             k < l /\ log[k] \notin missed /\ log[l] = ordered[j] => \E i \in 1..(j - 1) : ordered[i] = log[k]
        /\ \A j \in 1..Len(arriving), k, l \in 1..Len(log) :
             k < l /\ log[k] \notin missed /\ log[l] = arriving[j][1] =>
               \/ \E i \in 1..Len(ordered) : ordered[i] = log[k]
               \/ \E i \in 1..(j - 1) : arriving[i][1] = log[k]
        /\ \A k \in 1..Len(log) : log[k] \notin missed =>
               \/ \E i \in 1..Len(ordered) : ordered[i] = log[k]
               \/ \E i \in 1..Len(arriving) : arriving[i][1] = log[k]
    BY <1>1 DEF SessionInv, OrderInv
  <2>2. ASSUME NEW j \in 1..Len(ordered'), NEW k \in 1..Len(log), NEW l \in 1..Len(log),
               k < l, log[k] \notin missed, log[l] = ordered'[j]
        PROVE  \E i \in 1..(j - 1) : ordered'[i] = log[k]
    <3>1. CASE j \in 1..Len(ordered)
      <4>1. log[l] = ordered[j]
        BY <1>2, <2>2, <3>1
      <4>2. PICK i \in 1..(j - 1) : ordered[i] = log[k]
        BY <2>1, <2>2, <3>1, <4>1
      <4>3. i \in 1..Len(ordered)
        BY <1>2, <3>1
      <4> QED BY <1>2, <4>2, <4>3
    <3>2. CASE j = Len(ordered) + 1 /\ ordered'[j] = x
      <4>1. log[l] = arriving[1][1]
        BY <1>11, <2>2, <3>2
      <4>2. \E i \in 1..Len(ordered) : ordered[i] = log[k]
        <5>1. \/ \E i \in 1..Len(ordered) : ordered[i] = log[k]
              \/ \E i \in 1..(1 - 1) : arriving[i][1] = log[k]
          BY <1>8, <2>1, <2>2, <4>1
        <5> QED BY <5>1
      <4>3. j - 1 = Len(ordered)
        BY <1>2, <3>2
      <4> QED BY <1>2, <4>2, <4>3
    <3> QED BY <1>2, <3>1, <3>2
  <2>3. ASSUME NEW j \in 1..Len(arriving'), NEW k \in 1..Len(log), NEW l \in 1..Len(log),
               k < l, log[k] \notin missed, log[l] = arriving'[j][1]
        PROVE  \/ \E i \in 1..Len(ordered') : ordered'[i] = log[k]
               \/ \E i \in 1..(j - 1) : arriving'[i][1] = log[k]
    <3>1. j + 1 \in 1..Len(arriving) /\ log[l] = arriving[j + 1][1]
      BY <1>1, <2>3
    <3>2. \/ \E i \in 1..Len(ordered) : ordered[i] = log[k]
          \/ \E i \in 1..(j + 1 - 1) : arriving[i][1] = log[k]
      BY <2>1, <2>3, <3>1
    <3>3. CASE \E i \in 1..Len(ordered) : ordered[i] = log[k]
      BY <1>2, <3>3
    <3>4. ASSUME NEW i \in 1..(j + 1 - 1), arriving[i][1] = log[k]
          PROVE  \/ \E q \in 1..Len(ordered') : ordered'[q] = log[k]
                 \/ \E q \in 1..(j - 1) : arriving'[q][1] = log[k]
      <4>1. CASE i = 1
        BY <1>11, <1>14, <3>4, <4>1
      <4>2. CASE i # 1
        <5>1. i \in 1..Len(arriving) /\ i - 1 \in 1..(j - 1)
          BY <1>1, <3>1, <4>2
        <5>2. arriving'[i - 1] = arriving[i]
          BY <1>8, <4>2, <5>1
        <5> QED BY <3>4, <5>1, <5>2
      <4> QED BY <4>1, <4>2
    <3> QED BY <3>2, <3>3, <3>4
  <2>4. ASSUME NEW k \in 1..Len(log), log[k] \notin missed
        PROVE  \/ \E i \in 1..Len(ordered') : ordered'[i] = log[k]
               \/ \E i \in 1..Len(arriving') : arriving'[i][1] = log[k]
    <3>1. CASE \E i \in 1..Len(ordered) : ordered[i] = log[k]
      BY <1>2, <3>1
    <3>2. ASSUME NEW i \in 1..Len(arriving), arriving[i][1] = log[k]
          PROVE  \/ \E q \in 1..Len(ordered') : ordered'[q] = log[k]
                 \/ \E q \in 1..Len(arriving') : arriving'[q][1] = log[k]
      <4>1. CASE i = 1
        BY <1>11, <1>14, <3>2, <4>1
      <4>2. CASE i # 1
        <5>1. i - 1 \in 1..Len(arriving') /\ arriving'[i - 1] = arriving[i]
          BY <1>8, <4>2
        <5> QED BY <3>2, <5>1
      <4> QED BY <4>1, <4>2
    <3> QED BY <2>1, <2>4, <3>1, <3>2
  <2> QED BY <1>3, <2>2, <2>3, <2>4 DEF OrderInv
<1>18. VersionInv'
  <2>1. /\ \A j \in 1..Len(arriving) :
             (\A i \in 1..Len(arriving) : i > j => arriving[i][1] # arriving[j][1])
               => arriving[j][2] = version[arriving[j][1]]
        /\ \A k \in 1..Len(log) :
             log[k] \notin missed /\ (\A i \in 1..Len(arriving) : arriving[i][1] # log[k])
               => \E i \in 1..Len(messages) : messages[i] = <<log[k], version[log[k]]>>
    BY <1>1 DEF SessionInv, VersionInv
  <2>2. ASSUME NEW j \in 1..Len(arriving'), \A i \in 1..Len(arriving') : i > j => arriving'[i][1] # arriving'[j][1]
        PROVE  arriving'[j][2] = version[arriving'[j][1]]
    <3>1. j + 1 \in 1..Len(arriving) /\ arriving'[j] = arriving[j + 1]
      BY <1>1
    <3>2. \A i \in 1..Len(arriving) : i > j + 1 => arriving[i][1] # arriving[j + 1][1]
      <4> SUFFICES ASSUME NEW i \in 1..Len(arriving), i > j + 1 PROVE arriving[i][1] # arriving[j + 1][1]
        OBVIOUS
      <4>1. i # 1 /\ i - 1 > j
        BY <1>1
      <4>2. i - 1 \in 1..Len(arriving') /\ arriving'[i - 1] = arriving[i]
        BY <1>8, <4>1
      <4> QED BY <2>2, <3>1, <4>1, <4>2
    <3>3. arriving[j + 1][2] = version[arriving[j + 1][1]]
      BY <2>1, <3>1, <3>2
    <3> QED BY <3>1, <3>3
  <2>3. ASSUME NEW k \in 1..Len(log), log[k] \notin missed, \A i \in 1..Len(arriving') : arriving'[i][1] # log[k]
        PROVE  \E i \in 1..Len(messages') : messages'[i] = <<log[k], version[log[k]]>>
    <3>1. CASE log[k] = x
      <4>1. \A i \in 1..Len(arriving) : i > 1 => arriving[i][1] # arriving[1][1]
        <5> SUFFICES ASSUME NEW i \in 1..Len(arriving), i > 1 PROVE arriving[i][1] # arriving[1][1]
          OBVIOUS
        <5>1. i - 1 \in 1..Len(arriving') /\ arriving'[i - 1] = arriving[i]
          BY <1>8
        <5> QED BY <1>11, <2>3, <3>1, <5>1
      <4>2. v = version[x]
        BY <1>8, <1>11, <2>1, <4>1
      <4> QED BY <1>12, <1>13, <3>1, <4>2
    <3>2. CASE log[k] # x
      <4>1. \A i \in 1..Len(arriving) : arriving[i][1] # log[k]
        BY <1>8, <1>11, <2>3, <3>2
      <4>2. PICK i \in 1..Len(messages) : messages[i] = <<log[k], version[log[k]]>>
        BY <2>1, <2>3, <4>1
      <4>3. messages[i][1] # x
        BY <3>2, <4>2
      <4>4. PICK q \in 1..Len(w) : w[q] = messages[i]
        BY <1>7, <4>3
      <4> QED BY <1>13, <4>2, <4>4
    <3> QED BY <3>1, <3>2
  <2> QED BY <1>3, <2>2, <2>3 DEF VersionInv
<1>19. ListInv'
  <2>1. /\ \A i \in 1..Len(messages) : \E j \in 1..Len(ordered) : ordered[j] = messages[i][1]
        /\ \A j \in 1..Len(ordered) : \E i \in 1..Len(messages) : ordered[j] = messages[i][1]
    BY DEF SessionInv, ListInv
  <2>2. OnceEachId(messages)'
    <3> SUFFICES ASSUME NEW i \in 1..Len(messages'), NEW j \in 1..Len(messages'), messages'[i][1] = messages'[j][1]
                 PROVE  i = j
      BY DEF OnceEachId
    <3>1. CASE i \in 1..Len(w) /\ j \in 1..Len(w)
      BY <1>7, <1>13, <3>1 DEF OnceEachId
    <3>2. CASE i = Len(w) + 1
      BY <1>7, <1>9, <1>13, <3>2
    <3>3. CASE j = Len(w) + 1
      BY <1>7, <1>9, <1>13, <3>3
    <3> QED BY <1>13, <3>1, <3>2, <3>3
  <2>3. OnceEach(ordered)'
    <3> SUFFICES ASSUME NEW i \in 1..Len(ordered'), NEW j \in 1..Len(ordered'), ordered'[i] = ordered'[j]
                 PROVE  i = j
      BY DEF OnceEach
    <3>1. CASE i \in 1..Len(ordered) /\ j \in 1..Len(ordered)
      BY <1>2, <1>6, <3>1 DEF OnceEach
    <3>2. CASE i = Len(ordered) + 1
      BY <1>2, <3>2
    <3>3. CASE j = Len(ordered) + 1
      BY <1>2, <3>3
    <3> QED BY <1>2, <3>1, <3>2, <3>3
  <2>4. (\E j \in 1..Len(ordered) : ordered[j] = x) <=> \E k \in 1..Len(messages) : messages[k][1] = x
    <3>1. ASSUME NEW j \in 1..Len(ordered), ordered[j] = x PROVE \E k \in 1..Len(messages) : messages[k][1] = x
      BY <2>1, <3>1
    <3>2. ASSUME NEW k \in 1..Len(messages), messages[k][1] = x PROVE \E j \in 1..Len(ordered) : ordered[j] = x
      BY <2>1, <3>2
    <3> QED BY <3>1, <3>2
  <2>5. Len(messages') = Len(ordered')
    <3>1. CASE \E j \in 1..Len(ordered) : ordered[j] = x
      <4>1. ordered' = ordered
        BY <1>2, <3>1
      <4>2. Len(w) = Len(messages) - 1
        BY <1>7, <2>4, <3>1
      <4> QED BY <1>2, <1>6, <1>13, <4>1, <4>2
    <3>2. CASE ~(\E j \in 1..Len(ordered) : ordered[j] = x)
      <4>1. Len(ordered') = Len(ordered) + 1
        BY <1>2, <3>2
      <4>2. Len(w) = Len(messages)
        BY <1>7, <2>4, <3>2
      <4> QED BY <1>6, <1>13, <4>1, <4>2
    <3> QED BY <3>1, <3>2
  <2>6. ASSUME NEW i \in 1..Len(messages') PROVE \E j \in 1..Len(ordered') : ordered'[j] = messages'[i][1]
    <3>1. CASE i \in 1..Len(w)
      <4>1. PICK k \in 1..Len(messages) : messages[k] = w[i]
        BY <1>7, <3>1
      <4>2. PICK j \in 1..Len(ordered) : ordered[j] = messages[k][1]
        BY <2>1
      <4> QED BY <1>2, <1>13, <3>1, <4>1, <4>2
    <3>2. CASE i = Len(w) + 1
      BY <1>9, <1>13, <1>14, <3>2
    <3> QED BY <1>13, <3>1, <3>2
  <2>7. ASSUME NEW j \in 1..Len(ordered') PROVE \E i \in 1..Len(messages') : ordered'[j] = messages'[i][1]
    <3>1. CASE ordered'[j] = x
      BY <1>9, <1>13, <3>1
    <3>2. CASE ordered'[j] # x
      <4>1. j \in 1..Len(ordered) /\ ordered'[j] = ordered[j]
        BY <1>2, <3>2
      <4>2. PICK k \in 1..Len(messages) : ordered[j] = messages[k][1]
        BY <2>1, <4>1
      <4>3. PICK i \in 1..Len(w) : w[i] = messages[k]
        BY <1>7, <3>2, <4>1, <4>2
      <4> QED BY <1>13, <4>1, <4>2, <4>3
    <3> QED BY <3>1, <3>2
  <2> QED BY <2>2, <2>3, <2>5, <2>6, <2>7 DEF ListInv
<1> QED BY <1>15, <1>16, <1>17, <1>18, <1>19 DEF SessionInv

LEMMA SessionKeeps ==
  ASSUME SessionInv, SessionNext \/ UNCHANGED sessionVars
  PROVE  SessionInv'
<1>1. CASE \E m \in SessionMessages : NodeWrites(m)
  <2>1. PICK m \in SessionMessages : NodeWrites(m)
    BY <1>1
  <2>2. CASE subscribed
    BY <2>1, <2>2, SessionHears
  <2>3. CASE ~subscribed
    BY <2>1, <2>3, SessionMisses
  <2> QED BY <2>2, <2>3
<1>2. CASE StartSession \/ FetchAnswered \/ StartFails \/ StopSession
  BY <1>2, SessionOpens
<1>3. CASE ShowAndSubscribe
  BY <1>3, SessionShows
<1>4. CASE HandleNewMessage
  BY <1>4, SessionHandles
<1>5. CASE \/ StatusChanges \/ HandleAgentUpdate \/ UNCHANGED sessionVars
           \/ \E p \in PollSlots : PollTick(p) \/ PollRead(p) \/ PollAnswered(p) \/ PollFails(p)
  <2>1. UNCHANGED <<log, version, opened, reads, subscribed, arriving, messages, ordered, missed>>
    BY <1>5 DEF StatusChanges, HandleAgentUpdate, PollTick, PollRead, PollAnswered, PollFails,
                sessionVars, sessionServer, sessionShown
  <2> QED BY <2>1, SessionRests
<1> QED BY <1>1, <1>2, <1>3, <1>4, <1>5 DEF SessionNext

\* With nothing on its way, what is shown is the log.
LEMMA SessionShown ==
  ASSUME SessionInv
  PROVE  ShownIsTheLog
<1> DEFINE Created(m) == CHOOSE k \in DOMAIN log : log[k] = m
           Sure == ToSet(log) \ missed
<1> SUFFICES ASSUME subscribed, arriving = <<>>
             PROVE  /\ \A m \in Sure : m \in ToSet(ordered) /\ <<m, version[m]>> \in ToSet(messages)
                    /\ \A i, j \in DOMAIN ordered : i < j /\ {ordered[i], ordered[j]} \subseteq Sure =>
                          Created(ordered[i]) < Created(ordered[j])
                    /\ Len(messages) = Len(ordered)
  BY DEF ShownIsTheLog
<1>1. /\ log \in Seq(SessionMessages) /\ OnceEach(log)
      /\ messages \in Seq(Versions) /\ ordered \in Seq(SessionMessages)
  BY DEF SessionInv, SessionTypes
<1>2. /\ DOMAIN log = 1..Len(log) /\ DOMAIN messages = 1..Len(messages) /\ DOMAIN ordered = 1..Len(ordered)
      /\ Len(log) \in Nat /\ Len(ordered) \in Nat
  BY <1>1
<1>3. \A j \in 1..Len(arriving) : FALSE
  <2>1. Len(arriving) = 0
    OBVIOUS
  <2> QED BY <2>1
<1>4. \A k \in 1..Len(log) : Created(log[k]) = k
  <2> SUFFICES ASSUME NEW k \in 1..Len(log) PROVE Created(log[k]) = k
    OBVIOUS
  <2>1. Created(log[k]) \in DOMAIN log /\ log[Created(log[k])] = log[k]
    BY <1>2
  <2> HIDE DEF Created
  <2> QED BY <1>1, <1>2, <2>1 DEF OnceEach
<1>5. \A m \in Sure : \E k \in 1..Len(log) : log[k] = m /\ m \notin missed
  BY <1>2 DEF ToSet
<1> HIDE DEF Created
<1>6. ASSUME NEW m \in Sure
      PROVE  m \in ToSet(ordered) /\ <<m, version[m]>> \in ToSet(messages)
  <2>1. PICK k \in 1..Len(log) : log[k] = m /\ m \notin missed
    BY <1>5
  <2>2. \E i \in 1..Len(ordered) : ordered[i] = log[k]
    BY <1>3, <2>1 DEF SessionInv, OrderInv
  <2>3. \E i \in 1..Len(messages) : messages[i] = <<log[k], version[log[k]]>>
    <3>1. \A i \in 1..Len(arriving) : arriving[i][1] # log[k]
      BY <1>3
    <3> QED BY <2>1, <3>1 DEF SessionInv, VersionInv
  <2>4. m \in ToSet(ordered)
    BY <1>2, <2>1, <2>2 DEF ToSet
  <2>5. <<m, version[m]>> \in ToSet(messages)
    BY <1>2, <2>1, <2>3 DEF ToSet
  <2> QED BY <2>4, <2>5
<1>7. ASSUME NEW i \in DOMAIN ordered, NEW j \in DOMAIN ordered, i < j, {ordered[i], ordered[j]} \subseteq Sure
      PROVE  Created(ordered[i]) < Created(ordered[j])
  <2>1. ordered[i] \in Sure /\ ordered[j] \in Sure
    BY <1>7
  <2>2. PICK k \in 1..Len(log) : log[k] = ordered[i] /\ ordered[i] \notin missed
    BY <1>5, <2>1
  <2>3. PICK l \in 1..Len(log) : log[l] = ordered[j] /\ ordered[j] \notin missed
    BY <1>5, <2>1
  <2>4. Created(ordered[i]) = k /\ Created(ordered[j]) = l
    BY <1>4, <2>2, <2>3
  <2>5. OnceEach(ordered)
    BY DEF SessionInv, ListInv
  <2>6. k # l
    BY <1>2, <1>7, <2>2, <2>3, <2>5 DEF OnceEach
  <2>7. ~(l < k)
    <3> SUFFICES ASSUME l < k PROVE FALSE
      OBVIOUS
    <3>1. i \in 1..Len(ordered) /\ log[l] \notin missed /\ log[k] = ordered[i]
      BY <1>2, <2>2, <2>3
    <3>2. \A q \in 1..Len(ordered), k1, k2 \in 1..Len(log) :
             k1 < k2 /\ log[k1] \notin missed /\ log[k2] = ordered[q] => \E p \in 1..(q - 1) : ordered[p] = log[k1]
      BY DEF SessionInv, OrderInv
    <3>3. PICK p \in 1..(i - 1) : ordered[p] = log[l]
      BY <3>1, <3>2
    <3>4. p \in 1..Len(ordered) /\ p # j /\ ordered[p] = ordered[j]
      BY <1>2, <1>7, <2>3, <3>3
    <3> QED BY <1>2, <1>7, <2>5, <3>4 DEF OnceEach
  <2> QED BY <2>4, <2>6, <2>7
<1>8. Len(messages) = Len(ordered)
  BY DEF SessionInv, ListInv
<1> QED BY <1>6, <1>7, <1>8

-----------------------------------------------------------------------------
(* What is shown and what is edited, of all parts *)

ShownInv == SessionInv /\ OutputInv /\ NoticesInv /\ LogTypes /\ PanelInv /\ TuiInv
EditingInv == EditorInv /\ WizardInv /\ DialogInv /\ AttachInv /\ TargetInv /\ QuestionInv

LEMMA ViewsStart ==
  ASSUME Init
  PROVE  ShownInv /\ EditingInv
<1>1. SessionInv /\ OutputInv /\ NoticesInv /\ TuiInv
  BY SessionStarts, OutputStarts, NoticesStart, TuiStarts DEF Init
<1>2. LogTypes
  BY DEF Init, MessagesInit, LogTypes
<1>3. PanelInv /\ QuestionInv
  BY PanelStarts, QuestionStarts DEF Init
<1>4. EditorInv /\ WizardInv /\ DialogInv /\ AttachInv /\ TargetInv
  BY EditorStarts, CreationStarts, AttachStarts, TargetStarts DEF Init
<1> QED BY <1>1, <1>2, <1>3, <1>4 DEF ShownInv, EditingInv

\* What a step may be for each of the parts that show or edit something.
LEMMA ViewsOfStep ==
  ASSUME [Next]_clientVars
  PROVE  /\ SessionNext \/ UNCHANGED sessionVars
         /\ OutputNext \/ UNCHANGED outputVars
         /\ TurnsNext \/ UNCHANGED logVars
         /\ DetailNext \/ UNCHANGED detailVars
         /\ TuiNext \/ UNCHANGED tuiVars
         /\ EditorNext \/ UNCHANGED editorVars
         /\ CreationNext \/ DialogNext \/ UNCHANGED wizardVars
         /\ SendNext \/ UNCHANGED sendVars
         /\ TargetNext \/ UNCHANGED targetVars
         /\ QuestionNext \/ UNCHANGED questionVars
<1>1. CASE UNCHANGED clientVars
  BY <1>1 DEF clientVars
<1>2. CASE Next
  BY <1>2 DEF Next
<1> QED BY <1>1, <1>2

LEMMA ShownKeeps ==
  ASSUME ShownInv, [Next]_clientVars
  PROVE  ShownInv'
<1>1. SessionInv'
  BY ViewsOfStep, SessionKeeps DEF ShownInv
<1>2. OutputInv'
  BY ViewsOfStep, OutputKeeps DEF ShownInv
<1>3. NoticesInv'
  BY ViewsOfStep, NoticesKeep DEF ShownInv
<1>4. LogTypes'
  BY ViewsOfStep, LogKeeps DEF ShownInv
<1>5. PanelInv'
  BY ViewsOfStep, PanelKeeps DEF ShownInv
<1>6. TuiInv'
  BY ViewsOfStep, TuiKeeps DEF ShownInv
<1> QED BY <1>1, <1>2, <1>3, <1>4, <1>5, <1>6 DEF ShownInv

LEMMA EditingKeeps ==
  ASSUME EditingInv, [Next]_clientVars
  PROVE  EditingInv'
<1>1. EditorInv'
  BY ViewsOfStep, EditorKeeps DEF EditingInv
<1>2. WizardInv' /\ DialogInv'
  BY ViewsOfStep, CreationKeeps DEF EditingInv
<1>3. AttachInv'
  BY ViewsOfStep, AttachKeeps DEF EditingInv
<1>4. TargetInv'
  BY ViewsOfStep, TargetKeeps DEF EditingInv
<1>5. QuestionInv'
  BY ViewsOfStep, QuestionKeeps DEF EditingInv
<1> QED BY <1>1, <1>2, <1>3, <1>4, <1>5 DEF EditingInv

(***************************************************************************)
(* Once everything written has arrived, an open session shows the node's   *)
(* log in its order and its last versions, but for what was written        *)
(* between the read and the subscription; the notices of a terminal and    *)
(* what its readers are given are its output without gaps; the buttons     *)
(* below a message act on its turn; a panel asks one request at a time;    *)
(* and the terminal's chat has the whole reply (handleNewMessage,          *)
(* createThrottledTerminalOutputNotify, follow, DefaultTurnActions,        *)
(* runPrintMode).                                                          *)
(***************************************************************************)
THEOREM ShownStaysTrue == FairSpec => []ShownIsTrue
<1>1. Init => ShownInv
  BY ViewsStart
<1>2. ShownInv /\ [Next]_clientVars => ShownInv'
  BY ShownKeeps
<1>3. ShownInv => ShownIsTrue
  BY SessionShown, ReadersSee, NoticesTrue, TurnsAgree, PanelSound, ReplyShown DEF ShownInv, ShownIsTrue
<1> QED BY <1>1, <1>2, <1>3, PTL DEF FairSpec

(***************************************************************************)
(* Where nothing disturbed it a definition that is stored has every edit;  *)
(* indicators end with the calls they stand for; a created agent is one    *)
(* that was shown; a message takes along the file that was shown; a        *)
(* running turn is restarted elsewhere by one call, which nobody declined; *)
(* and a question is answered once (updateDefinition, saveNow, finalize,   *)
(* useMemeLoopRuntime, ExecutionTargetSelector, AskQuestionContent).       *)
(***************************************************************************)
THEOREM EditingStaysSound == FairSpec => []EditingIsSound
<1>1. Init => EditingInv
  BY ViewsStart
<1>2. EditingInv /\ [Next]_clientVars => EditingInv'
  BY EditingKeeps
<1>3. EditingInv => EditingIsSound
  BY EditorSound, CreationSound, AttachShown, RestartsAsked, AnsweredOnce DEF EditingInv, EditingIsSound
<1> QED BY <1>1, <1>2, <1>3, PTL DEF FairSpec
=============================================================================
