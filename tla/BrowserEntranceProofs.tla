------------------------ MODULE BrowserEntranceProofs ------------------------
(***************************************************************************)
(* What the browser entrance promises, proved for any number of profiles   *)
(* and tabs and any limits.                                                *)
(*                                                                         *)
(* TypeInv types the state: tokens are positions in family, a token        *)
(* belongs to one registration and so do all that came before it, and a    *)
(* token in its grace leads to a current one of the same family.           *)
(*                                                                         *)
(* EndInv, for SessionsEndWithIt, says how a session stays tied to its     *)
(* registration: by the name that both have from the registry's memory.    *)
(*                                                                         *)
(* HoldInv, for OnlyCopiesAreTaken, says who holds the tokens of a         *)
(* registration: one browser, unless there is an excuse, with a token that *)
(* leads to the registration and that is the current one unless a later    *)
(* answer is under way to it or has been lost.                             *)
(***************************************************************************)
EXTENDS BrowserEntrance, SequenceTheorems, WellFoundedInduction, TLAPS

\* The shape of a registration in the document.
Registration == [current : Nat, retired : Seq(Nat)]

\* No registration is in the file twice.
Distinct(d) == \A i, j \in DOMAIN d : d[i] = d[j] => i = j

-----------------------------------------------------------------------------
(* Sequences *)

\* What RemoveAt leaves, by position.
LEMMA RemoveAtPositions ==
  ASSUME NEW S, NEW d \in Seq(S), NEW i \in 1 .. Len(d)
  PROVE  /\ RemoveAt(d, i) \in Seq(S)
         /\ Len(RemoveAt(d, i)) = Len(d) - 1
         /\ \A j \in 1 .. Len(d) - 1 : RemoveAt(d, i)[j] = IF j < i THEN d[j] ELSE d[j + 1]
PROOF
  <1> DEFINE a == SubSeq(d, 1, i - 1)
             b == SubSeq(d, i + 1, Len(d))
  <1>1. Len(d) \in Nat /\ i \in Nat OBVIOUS
  <1>2. a \in Seq(S) /\ Len(a) = i - 1 /\ \A j \in 1 .. i - 1 : a[j] = d[j]
    BY <1>1, SubSeqProperties
  <1>3. b \in Seq(S) /\ Len(b) = Len(d) - i /\ \A j \in 1 .. Len(d) - i : b[j] = d[i + j]
    BY <1>1, SubSeqProperties
  <1> HIDE DEF a, b
  <1>4. /\ a \o b \in Seq(S) /\ Len(a \o b) = Len(a) + Len(b)
        /\ \A j \in 1 .. Len(a) + Len(b) : (a \o b)[j] = IF j <= Len(a) THEN a[j] ELSE b[j - Len(a)]
    BY <1>2, <1>3, ConcatProperties
  <1>5. RemoveAt(d, i) = a \o b BY DEF RemoveAt, a, b
  <1>6. ASSUME NEW j \in 1 .. Len(d) - 1
        PROVE  (a \o b)[j] = IF j < i THEN d[j] ELSE d[j + 1]
    <2>1. CASE j < i BY <1>1, <1>2, <1>3, <1>4, <2>1
    <2>2. CASE ~(j < i)
      <3>1. j - Len(a) \in 1 .. Len(d) - i /\ i + (j - Len(a)) = j + 1 BY <1>1, <1>2, <2>2
      <3>2. b[j - Len(a)] = d[j + 1] BY <1>3, <3>1
      <3>3. j \in 1 .. Len(a) + Len(b) /\ ~(j <= Len(a)) BY <1>1, <1>2, <1>3, <2>2
      <3> QED BY <1>4, <2>2, <3>2, <3>3
    <2> QED BY <2>1, <2>2
  <1>7. Len(a) + Len(b) = Len(d) - 1 BY <1>1, <1>2, <1>3
  <1> QED BY <1>4, <1>5, <1>6, <1>7

\* Removing one of distinct entries takes it from the set of all.
LEMMA RemoveOne ==
  ASSUME NEW S, NEW d \in Seq(S), Distinct(d), NEW i \in 1 .. Len(d)
  PROVE  /\ RemoveAt(d, i) \in Seq(S) /\ Distinct(RemoveAt(d, i))
         /\ Len(RemoveAt(d, i)) = Len(d) - 1
         /\ ToSet(RemoveAt(d, i)) = ToSet(d) \ {d[i]}
PROOF
  <1> DEFINE e == RemoveAt(d, i)
  <1>1. /\ e \in Seq(S) /\ Len(e) = Len(d) - 1 /\ Len(d) \in Nat
        /\ \A j \in 1 .. Len(d) - 1 : e[j] = IF j < i THEN d[j] ELSE d[j + 1]
    BY RemoveAtPositions
  <1> HIDE DEF e
  <1>2. DOMAIN e = 1 .. Len(d) - 1 /\ DOMAIN d = 1 .. Len(d) BY <1>1
  <1>3. \A j, k \in DOMAIN d : d[j] = d[k] => j = k BY DEF Distinct
  <1>4. Distinct(e)
    <2> SUFFICES ASSUME NEW j \in 1 .. Len(d) - 1, NEW k \in 1 .. Len(d) - 1, e[j] = e[k]
                 PROVE  j = k
      BY <1>2 DEF Distinct
    <2> DEFINE at(x) == IF x < i THEN x ELSE x + 1
    <2>1. \A x \in 1 .. Len(d) - 1 : at(x) \in 1 .. Len(d) /\ e[x] = d[at(x)] BY <1>1
    <2>2. at(j) = at(k) BY <1>2, <1>3, <2>1
    <2> QED BY <1>1, <2>2
  <1>5. ASSUME NEW r \in ToSet(e) PROVE r \in ToSet(d) \ {d[i]}
    <2>1. PICK j \in 1 .. Len(d) - 1 : r = e[j] BY <1>2, <1>5 DEF ToSet
    <2> DEFINE at == IF j < i THEN j ELSE j + 1
    <2>2. at \in 1 .. Len(d) /\ at # i BY <1>1
    <2>3. r = d[at] BY <1>1, <2>1
    <2> HIDE DEF at
    <2>4. d[at] \in ToSet(d) /\ d[at] # d[i] BY <1>2, <1>3, <2>2 DEF ToSet
    <2> QED BY <2>3, <2>4
  <1>6. ASSUME NEW r \in ToSet(d) \ {d[i]} PROVE r \in ToSet(e)
    <2>1. PICK j \in 1 .. Len(d) : r = d[j] /\ j # i BY <1>2, <1>6 DEF ToSet
    <2>2. CASE j < i BY <1>1, <1>2, <2>1, <2>2 DEF ToSet
    <2>3. CASE j > i
      <3>1. j - 1 \in 1 .. Len(d) - 1 /\ e[j - 1] = d[j] BY <1>1, <2>1, <2>3
      <3> QED BY <1>2, <2>1, <3>1 DEF ToSet
    <2> QED BY <1>1, <2>1, <2>2, <2>3
  <1> QED BY <1>1, <1>4, <1>5, <1>6 DEF e

\* Appending a new one adds it.
LEMMA AppendOne ==
  ASSUME NEW S, NEW d \in Seq(S), Distinct(d), NEW r \in S, r \notin ToSet(d)
  PROVE  /\ Append(d, r) \in Seq(S) /\ Distinct(Append(d, r))
         /\ Len(Append(d, r)) = Len(d) + 1
         /\ ToSet(Append(d, r)) = ToSet(d) \cup {r}
PROOF
  <1> DEFINE e == Append(d, r)
  <1>1. /\ e \in Seq(S) /\ Len(e) = Len(d) + 1 /\ Len(d) \in Nat /\ e[Len(d) + 1] = r
        /\ \A j \in 1 .. Len(d) : e[j] = d[j]
    BY AppendProperties
  <1> HIDE DEF e
  <1>2. DOMAIN e = 1 .. Len(d) + 1 /\ DOMAIN d = 1 .. Len(d) BY <1>1
  <1>3. \A j \in 1 .. Len(d) : d[j] # r BY <1>2 DEF ToSet
  <1>4. Distinct(e)
    <2> SUFFICES ASSUME NEW j \in 1 .. Len(d) + 1, NEW k \in 1 .. Len(d) + 1, e[j] = e[k]
                 PROVE  j = k
      BY <1>2 DEF Distinct
    <2>1. \A x, y \in 1 .. Len(d) : d[x] = d[y] => x = y BY <1>2 DEF Distinct
    <2> QED BY <1>1, <1>3, <2>1
  <1>5. ToSet(e) = ToSet(d) \cup {r} BY <1>1, <1>2 DEF ToSet
  <1> QED BY <1>1, <1>4, <1>5 DEF e

\* Without the first one.
LEMMA TailOne ==
  ASSUME NEW S, NEW d \in Seq(S), Distinct(d), d # << >>
  PROVE  /\ Tail(d) \in Seq(S) /\ Distinct(Tail(d))
         /\ Len(Tail(d)) = Len(d) - 1
         /\ ToSet(Tail(d)) \subseteq ToSet(d)
         /\ \A r \in ToSet(d) : r = Head(d) \/ r \in ToSet(Tail(d))
PROOF
  <1> DEFINE e == Tail(d)
  <1>1. /\ e \in Seq(S) /\ Len(e) = Len(d) - 1 /\ Len(d) \in Nat /\ Head(d) = d[1]
        /\ \A j \in 1 .. Len(d) - 1 : e[j] = d[j + 1]
    BY HeadTailProperties
  <1> HIDE DEF e
  <1>2. DOMAIN e = 1 .. Len(d) - 1 /\ DOMAIN d = 1 .. Len(d) BY <1>1
  <1>3. Distinct(e)
    <2> SUFFICES ASSUME NEW j \in 1 .. Len(d) - 1, NEW k \in 1 .. Len(d) - 1, e[j] = e[k]
                 PROVE  j = k
      BY <1>2 DEF Distinct
    <2>1. \A x, y \in 1 .. Len(d) : d[x] = d[y] => x = y BY <1>2 DEF Distinct
    <2> QED BY <1>1, <2>1
  <1>4. ToSet(e) \subseteq ToSet(d) BY <1>1, <1>2 DEF ToSet
  <1>5. ASSUME NEW j \in 1 .. Len(d), j # 1 PROVE d[j] \in ToSet(e)
    <2>1. j - 1 \in 1 .. Len(d) - 1 /\ e[j - 1] = d[j] BY <1>1, <1>5
    <2> QED BY <1>2, <2>1 DEF ToSet
  <1>6. \A r \in ToSet(d) : r = Head(d) \/ r \in ToSet(e) BY <1>1, <1>2, <1>5 DEF ToSet
  <1> QED BY <1>1, <1>3, <1>4, <1>6 DEF e

\* A set of naturals that is not empty has a first one.
LEMMA LeastElement ==
  ASSUME NEW U \in SUBSET Nat, U # {}
  PROVE  \E i \in U : \A j \in U : i <= j
PROOF
  <1>1. OpToRel(<, Nat) = {pair \in Nat \X Nat : pair[1] < pair[2]}
    BY Zenon DEF OpToRel
  <1>2. PICK less : /\ less = {pair \in Nat \X Nat : pair[1] < pair[2]}
                    /\ IsWellFoundedOn(less, Nat)
    BY <1>1, NatLessThanWellFounded, Zenon
  <1>3. PICK i \in U : \A j \in U : <<j, i>> \notin less
    BY <1>2, WFMin, Zenon
  <1>4. \A j \in Nat : j < i => <<j, i>> \in less
    <2>1. less = {pair \in Nat \X Nat : pair[1] < pair[2]}
      BY <1>2
    <2> QED BY <2>1
  <1>5. \A j \in U : ~(j < i)
    BY <1>3, <1>4
  <1> QED BY <1>5

\* A set of naturals below a bound has its maximum.
LEMMA MaxOf ==
  ASSUME NEW n \in Nat, NEW S \in SUBSET (0 .. n), S # {}
  PROVE  Max(S) \in S /\ \A x \in S : Max(S) >= x
PROOF
  <1> DEFINE U == {n - x : x \in S}
  <1>1. U \in SUBSET Nat /\ U # {}
    <2>1. ASSUME NEW x \in S PROVE n - x \in Nat OBVIOUS
    <2> QED BY <2>1
  <1>2. PICK i \in U : \A j \in U : i <= j BY <1>1, LeastElement
  <1>3. PICK x \in S : i = n - x BY <1>2
  <1>4. \A y \in S : x >= y BY <1>2, <1>3
  <1> QED BY <1>4 DEF Max

-----------------------------------------------------------------------------
(* The registrations *)

\* A registration has a current token and the retired ones of its family.
Remembers(r, fam) ==
  /\ r.current \in 1 .. Len(fam) /\ Len(r.retired) <= MaxRetiredTokens
  /\ \A k \in ToSet(r.retired) : k \in 1 .. Len(fam) /\ fam[k] = fam[r.current]

\* A token belongs to one registration, and so do all that came before it.
RegistryOK(d, fam) ==
  /\ d \in Seq(Registration) /\ Distinct(d) /\ Len(d) <= MaxRegistrations
  /\ fam \in Seq(1 .. MaxTokens) /\ Len(fam) <= MaxTokens
  /\ \A k \in 1 .. Len(fam) : fam[k] \in 1 .. Len(fam)
  /\ \A r \in ToSet(d) : Remembers(r, fam)
  /\ \A r, s \in ToSet(d) : fam[r.current] = fam[s.current] => r = s

\* A token in its grace leads to the current one of its registration.
GraceOK(d, g, fam) ==
  \A e \in g : /\ e \in [old : 1 .. Len(fam), token : 1 .. Len(fam)]
               /\ e.token \in Currents(d) /\ fam[e.old] = fam[e.token]

\* The registrations, their graces and their names.
StoreOK ==
  /\ RegistryOK(doc, family) /\ GraceOK(doc, grace, family)
  /\ named \in Nat /\ names \in [1 .. MaxTokens -> 0 .. named]

\* The current tokens are those of the registrations.
LEMMA CurrentsOf ==
  ASSUME NEW d PROVE Currents(d) = {r.current : r \in ToSet(d)}
PROOF BY DEF Currents, ToSet

\* CurrentAt finds the registration whose current token it is given.
LEMMA CurrentAtFinds ==
  ASSUME doc \in Seq(Registration), NEW token
  PROVE  /\ CurrentAt(token) # 0 <=> token \in Currents(doc)
         /\ CurrentAt(token) # 0 => /\ CurrentAt(token) \in 1 .. Len(doc)
                                    /\ doc[CurrentAt(token)].current = token
         /\ CurrentAt(token) = 0 \/ CurrentAt(token) \in 1 .. Len(doc)
PROOF
  <1>1. DOMAIN doc = 1 .. Len(doc) /\ Len(doc) \in Nat OBVIOUS
  <1>2. CASE token \in Currents(doc)
    <2>1. \E i \in DOMAIN doc : doc[i].current = token BY <1>2 DEF Currents
    <2>2. CurrentAt(token) = CHOOSE i \in DOMAIN doc : doc[i].current = token
      BY <1>2 DEF CurrentAt
    <2> QED BY <1>1, <1>2, <2>1, <2>2
  <1>3. CASE token \notin Currents(doc) BY <1>3 DEF CurrentAt
  <1> QED BY <1>2, <1>3

\* RetiredAt finds the registration that remembers the token.
LEMMA RetiredAtFinds ==
  ASSUME doc \in Seq(Registration), NEW token
  PROVE  /\ RetiredAt(token) # 0 => /\ RetiredAt(token) \in 1 .. Len(doc)
                                    /\ token \in ToSet(doc[RetiredAt(token)].retired)
         /\ RetiredAt(token) = 0 \/ RetiredAt(token) \in 1 .. Len(doc)
PROOF
  <1>1. DOMAIN doc = 1 .. Len(doc) /\ Len(doc) \in Nat OBVIOUS
  <1>2. CASE \E i \in DOMAIN doc : token \in ToSet(doc[i].retired)
    <2>1. RetiredAt(token) = CHOOSE i \in DOMAIN doc : token \in ToSet(doc[i].retired)
      BY <1>2 DEF RetiredAt
    <2> QED BY <1>1, <1>2, <2>1
  <1>3. CASE ~\E i \in DOMAIN doc : token \in ToSet(doc[i].retired)
    BY <1>3 DEF RetiredAt
  <1> QED BY <1>2, <1>3

\* Registrations that go leave the others as they are.
LEMMA FewerOK ==
  ASSUME NEW d, NEW fam, RegistryOK(d, fam), NEW e \in Seq(Registration), Distinct(e),
         Len(e) <= Len(d), ToSet(e) \subseteq ToSet(d)
  PROVE  RegistryOK(e, fam)
PROOF
  <1>1. Len(e) \in Nat /\ Len(d) \in Nat /\ Len(e) <= MaxRegistrations
    BY EntranceAssumption DEF RegistryOK
  <1> QED BY <1>1 DEF RegistryOK

\* A registration is removed, and nothing else.
LEMMA RemovedOK ==
  ASSUME RegistryOK(doc, family), NEW i \in 1 .. Len(doc)
  PROVE  /\ RegistryOK(RemoveAt(doc, i), family)
         /\ ToSet(RemoveAt(doc, i)) = ToSet(doc) \ {doc[i]}
         /\ Len(RemoveAt(doc, i)) = Len(doc) - 1
PROOF
  <1>1. doc \in Seq(Registration) /\ Distinct(doc) /\ Len(doc) \in Nat BY DEF RegistryOK
  <1>2. /\ RemoveAt(doc, i) \in Seq(Registration) /\ Distinct(RemoveAt(doc, i))
        /\ Len(RemoveAt(doc, i)) = Len(doc) - 1
        /\ ToSet(RemoveAt(doc, i)) = ToSet(doc) \ {doc[i]}
    BY <1>1, RemoveOne
  <1> QED BY <1>1, <1>2, FewerOK

\* Family f may get a new token, which is to be the current one.
Fits(d, fam, f, retired) ==
  /\ RegistryOK(d, fam) /\ Len(d) < MaxRegistrations /\ Len(fam) < MaxTokens
  /\ f \in 1 .. Len(fam) + 1 /\ \A s \in ToSet(d) : fam[s.current] # f
  /\ retired \in Seq(Nat) /\ Len(retired) <= MaxRetiredTokens
  /\ \A k \in ToSet(retired) : k \in 1 .. Len(fam) /\ fam[k] = f

\* A new token in the place of an old one, or for a registration of its own.
LEMMA GrownOK ==
  ASSUME NEW d, NEW fam, NEW f, NEW retired, Fits(d, fam, f, retired),
         NEW r, r = [current |-> Len(fam) + 1, retired |-> retired]
  PROVE  /\ RegistryOK(Append(d, r), Append(fam, f))
         /\ ToSet(Append(d, r)) = ToSet(d) \cup {r}
         /\ Len(Append(fam, f)) = Len(fam) + 1 /\ Append(fam, f)[Len(fam) + 1] = f
         /\ \A k \in 1 .. Len(fam) : Append(fam, f)[k] = fam[k]
PROOF
  <1> DEFINE e == Append(d, r)
             fam2 == Append(fam, f)
  <1>1. /\ d \in Seq(Registration) /\ Distinct(d) /\ Len(d) \in Nat
        /\ fam \in Seq(1 .. MaxTokens) /\ Len(fam) \in Nat
        /\ \A s \in ToSet(d) : Remembers(s, fam)
        /\ \A s, u \in ToSet(d) : fam[s.current] = fam[u.current] => s = u
        /\ \A k \in 1 .. Len(fam) : fam[k] \in 1 .. Len(fam)
        /\ Len(d) < MaxRegistrations /\ Len(fam) < MaxTokens
        /\ f \in 1 .. Len(fam) + 1 /\ \A s \in ToSet(d) : fam[s.current] # f
        /\ retired \in Seq(Nat) /\ Len(retired) <= MaxRetiredTokens
        /\ \A k \in ToSet(retired) : k \in 1 .. Len(fam) /\ fam[k] = f
    BY DEF RegistryOK, Fits
  <1>2. f \in 1 .. MaxTokens BY <1>1, EntranceAssumption
  <1>3. /\ fam2 \in Seq(1 .. MaxTokens) /\ Len(fam2) = Len(fam) + 1 /\ fam2[Len(fam) + 1] = f
        /\ \A k \in 1 .. Len(fam) : fam2[k] = fam[k]
    BY <1>1, <1>2, AppendProperties
  <1>4. r \in Registration /\ r.current = Len(fam) + 1 /\ r.retired = retired
    BY <1>1 DEF Registration
  <1> HIDE DEF fam2
  <1>5. r \notin ToSet(d) BY <1>1, <1>4 DEF Remembers
  <1>6. e \in Seq(Registration) /\ Distinct(e) /\ Len(e) = Len(d) + 1 /\ ToSet(e) = ToSet(d) \cup {r}
    BY <1>1, <1>4, <1>5, AppendOne
  <1> HIDE DEF e
  <1>7. ASSUME NEW s \in ToSet(e) PROVE Remembers(s, fam2)
    <2>1. CASE s = r
      <3>1. fam2[r.current] = f /\ r.current \in 1 .. Len(fam2) BY <1>1, <1>3, <1>4
      <3>2. ASSUME NEW k \in ToSet(retired) PROVE k \in 1 .. Len(fam2) /\ fam2[k] = f
        <4>1. k \in 1 .. Len(fam) /\ fam[k] = f BY <1>1
        <4> QED BY <1>1, <1>3, <4>1
      <3> QED BY <1>1, <1>4, <2>1, <3>1, <3>2 DEF Remembers
    <2>2. CASE s \in ToSet(d)
      <3>1. Remembers(s, fam) BY <1>1, <2>2
      <3>2. s.current \in 1 .. Len(fam) /\ fam2[s.current] = fam[s.current]
            /\ s.current \in 1 .. Len(fam2)
        BY <1>1, <1>3, <3>1 DEF Remembers
      <3>3. ASSUME NEW k \in ToSet(s.retired)
            PROVE  k \in 1 .. Len(fam2) /\ fam2[k] = fam2[s.current]
        <4>1. k \in 1 .. Len(fam) /\ fam[k] = fam[s.current] BY <3>1 DEF Remembers
        <4> QED BY <1>1, <1>3, <3>2, <4>1
      <3> QED BY <3>1, <3>2, <3>3 DEF Remembers
    <2> QED BY <1>6, <2>1, <2>2
  <1>8. ASSUME NEW s \in ToSet(e), NEW u \in ToSet(e), fam2[s.current] = fam2[u.current]
        PROVE  s = u
    <2>1. \A v \in ToSet(d) : fam2[v.current] = fam[v.current] BY <1>1, <1>3 DEF Remembers
    <2>2. fam2[r.current] = f BY <1>3, <1>4
    <2> QED BY <1>1, <1>6, <1>8, <2>1, <2>2
  <1>9. ASSUME NEW k \in 1 .. Len(fam2) PROVE fam2[k] \in 1 .. Len(fam2)
    <2>1. CASE k = Len(fam) + 1 BY <1>1, <1>3, <2>1
    <2>2. CASE k \in 1 .. Len(fam)
      <3>1. fam2[k] = fam[k] /\ fam[k] \in 1 .. Len(fam) BY <1>1, <1>3, <2>2
      <3> QED BY <1>1, <1>3, <3>1
    <2> QED BY <1>1, <1>3, <2>1, <2>2
  <1>10. Len(e) <= MaxRegistrations /\ Len(fam2) <= MaxTokens
    BY <1>1, <1>3, <1>6, EntranceAssumption
  <1>11. RegistryOK(e, fam2)
    BY <1>10, <1>1, <1>3, <1>6, <1>7, <1>8, <1>9 DEF RegistryOK
  <1> QED BY <1>3, <1>6, <1>11 DEF e, fam2

\* What a registration remembers when its token is replaced.
LEMMA RetireKeeps ==
  ASSUME NEW retired \in Seq(Nat), Len(retired) <= MaxRetiredTokens, NEW token \in Nat
  PROVE  /\ Retire(retired, token) \in Seq(Nat)
         /\ Len(Retire(retired, token)) <= MaxRetiredTokens
         /\ ToSet(Retire(retired, token)) \subseteq ToSet(retired) \cup {token}
PROOF
  <1> DEFINE all == Append(retired, token)
  <1>1. /\ all \in Seq(Nat) /\ Len(all) = Len(retired) + 1 /\ Len(retired) \in Nat
        /\ all[Len(retired) + 1] = token /\ \A j \in 1 .. Len(retired) : all[j] = retired[j]
    BY AppendProperties
  <1>2. Retire(retired, token) = IF Len(all) > MaxRetiredTokens THEN Tail(all) ELSE all
    BY DEF Retire
  <1> HIDE DEF all
  <1>3. DOMAIN all = 1 .. Len(retired) + 1 /\ DOMAIN retired = 1 .. Len(retired) BY <1>1
  <1>4. ToSet(all) \subseteq ToSet(retired) \cup {token}
    <2> SUFFICES ASSUME NEW j \in 1 .. Len(retired) + 1 PROVE all[j] \in ToSet(retired) \cup {token}
      BY <1>3 DEF ToSet
    <2>1. CASE j = Len(retired) + 1 BY <1>1, <2>1
    <2>2. CASE j \in 1 .. Len(retired)
      <3>1. all[j] = retired[j] BY <1>1, <2>2
      <3> QED BY <1>3, <2>2, <3>1 DEF ToSet
    <2> QED BY <1>1, <2>1, <2>2
  <1>5. /\ Tail(all) \in Seq(Nat) /\ Len(Tail(all)) = Len(retired)
        /\ \A j \in 1 .. Len(retired) : Tail(all)[j] = all[j + 1]
    BY <1>1, HeadTailProperties
  <1>6. ToSet(Tail(all)) \subseteq ToSet(all)
    <2>1. DOMAIN Tail(all) = 1 .. Len(retired) BY <1>1, <1>5
    <2> SUFFICES ASSUME NEW j \in 1 .. Len(retired) PROVE Tail(all)[j] \in ToSet(all)
      BY <2>1 DEF ToSet
    <2>2. j + 1 \in 1 .. Len(retired) + 1 BY <1>1
    <2>3. Tail(all)[j] = all[j + 1] BY <1>5
    <2>4. all[j + 1] \in ToSet(all)
      <3> DEFINE k == j + 1
      <3>1. k \in DOMAIN all BY <1>3, <2>2
      <3> HIDE DEF k
      <3>2. all[k] \in ToSet(all) BY <3>1 DEF ToSet
      <3> QED BY <3>2 DEF k
    <2> QED BY <2>3, <2>4
  <1> QED BY <1>1, <1>2, <1>4, <1>5, <1>6, EntranceAssumption

\* What the other variables hold.
TabState(issued, known, answered) ==
  [at : {"closed", "open", "recovering", "joining", "revoking", "refused", "entered", "linked",
         "registering", "signing", "leaving", "left"},
   token : 0 .. issued, session : 0 .. known, name : Nat, fresh : BOOLEAN, n : 0 .. answered]

SessionsOK ==
  /\ sessions \in [1 .. MaxSessions -> [alive : BOOLEAN, name : Nat, family : 0 .. Issued]]
  /\ link \in BOOLEAN /\ born \in 0 .. MaxSessions

BrowsersOK ==
  /\ stored \in [Profiles -> 0 .. Issued] /\ cookie \in [Profiles -> 0 .. born]
  /\ answers \in Nat
  /\ adopted \in [Profiles -> 0 .. answers] /\ lost \in [Profiles -> 0 .. answers]
  /\ excused \subseteq 1 .. Issued /\ untied \subseteq 1 .. Issued

TabsOK ==
  /\ tab \in [Tabs -> TabState(Issued, born, answers)]
  /\ \A t \in Tabs : tab[t].at \in {"recovering", "joining", "revoking"} => tab[t].token # 0

RestOK == SessionsOK /\ BrowsersOK /\ TabsOK

\* The inductive invariant that types the state.
TypeInv == StoreOK /\ RestOK

\* A registration is named once, and with a name nothing else has.
LEMMA NameFacts ==
  ASSUME StoreOK, NEW token \in 1 .. MaxTokens
  PROVE  /\ NameOf(token) \in 1 .. NamedAfter(token) /\ NamedAfter(token) \in Nat
         /\ named <= NamedAfter(token) /\ NameOf(token) # 0
         /\ names[token] # 0 => NameOf(token) = names[token]
         /\ 0 .. named \subseteq 0 .. NamedAfter(token)
PROOF BY DEF StoreOK, NameOf, NamedAfter

\* What is pruned leads to registrations that are there.
LEMMA PruneFacts ==
  ASSUME NEW d, NEW g, NEW ns, NEW S, ns \in [1 .. MaxTokens -> S], 0 \in S, Prune(d, g, ns)
  PROVE  /\ grace' \subseteq g /\ \A e \in g : e \in grace' <=> e.token \in Currents(d)
         /\ names' \in [1 .. MaxTokens -> S]
         /\ \A k \in 1 .. MaxTokens : k \in Currents(d) => names'[k] = ns[k]
PROOF BY DEF Prune

\* Registrations may go and names may be given.
LEMMA FewerStore ==
  ASSUME StoreOK, RegistryOK(doc', family), UNCHANGED family, grace' \subseteq grace,
         \A e \in grace' : e.token \in Currents(doc'),
         named' \in Nat, names' \in [1 .. MaxTokens -> 0 .. named']
  PROVE  StoreOK'
PROOF
  <1>1. GraceOK(doc', grace', family) BY DEF StoreOK, GraceOK
  <1> QED BY <1>1 DEF StoreOK, RegistryOK, Remembers, GraceOK

\* The registration of a current token, and of one in its grace.
LEMMA TokenFacts ==
  ASSUME StoreOK, NEW r \in ToSet(doc)
  PROVE  r.current \in 1 .. Issued /\ r.current \in 1 .. MaxTokens /\ Issued \in 0 .. MaxTokens
         /\ family[r.current] \in 1 .. Issued
PROOF
  <1>1. Remembers(r, family) /\ Len(family) \in Nat /\ Len(family) <= MaxTokens
    BY DEF StoreOK, RegistryOK
  <1>2. \A k \in 1 .. Len(family) : family[k] \in 1 .. Len(family)
    BY DEF StoreOK, RegistryOK
  <1> QED BY <1>1, <1>2, EntranceAssumption DEF Remembers, Issued

\* The shape of the file after a recovery.
LEMMA RotatedOK ==
  ASSUME StoreOK, CanIssue, NEW i \in 1 .. Len(doc)
  PROVE  LET old == doc[i].current
             r == [current |-> Next1, retired |-> Retire(doc[i].retired, old)]
         IN  /\ RegistryOK(Rotated(i, Next1), Append(family, family[old]))
             /\ ToSet(Rotated(i, Next1)) = (ToSet(doc) \ {doc[i]}) \cup {r}
             /\ Len(Append(family, family[old])) = Next1
             /\ Append(family, family[old])[Next1] = family[old]
             /\ \A k \in 1 .. Issued : Append(family, family[old])[k] = family[k]
PROOF
  <1> DEFINE old == doc[i].current
             d == RemoveAt(doc, i)
             retired == Retire(doc[i].retired, old)
             f == family[old]
  <1>1. /\ RegistryOK(doc, family) /\ doc \in Seq(Registration) /\ Len(doc) \in Nat
        /\ Len(doc) <= MaxRegistrations /\ Len(family) \in Nat
        /\ \A r, s \in ToSet(doc) : family[r.current] = family[s.current] => r = s
    BY DEF StoreOK, RegistryOK
  <1>2. doc[i] \in ToSet(doc) /\ doc[i] \in Registration BY <1>1 DEF ToSet
  <1>3. Remembers(doc[i], family) BY <1>1, <1>2 DEF RegistryOK
  <1>4. old \in 1 .. Len(family) /\ f \in 1 .. Len(family)
    BY <1>1, <1>3 DEF Remembers, RegistryOK
  <1>5. RegistryOK(d, family) /\ ToSet(d) = ToSet(doc) \ {doc[i]} /\ Len(d) = Len(doc) - 1
    BY <1>1, RemovedOK
  <1>6. /\ retired \in Seq(Nat) /\ Len(retired) <= MaxRetiredTokens
        /\ ToSet(retired) \subseteq ToSet(doc[i].retired) \cup {old}
    BY <1>2, <1>3, <1>4, RetireKeeps DEF Registration, Remembers
  <1> HIDE DEF d, retired
  <1>7. \A k \in ToSet(retired) : k \in 1 .. Len(family) /\ family[k] = f
    BY <1>3, <1>4, <1>6 DEF Remembers
  <1>8. \A s \in ToSet(d) : family[s.current] # f BY <1>1, <1>2, <1>5
  <1>9. f \in 1 .. Len(family) + 1 /\ Len(d) < MaxRegistrations /\ Len(family) < MaxTokens
    BY <1>1, <1>4, <1>5, EntranceAssumption DEF CanIssue, Issued
  <1> DEFINE r == [current |-> Len(family) + 1, retired |-> retired]
  <1>11. r = [current |-> Len(family) + 1, retired |-> retired] OBVIOUS
  <1> HIDE DEF r, f
  <1>12. Fits(d, family, f, retired) BY <1>5, <1>6, <1>7, <1>8, <1>9 DEF Fits
  <1>10. /\ RegistryOK(Append(d, r), Append(family, f))
         /\ ToSet(Append(d, r)) = ToSet(d) \cup {r}
         /\ Len(Append(family, f)) = Len(family) + 1
         /\ Append(family, f)[Len(family) + 1] = f
         /\ \A k \in 1 .. Len(family) : Append(family, f)[k] = family[k]
    BY <1>11, <1>12, GrownOK
  <1> QED BY <1>5, <1>10 DEF f, r, d, retired, Rotated, Used, Next1, Issued

\* The shape of the file after a browser has been registered anew.
LEMMA RegisteredOK ==
  ASSUME StoreOK, CanIssue
  PROVE  LET r == [current |-> Next1, retired |-> << >>]
             d == Append(WithRoom(doc), r)
         IN  /\ RegistryOK(d, Append(family, Next1))
             /\ ToSet(d) = ToSet(WithRoom(doc)) \cup {r}
             /\ ToSet(WithRoom(doc)) \subseteq ToSet(doc)
             /\ Len(Append(family, Next1)) = Next1
             /\ Append(family, Next1)[Next1] = Next1
             /\ \A k \in 1 .. Issued : Append(family, Next1)[k] = family[k]
PROOF
  <1> DEFINE d == WithRoom(doc)
  <1>1. /\ RegistryOK(doc, family) /\ doc \in Seq(Registration) /\ Len(doc) \in Nat
        /\ Distinct(doc) /\ Len(doc) <= MaxRegistrations /\ Len(family) \in Nat
    BY DEF StoreOK, RegistryOK
  <1>2. RegistryOK(d, family) /\ ToSet(d) \subseteq ToSet(doc) /\ Len(d) < MaxRegistrations
    <2>1. CASE Len(doc) >= MaxRegistrations
      <3>1. doc # << >> BY <1>1, <2>1, EntranceAssumption
      <3>2. /\ Tail(doc) \in Seq(Registration) /\ Distinct(Tail(doc))
            /\ Len(Tail(doc)) = Len(doc) - 1 /\ ToSet(Tail(doc)) \subseteq ToSet(doc)
        BY <1>1, <3>1, TailOne
      <3>3. Len(Tail(doc)) <= Len(doc) BY <1>1, <3>2
      <3>4. RegistryOK(Tail(doc), family) BY <1>1, <3>2, <3>3, FewerOK
      <3> QED BY <1>1, <2>1, <3>2, <3>4, EntranceAssumption DEF WithRoom
    <2>2. CASE ~(Len(doc) >= MaxRegistrations)
      BY <1>1, <2>2, EntranceAssumption DEF WithRoom
    <2> QED BY <2>1, <2>2
  <1> HIDE DEF d
  <1>3. \A s \in ToSet(d) : family[s.current] # Len(family) + 1
    BY <1>1, <1>2 DEF RegistryOK, Remembers
  <1>4. Len(family) < MaxTokens /\ Len(family) + 1 \in 1 .. Len(family) + 1
    BY <1>1, EntranceAssumption DEF CanIssue, Issued
  <1>5. /\ << >> \in Seq(Nat) /\ Len(<< >>) <= MaxRetiredTokens /\ ToSet(<< >>) = {}
    BY EntranceAssumption DEF ToSet
  <1> DEFINE r == [current |-> Len(family) + 1, retired |-> << >>]
  <1>7. r = [current |-> Len(family) + 1, retired |-> << >>] OBVIOUS
  <1> HIDE DEF r
  <1>8. Fits(d, family, Len(family) + 1, << >>) BY <1>2, <1>3, <1>4, <1>5 DEF Fits
  <1>6. /\ RegistryOK(Append(d, r), Append(family, Len(family) + 1))
        /\ ToSet(Append(d, r)) = ToSet(d) \cup {r}
        /\ Len(Append(family, Len(family) + 1)) = Len(family) + 1
        /\ Append(family, Len(family) + 1)[Len(family) + 1] = Len(family) + 1
        /\ \A k \in 1 .. Len(family) : Append(family, Len(family) + 1)[k] = family[k]
    BY <1>7, <1>8, GrownOK
  <1> QED BY <1>2, <1>6 DEF r, d, Next1, Issued

-----------------------------------------------------------------------------
(* The tabs *)

\* Where a tab is after a step of its own.
Shows(t, at, token, session, name, fresh, n) ==
  /\ tab'[t] = [at |-> at, token |-> token, session |-> session, name |-> name,
                fresh |-> fresh, n |-> n]
  /\ \A u \in Tabs \ {t} : tab'[u] = tab[u]
  /\ tab' \in [Tabs -> {tab'[u] : u \in Tabs}]

\* An update of a tab by a whole record, read as what the tab then shows.
LEMMA ShowsSet ==
  ASSUME NEW S, tab \in [Tabs -> S], NEW t \in Tabs, NEW x, tab' = [tab EXCEPT ![t] = x],
         NEW at, NEW token, NEW session, NEW name, NEW fresh, NEW n,
         x \in [at : {at}, token : {token}, session : {session}, name : {name},
                fresh : {fresh}, n : {n}]
  PROVE  Shows(t, at, token, session, name, fresh, n)
PROOF
  <1>1. x = [at |-> at, token |-> token, session |-> session, name |-> name, fresh |-> fresh, n |-> n]
    OBVIOUS
  <1> QED BY <1>1 DEF Shows

\* The steps change a tab in one of these ways.
LEMMA TabForms ==
  ASSUME TabsOK, NEW t \in Tabs
  PROVE  /\ \A a : Turns(t, a) =>
              Shows(t, a, tab[t].token, tab[t].session, tab[t].name, tab[t].fresh, tab[t].n)
         /\ Goes(t, Closed) => Shows(t, "closed", 0, 0, 0, FALSE, 0)
         /\ \A a, k, s : Goes(t, [Closed EXCEPT !.at = a, !.token = k, !.session = s]) =>
              Shows(t, a, k, s, 0, FALSE, 0)
         /\ \A a, s : Goes(t, [Closed EXCEPT !.at = a, !.session = s]) =>
              Shows(t, a, 0, s, 0, FALSE, 0)
         /\ \A a, k, m, n : tab' = [tab EXCEPT ![t] = [@ EXCEPT !.at = a, !.token = k, !.name = m,
                                                             !.n = n]] =>
              Shows(t, a, k, tab[t].session, m, tab[t].fresh, n)
         /\ \A a, k, m : tab' = [tab EXCEPT ![t] = [@ EXCEPT !.at = a, !.token = k, !.name = m]] =>
              Shows(t, a, k, tab[t].session, m, tab[t].fresh, tab[t].n)
         /\ \A a, k, m : tab' = [tab EXCEPT ![t] = [@ EXCEPT !.at = a, !.name = m, !.token = k]] =>
              Shows(t, a, k, tab[t].session, m, tab[t].fresh, tab[t].n)
         /\ \A a, k, n : tab' = [tab EXCEPT ![t] = [@ EXCEPT !.at = a, !.token = k, !.n = n]] =>
              Shows(t, a, k, tab[t].session, tab[t].name, tab[t].fresh, n)
         /\ \A a, s, f : tab' = [tab EXCEPT ![t].at = a, ![t].session = s, ![t].fresh = f] =>
              Shows(t, a, tab[t].token, s, tab[t].name, f, tab[t].n)
         /\ \A a, k : tab' = [tab EXCEPT ![t].at = a, ![t].token = k] =>
              Shows(t, a, k, tab[t].session, tab[t].name, tab[t].fresh, tab[t].n)
PROOF
  <1> DEFINE S == TabState(Issued, born, answers)
             y == tab[t]
  <1>1. tab \in [Tabs -> S] /\ y \in S BY DEF TabsOK
  <1>2. y \in [at : {y.at}, token : {y.token}, session : {y.session}, name : {y.name},
              fresh : {y.fresh}, n : {y.n}]
    BY <1>1 DEF TabState
  <1>3. Closed \in [at : {"closed"}, token : {0}, session : {0}, name : {0}, fresh : {FALSE}, n : {0}]
    BY DEF Closed
  <1> HIDE DEF S
  <1>4. ASSUME NEW a, Turns(t, a)
        PROVE  Shows(t, a, y.token, y.session, y.name, y.fresh, y.n)
    <2> DEFINE x == [y EXCEPT !.at = a]
    <2>1. x \in [at : {a}, token : {y.token}, session : {y.session}, name : {y.name},
               fresh : {y.fresh}, n : {y.n}]
      BY <1>2
    <2>2. tab' = [tab EXCEPT ![t] = x] BY <1>4 DEF Turns
    <2> HIDE DEF x
    <2> QED BY <1>1, <2>1, <2>2, ShowsSet
  <1>5. Goes(t, Closed) => Shows(t, "closed", 0, 0, 0, FALSE, 0)
    BY <1>1, <1>3, ShowsSet DEF Goes
  <1>6. ASSUME NEW a, NEW k, NEW s, Goes(t, [Closed EXCEPT !.at = a, !.token = k, !.session = s])
        PROVE  Shows(t, a, k, s, 0, FALSE, 0)
    <2> DEFINE x == [Closed EXCEPT !.at = a, !.token = k, !.session = s]
    <2>1. x \in [at : {a}, token : {k}, session : {s}, name : {0}, fresh : {FALSE}, n : {0}]
      BY <1>3
    <2>2. tab' = [tab EXCEPT ![t] = x] BY <1>6 DEF Goes
    <2> HIDE DEF x
    <2> QED BY <1>1, <2>1, <2>2, ShowsSet
  <1>7. ASSUME NEW a, NEW s, Goes(t, [Closed EXCEPT !.at = a, !.session = s])
        PROVE  Shows(t, a, 0, s, 0, FALSE, 0)
    <2> DEFINE x == [Closed EXCEPT !.at = a, !.session = s]
    <2>1. x \in [at : {a}, token : {0}, session : {s}, name : {0}, fresh : {FALSE}, n : {0}]
      BY <1>3
    <2>2. tab' = [tab EXCEPT ![t] = x] BY <1>7 DEF Goes
    <2> HIDE DEF x
    <2> QED BY <1>1, <2>1, <2>2, ShowsSet
  <1>8. ASSUME NEW a, NEW k, NEW m, NEW n,
               tab' = [tab EXCEPT ![t] = [@ EXCEPT !.at = a, !.token = k, !.name = m, !.n = n]]
        PROVE  Shows(t, a, k, y.session, m, y.fresh, n)
    <2> DEFINE x == [y EXCEPT !.at = a, !.token = k, !.name = m, !.n = n]
    <2>1. x \in [at : {a}, token : {k}, session : {y.session}, name : {m}, fresh : {y.fresh}, n : {n}]
      BY <1>2
    <2>2. tab' = [tab EXCEPT ![t] = x] BY <1>8
    <2> HIDE DEF x
    <2> QED BY <1>1, <2>1, <2>2, ShowsSet
  <1>9. ASSUME NEW a, NEW k, NEW m,
               \/ tab' = [tab EXCEPT ![t] = [@ EXCEPT !.at = a, !.token = k, !.name = m]]
               \/ tab' = [tab EXCEPT ![t] = [@ EXCEPT !.at = a, !.name = m, !.token = k]]
        PROVE  Shows(t, a, k, y.session, m, y.fresh, y.n)
    <2> DEFINE x == [y EXCEPT !.at = a, !.token = k, !.name = m]
               z == [y EXCEPT !.at = a, !.name = m, !.token = k]
    <2>1. x \in [at : {a}, token : {k}, session : {y.session}, name : {m}, fresh : {y.fresh}, n : {y.n}]
      BY <1>2
    <2>2. z = x BY <1>2
    <2>3. tab' = [tab EXCEPT ![t] = x] \/ tab' = [tab EXCEPT ![t] = z] BY <1>9
    <2> HIDE DEF x, z
    <2>4. tab' = [tab EXCEPT ![t] = x] BY <2>2, <2>3
    <2> QED BY <1>1, <2>1, <2>4, ShowsSet
  <1>10. ASSUME NEW a, NEW k, NEW n,
                tab' = [tab EXCEPT ![t] = [@ EXCEPT !.at = a, !.token = k, !.n = n]]
         PROVE  Shows(t, a, k, y.session, y.name, y.fresh, n)
    <2> DEFINE x == [y EXCEPT !.at = a, !.token = k, !.n = n]
    <2>1. x \in [at : {a}, token : {k}, session : {y.session}, name : {y.name}, fresh : {y.fresh},
               n : {n}]
      BY <1>2
    <2>2. tab' = [tab EXCEPT ![t] = x] BY <1>10
    <2> HIDE DEF x
    <2> QED BY <1>1, <2>1, <2>2, ShowsSet
  <1>11. ASSUME NEW a, NEW s, NEW f,
                tab' = [tab EXCEPT ![t].at = a, ![t].session = s, ![t].fresh = f]
         PROVE  Shows(t, a, y.token, s, y.name, f, y.n)
    <2> DEFINE x == [y EXCEPT !.at = a, !.session = s, !.fresh = f]
    <2>1. x \in [at : {a}, token : {y.token}, session : {s}, name : {y.name}, fresh : {f}, n : {y.n}]
      BY <1>2
    <2>2. tab' = [tab EXCEPT ![t] = x] BY <1>1, <1>11
    <2> HIDE DEF x
    <2> QED BY <1>1, <2>1, <2>2, ShowsSet
  <1>12. ASSUME NEW a, NEW k, tab' = [tab EXCEPT ![t].at = a, ![t].token = k]
         PROVE  Shows(t, a, k, y.session, y.name, y.fresh, y.n)
    <2> DEFINE x == [y EXCEPT !.at = a, !.token = k]
    <2>1. x \in [at : {a}, token : {k}, session : {y.session}, name : {y.name}, fresh : {y.fresh},
               n : {y.n}]
      BY <1>2
    <2>2. tab' = [tab EXCEPT ![t] = x] BY <1>1, <1>12
    <2> HIDE DEF x
    <2> QED BY <1>1, <2>1, <2>2, ShowsSet
  <1> QED BY <1>4, <1>5, <1>6, <1>7, <1>8, <1>9, <1>10, <1>11, <1>12

\* A tab shows nothing out of its ranges.
Proper(at, token, session, name, fresh, n, issued, known, answered) ==
  /\ at \in {"closed", "open", "recovering", "joining", "revoking", "refused", "entered", "linked",
            "registering", "signing", "leaving", "left"}
  /\ token \in 0 .. issued /\ session \in 0 .. known /\ name \in Nat /\ fresh \in BOOLEAN
  /\ n \in 0 .. answered
  /\ at \in {"recovering", "joining", "revoking"} => token # 0

\* What was issued stays issued.
Grows ==
  /\ 0 .. Issued \subseteq 0 .. Issued' /\ 0 .. born \subseteq 0 .. born'
  /\ 0 .. answers \subseteq 0 .. answers'

\* A step of a tab keeps the shapes when what the tab shows has one.
LEMMA TabStep ==
  ASSUME TabsOK, Grows, NEW t \in Tabs, NEW at, NEW token, NEW session, NEW name, NEW fresh, NEW n,
         Shows(t, at, token, session, name, fresh, n),
         Proper(at, token, session, name, fresh, n, Issued', born', answers')
  PROVE  TabsOK'
PROOF
  <1> DEFINE old == TabState(Issued, born, answers)
             new == TabState(Issued', born', answers')
  <1>1. old \subseteq new BY DEF TabState, Grows
  <1>2. tab'[t] \in new BY DEF Shows, TabState, Proper
  <1>3. \A u \in Tabs : tab'[u] \in new
    BY <1>1, <1>2 DEF TabsOK, Shows
  <1> HIDE DEF old, new
  <1>4. tab' \in [Tabs -> new] BY <1>3 DEF Shows
  <1>5. \A u \in Tabs : tab'[u].at \in {"recovering", "joining", "revoking"} => tab'[u].token # 0
    BY DEF TabsOK, Shows, Proper
  <1> QED BY <1>4, <1>5 DEF TabsOK, new

\* The same tab, with a type for each of its fields.
LEMMA TabFacts ==
  ASSUME TabsOK, NEW t \in Tabs
  PROVE  /\ tab[t].token \in 0 .. Issued /\ tab[t].session \in 0 .. born /\ tab[t].name \in Nat
         /\ tab[t].fresh \in BOOLEAN /\ tab[t].n \in 0 .. answers
         /\ t[1] \in Profiles
PROOF BY DEF TabsOK, TabState, Profiles

\* The counters are numbers, and their ranges grow with them.
LEMMA Counted ==
  ASSUME TypeInv
  PROVE  /\ Issued \in Nat /\ Issued <= MaxTokens /\ born \in Nat /\ answers \in Nat
         /\ MaxSessions \in Nat /\ MaxTokens \in Nat
         /\ 0 .. Issued \subseteq 0 .. Issued + 1 /\ 1 .. Issued \subseteq 1 .. Issued + 1
         /\ 0 .. answers \subseteq 0 .. answers + 1 /\ answers + 1 \in 0 .. answers + 1
         /\ 0 .. born \subseteq 0 .. born + 1 /\ 1 .. Issued \subseteq 1 .. MaxTokens
         /\ \A k \in 1 .. Issued : family[k] \in 1 .. Issued
PROOF
  BY EntranceAssumption DEF TypeInv, StoreOK, RegistryOK, RestOK, SessionsOK, BrowsersOK, Issued

\* A step that leaves the store alone.
LEMMA SameStore ==
  ASSUME StoreOK, UNCHANGED <<storeVars, family>>
  PROVE  StoreOK'
PROOF BY DEF StoreOK, storeVars, RegistryOK, Remembers, GraceOK, Currents

\* Steps of a page, and answers of the sessions, that touch neither the store nor the sessions.
LEMMA PageSteps ==
  ASSUME TypeInv, NEW t \in Tabs,
         Load(t) \/ Refuse(t) \/ OpenLink(t) \/ LinkUsed(t) \/ SignOut(t)
  PROVE  TypeInv'
PROOF
  <1>1. UNCHANGED <<storeVars, sessionVars, browserVars, family, ghostVars>>
    BY DEF Load, Refuse, OpenLink, LinkUsed, SignOut
  <1>2. StoreOK' BY <1>1, SameStore DEF TypeInv
  <1>3. SessionsOK' BY <1>1 DEF TypeInv, RestOK, SessionsOK, sessionVars, Issued
  <1>4. BrowsersOK' /\ UNCHANGED <<Issued, born, answers>>
    BY <1>1 DEF TypeInv, RestOK, BrowsersOK, sessionVars, browserVars, ghostVars, Issued
  <1>5. TabsOK /\ BrowsersOK BY DEF TypeInv, RestOK
  <1>6. stored[t[1]] \in 0 .. Issued /\ cookie[t[1]] \in 0 .. born BY <1>5, TabFacts DEF BrowsersOK
  <1>7. 0 \in 0 .. Issued /\ 0 \in 0 .. born /\ 0 \in 0 .. answers BY Counted
  <1> SUFFICES TabsOK' BY <1>2, <1>3, <1>4 DEF TypeInv, RestOK
  <1>8. Grows BY <1>4 DEF Grows
  <1>9. ASSUME NEW a \in {"recovering", "linked"}, a = "recovering" => stored[t[1]] # 0,
               Shows(t, a, stored[t[1]], cookie[t[1]], 0, FALSE, 0)
        PROVE  TabsOK'
    <2>1. Proper(a, stored[t[1]], cookie[t[1]], 0, FALSE, 0, Issued', born', answers')
      BY <1>4, <1>6, <1>7, <1>9 DEF Proper
    <2> QED BY <1>5, <1>8, <1>9, <2>1, TabStep
  <1>10. ASSUME NEW a, Goes(t, [Closed EXCEPT !.at = a, !.token = stored[t[1]],
                                              !.session = cookie[t[1]]])
         PROVE  Shows(t, a, stored[t[1]], cookie[t[1]], 0, FALSE, 0)
    BY <1>5, <1>10, TabForms
  <1>11. Presents(t) => Shows(t, "recovering", stored[t[1]], cookie[t[1]], 0, FALSE, 0)
    BY <1>10 DEF Presents
  <1>12. CASE Load(t)
    <2>1. Presents(t) /\ stored[t[1]] # 0 BY <1>12 DEF Load
    <2> QED BY <1>9, <1>11, <2>1
  <1>13. CASE OpenLink(t)
    <2>1. Goes(t, [Closed EXCEPT !.at = "linked", !.token = stored[t[1]], !.session = cookie[t[1]]])
      BY <1>13 DEF OpenLink
    <2>2. Shows(t, "linked", stored[t[1]], cookie[t[1]], 0, FALSE, 0) BY <1>10, <2>1
    <2> QED BY <1>9, <2>2
  <1>14. CASE LinkUsed(t)
    <2>1. CASE Goes(t, Closed)
      <3>1. Shows(t, "closed", 0, 0, 0, FALSE, 0) BY <1>5, <2>1, TabForms
      <3>2. Proper("closed", 0, 0, 0, FALSE, 0, Issued', born', answers') BY <1>4, <1>7 DEF Proper
      <3> QED BY <1>5, <1>8, <3>1, <3>2, TabStep
    <2>2. CASE Presents(t) /\ stored[t[1]] # 0 BY <1>9, <1>11, <2>2
    <2> QED BY <1>14, <2>1, <2>2 DEF LinkUsed
  <1>15. ASSUME NEW a \in {"refused", "signing"}, NEW k \in 0 .. Issued,
                Shows(t, a, k, tab[t].session, tab[t].name, tab[t].fresh, tab[t].n)
         PROVE  TabsOK'
    <2>1. Proper(a, k, tab[t].session, tab[t].name, tab[t].fresh, tab[t].n, Issued', born', answers')
      BY <1>4, <1>5, <1>15, TabFacts DEF Proper
    <2> QED BY <1>5, <1>8, <1>15, <2>1, TabStep
  <1>16. CASE Refuse(t)
    <2>1. Shows(t, "refused", tab[t].token, tab[t].session, tab[t].name, tab[t].fresh, tab[t].n)
      BY <1>5, <1>16, TabForms DEF Refuse
    <2> QED BY <1>5, <1>15, <2>1, TabFacts
  <1>17. CASE SignOut(t)
    <2>1. Shows(t, "signing", stored[t[1]], tab[t].session, tab[t].name, tab[t].fresh, tab[t].n)
      BY <1>5, <1>17, TabForms DEF SignOut
    <2> QED BY <1>6, <1>15, <2>1
  <1> QED BY <1>12, <1>13, <1>14, <1>16, <1>17

\* A step that leaves the history and the browsers alone.
LEMMA SameBrowsers ==
  ASSUME BrowsersOK, UNCHANGED <<browserVars, family, ghostVars>>, 0 .. born \subseteq 0 .. born'
  PROVE  BrowsersOK'
PROOF BY DEF BrowsersOK, browserVars, ghostVars, Issued

\* A session is entered.
LEMMA EntersStep ==
  ASSUME TypeInv, NEW t \in Tabs, NEW at \in {"entered", "registering"}, NEW s,
         Enters(t, at, s), s \in [alive : BOOLEAN, name : Nat, family : 0 .. Issued],
         link' \in BOOLEAN, UNCHANGED <<storeVars, browserVars, family, ghostVars>>
  PROVE  /\ TypeInv'
         /\ Shows(t, at, tab[t].token, SessionFor(t), tab[t].name, ~Joins(t), tab[t].n)
         /\ SessionFor(t) \in 1 .. MaxSessions
PROOF
  <1>1. SessionsOK /\ BrowsersOK /\ TabsOK /\ StoreOK BY DEF TypeInv, RestOK
  <1>2. /\ tab[t].session \in 0 .. born /\ born \in 0 .. MaxSessions /\ MaxSessions \in Nat
        /\ SessionFor(t) <= MaxSessions
    BY <1>1, TabFacts, EntranceAssumption DEF SessionsOK, Enters
  <1>3. /\ SessionFor(t) \in 1 .. MaxSessions /\ born' \in 0 .. MaxSessions
        /\ SessionFor(t) \in 0 .. born' /\ 0 .. born \subseteq 0 .. born'
    BY <1>2 DEF SessionFor, Joins, Enters
  <1>4. /\ sessions' = [sessions EXCEPT ![SessionFor(t)] = s]
        /\ tab' = [tab EXCEPT ![t].at = at, ![t].session = SessionFor(t), ![t].fresh = ~Joins(t)]
    BY DEF Enters
  <1>5. SessionsOK' BY <1>1, <1>3, <1>4 DEF SessionsOK, Issued
  <1>6. BrowsersOK' BY <1>1, <1>3, SameBrowsers
  <1>7. StoreOK' BY <1>1, SameStore
  <1>8. Shows(t, at, tab[t].token, SessionFor(t), tab[t].name, ~Joins(t), tab[t].n)
    BY <1>1, <1>4, TabForms
  <1>9. Grows /\ UNCHANGED <<Issued, answers>> BY <1>3 DEF Grows, ghostVars, Issued
  <1>10. Proper(at, tab[t].token, SessionFor(t), tab[t].name, ~Joins(t), tab[t].n,
                Issued', born', answers')
    BY <1>1, <1>3, <1>9, TabFacts DEF Proper
  <1>11. TabsOK' BY <1>1, <1>8, <1>9, <1>10, TabStep
  <1> QED BY <1>3, <1>5, <1>6, <1>7, <1>8, <1>11 DEF TypeInv, RestOK

\* Steps of the sessions.
LEMMA SessionSteps ==
  ASSUME TypeInv, NEW t \in Tabs,
         JoinOrIssue(t) \/ Bootstrap(t) \/ RevokeRegistration(t) \/ Leave(t)
  PROVE  TypeInv'
PROOF
  <1>1. SessionsOK /\ BrowsersOK /\ TabsOK /\ StoreOK BY DEF TypeInv, RestOK
  <1>2. CASE JoinOrIssue(t)
    <2> DEFINE s == [alive |-> TRUE, name |-> tab[t].name, family |-> family[tab[t].token]]
    <2>1. tab[t].token \in 1 .. Issued
      BY <1>1, <1>2, TabFacts DEF TabsOK, JoinOrIssue
    <2>2. s \in [alive : BOOLEAN, name : Nat, family : 0 .. Issued]
      BY <1>1, <2>1, TabFacts, Counted
    <2>3. /\ Enters(t, "entered", s) /\ link' \in BOOLEAN
          /\ UNCHANGED <<storeVars, browserVars, family, ghostVars>>
      BY <1>1, <1>2 DEF JoinOrIssue, SessionsOK
    <2> HIDE DEF s
    <2> QED BY <2>2, <2>3, EntersStep
  <1>3. CASE Bootstrap(t)
    <2> DEFINE s == IF Joins(t) THEN sessions[tab[t].session] ELSE [NoSession EXCEPT !.alive = TRUE]
    <2>1. tab[t].session \in 0 .. born /\ born \in 0 .. MaxSessions /\ MaxSessions \in Nat
      BY <1>1, TabFacts, EntranceAssumption DEF SessionsOK
    <2>2. Joins(t) => tab[t].session \in 1 .. MaxSessions BY <2>1 DEF Joins
    <2>3. [NoSession EXCEPT !.alive = TRUE] \in [alive : BOOLEAN, name : Nat, family : 0 .. Issued]
      <3>1. 0 \in 0 .. Issued BY Counted
      <3>2. NoSession \in [alive : BOOLEAN, name : Nat, family : 0 .. Issued] BY <3>1 DEF NoSession
      <3> QED BY <3>2
    <2>4. s \in [alive : BOOLEAN, name : Nat, family : 0 .. Issued]
      BY <1>1, <2>2, <2>3 DEF SessionsOK
    <2>5. /\ Enters(t, "registering", s) /\ link' \in BOOLEAN
          /\ UNCHANGED <<storeVars, browserVars, family, ghostVars>>
      BY <1>3 DEF Bootstrap
    <2> HIDE DEF s
    <2> QED BY <2>4, <2>5, EntersStep
  <1>4. \A name : Revoked(name) \in
           [1 .. MaxSessions -> [alive : BOOLEAN, name : Nat, family : 0 .. Issued]]
    <2>1. NoSession \in [alive : BOOLEAN, name : Nat, family : 0 .. Issued] BY Counted DEF NoSession
    <2> QED BY <1>1, <2>1 DEF Revoked, SessionsOK
  <1>5. CASE RevokeRegistration(t) \/ Leave(t)
    <2>1. UNCHANGED <<storeVars, link, born, browserVars, family, answers, adopted, lost, excused,
                      untied>>
      BY <1>5 DEF RevokeRegistration, Leave
    <2>2. UNCHANGED <<Issued, stored, cookie>> /\ Grows BY <2>1 DEF Issued, Grows, browserVars
    <2>3. sessions' \in [1 .. MaxSessions -> [alive : BOOLEAN, name : Nat, family : 0 .. Issued]]
      <3>1. NoSession \in [alive : BOOLEAN, name : Nat, family : 0 .. Issued]
        BY Counted DEF NoSession
      <3>2. sessions' = Revoked(tab[t].name)
              \/ sessions' = [Revoked(tab[t].name) EXCEPT ![tab[t].session] = NoSession]
        BY <1>5 DEF RevokeRegistration, Leave
      <3> DEFINE R == Revoked(tab[t].name)
      <3>3. R \in [1 .. MaxSessions -> [alive : BOOLEAN, name : Nat, family : 0 .. Issued]] BY <1>4
      <3>4. sessions' = R \/ sessions' = [R EXCEPT ![tab[t].session] = NoSession] BY <3>2
      <3> HIDE DEF R
      <3> QED BY <3>1, <3>3, <3>4
    <2>5. SessionsOK' BY <1>1, <2>1, <2>2, <2>3 DEF SessionsOK
    <2>6. BrowsersOK' BY <1>1, <2>1, <2>2 DEF BrowsersOK
    <2>7. StoreOK' BY <1>1, <2>1, SameStore
    <2>8. PICK a \in {"refused", "left"} : Turns(t, a) BY <1>5 DEF RevokeRegistration, Leave
    <2>9. Shows(t, a, tab[t].token, tab[t].session, tab[t].name, tab[t].fresh, tab[t].n)
      BY <1>1, <2>8, TabForms
    <2>10. Proper(a, tab[t].token, tab[t].session, tab[t].name, tab[t].fresh, tab[t].n,
                  Issued', born', answers')
      BY <1>1, <2>1, <2>2, TabFacts DEF Proper
    <2>11. TabsOK' BY <1>1, <2>2, <2>9, <2>10, TabStep
    <2> QED BY <2>5, <2>6, <2>7, <2>11 DEF TypeInv, RestOK
  <1> QED BY <1>2, <1>3, <1>5

\* Answers that arrive, or do not.
LEMMA ArrivalSteps ==
  ASSUME TypeInv, NEW t \in Tabs, Arrives(t)
  PROVE  TypeInv'
PROOF
  <1>1. SessionsOK /\ BrowsersOK /\ TabsOK /\ StoreOK BY DEF TypeInv, RestOK
  <1>2. UNCHANGED <<storeVars, sessionVars, family, answers, untied>>
    BY DEF Arrives, Adopt, Dropped, Lose, ghostVars
  <1>3. UNCHANGED <<Issued, born>> /\ Grows BY <1>2 DEF Issued, Grows, sessionVars
  <1>4. StoreOK' BY <1>1, <1>2, SameStore
  <1>5. SessionsOK' BY <1>1, <1>2, <1>3 DEF SessionsOK, sessionVars
  <1>6. /\ tab[t].token \in 0 .. Issued /\ tab[t].session \in 0 .. born
        /\ tab[t].n \in 0 .. answers /\ t[1] \in Profiles
        /\ 0 \in 0 .. Issued /\ 0 \in 0 .. born /\ 0 \in 0 .. answers /\ answers \in Nat
    BY <1>1, TabFacts, Counted
  <1>7. tab[t].token # 0 => family[tab[t].token] \in 1 .. Issued
    <2>1. \A k \in 1 .. Issued : family[k] \in 1 .. Issued BY Counted
    <2>2. Issued \in Nat BY Counted
    <2> QED BY <1>6, <2>1, <2>2
  <1>8. BrowsersOK'
    <2>1. CASE Adopt(t)
      <3>1. stored' \in [Profiles -> 0 .. Issued] /\ cookie' \in [Profiles -> 0 .. born]
        BY <1>1, <1>6, <2>1 DEF Adopt, BrowsersOK
      <3>2. adopted' \in [Profiles -> 0 .. answers] BY <1>1, <1>6, <2>1 DEF Adopt, BrowsersOK
      <3>3. excused' \subseteq 1 .. Issued BY <1>1, <1>7, <2>1 DEF Adopt, BrowsersOK
      <3> QED BY <1>1, <1>2, <1>3, <2>1, <3>1, <3>2, <3>3 DEF Adopt, BrowsersOK
    <2>2. CASE Dropped(t)
      BY <1>1, <1>2, <1>3, <1>6, <2>2 DEF Dropped, BrowsersOK, ghostVars
    <2>3. CASE Lose(t)
      <3>1. LostBy(t) \in 0 .. answers BY <1>6 DEF LostBy
      <3>2. lost' \in [Profiles -> 0 .. answers] BY <1>1, <1>6, <2>3, <3>1 DEF Lose, BrowsersOK
      <3> QED BY <1>1, <1>2, <1>3, <2>3, <3>2 DEF Lose, BrowsersOK, browserVars
    <2> QED BY <2>1, <2>2, <2>3 DEF Arrives
  <1>9. TabsOK'
    <2>1. PICK a \in {"open", "closed"}, s \in {0, tab[t].session} : Shows(t, a, 0, s, 0, FALSE, 0)
      <3>1. CASE Adopt(t) BY <1>1, <3>1, TabForms DEF Adopt
      <3>2. CASE Dropped(t) \/ Lose(t) BY <1>1, <3>2, TabForms DEF Dropped, Lose
      <3> QED BY <3>1, <3>2 DEF Arrives
    <2>2. Proper(a, 0, s, 0, FALSE, 0, Issued', born', answers') BY <1>2, <1>3, <1>6 DEF Proper
    <2> QED BY <1>1, <1>3, <2>1, <2>2, TabStep
  <1> QED BY <1>4, <1>5, <1>8, <1>9 DEF TypeInv, RestOK

\* Steps without a tab.
LEMMA SameTabs ==
  ASSUME TabsOK, UNCHANGED <<tab, family, born, answers>>
  PROVE  TabsOK'
PROOF BY DEF TabsOK, Issued

\* The families that are owed an excuse have been issued.
LEMMA OwedTokens ==
  ASSUME TypeInv, NEW old, NEW gone, 0 \notin old
  PROVE  Owed(old, gone) \subseteq 1 .. Issued
PROOF
  <1>1. \A p \in Profiles : stored[p] \in 0 .. Issued BY DEF TypeInv, RestOK, BrowsersOK
  <1>2. Issued \in Nat /\ \A k \in 1 .. Issued : family[k] \in 1 .. Issued BY Counted
  <1> QED BY <1>1, <1>2 DEF Owed

\* What the restart does to the answers under way: the latest is lost.
LEMMA GoneIsLatest ==
  ASSUME TypeInv, NEW p \in Profiles
  PROVE  LET S == {lost[p]} \cup {LostBy(t) : t \in {u \in Tabs : u[1] = p}}
         IN  /\ Max(S) \in 0 .. answers /\ Max(S) >= lost[p]
             /\ \A t \in Tabs : t[1] = p => Max(S) >= LostBy(t)
PROOF
  <1> DEFINE S == {lost[p]} \cup {LostBy(t) : t \in {u \in Tabs : u[1] = p}}
  <1>1. TabsOK /\ BrowsersOK /\ answers \in Nat BY DEF TypeInv, RestOK, BrowsersOK
  <1>2. \A t \in Tabs : LostBy(t) \in 0 .. answers BY <1>1, TabFacts DEF LostBy
  <1>3. S \in SUBSET (0 .. answers) /\ S # {} BY <1>1, <1>2 DEF BrowsersOK
  <1>4. lost[p] \in S /\ \A t \in Tabs : t[1] = p => LostBy(t) \in S OBVIOUS
  <1> HIDE DEF S
  <1>5. Max(S) \in S /\ \A x \in S : Max(S) >= x BY <1>1, <1>3, MaxOf
  <1>6. Max(S) \in 0 .. answers /\ Max(S) >= lost[p]
        /\ \A t \in Tabs : t[1] = p => Max(S) >= LostBy(t)
    BY <1>3, <1>4, <1>5
  <1> QED BY <1>6 DEF S

\* What happens around the engine, the passing of time included, keeps the shapes.
LEMMA OutsideSteps ==
  ASSUME TypeInv, Reissue \/ GraceEnds \/ SessionExpires \/ RegistrationExpires \/ Copy
  PROVE  TypeInv'
PROOF
  <1>1. SessionsOK /\ BrowsersOK /\ TabsOK /\ StoreOK BY DEF TypeInv, RestOK
  <1>2. /\ UNCHANGED <<tab, family, born, answers, adopted, lost, untied, cookie, named>>
        /\ UNCHANGED Issued
    BY DEF Reissue, GraceEnds, SessionExpires, RegistrationExpires, Copy, storeVars, sessionVars,
       browserVars, ghostVars, Issued
  <1>3. TabsOK' BY <1>1, <1>2, SameTabs
  <1>4. SessionsOK'
    <2>1. CASE SessionExpires
      <3>1. NoSession \in [alive : BOOLEAN, name : Nat, family : 0 .. Issued]
        BY Counted DEF NoSession
      <3> QED BY <1>1, <1>2, <2>1, <3>1 DEF SessionExpires, SessionsOK
    <2>2. CASE ~SessionExpires
      BY <1>1, <1>2, <2>2 DEF Reissue, GraceEnds, RegistrationExpires, Copy, sessionVars, SessionsOK
    <2> QED BY <2>1, <2>2
  <1>5. BrowsersOK'
    <2>1. CASE GraceEnds
      <3>1. PICK e \in grace : excused' = excused \cup Owed({e.old}, lost) BY <2>1 DEF GraceEnds
      <3>2. 0 \notin {e.old} BY <1>1, Counted DEF StoreOK, GraceOK
      <3>3. excused' \subseteq 1 .. Issued BY <1>1, <3>1, <3>2, OwedTokens DEF BrowsersOK
      <3> QED BY <1>1, <1>2, <2>1, <3>3 DEF GraceEnds, BrowsersOK, browserVars
    <2>2. CASE Copy
      <3>1. PICK p \in Profiles, q \in Profiles :
               /\ stored[p] # 0 /\ stored' = [stored EXCEPT ![q] = stored[p]]
               /\ excused' = excused \cup {family[stored[p]]}
        BY <2>2 DEF Copy
      <3>2. stored[p] \in 1 .. Issued BY <1>1, <3>1, Counted DEF BrowsersOK
      <3>3. family[stored[p]] \in 1 .. Issued BY <3>2, Counted
      <3> QED BY <1>1, <1>2, <3>1, <3>2, <3>3 DEF BrowsersOK
    <2>3. CASE ~GraceEnds /\ ~Copy
      BY <1>1, <1>2, <2>3 DEF Reissue, SessionExpires, RegistrationExpires, browserVars, ghostVars,
         BrowsersOK
    <2> QED BY <2>1, <2>2, <2>3
  <1>6. StoreOK'
    <2>1. CASE Reissue \/ SessionExpires \/ Copy
      <3>1. UNCHANGED <<storeVars, family>>
        BY <2>1 DEF Reissue, SessionExpires, Copy
      <3> QED BY <1>1, <3>1, SameStore
    <2>2. CASE GraceEnds
      <3>1. UNCHANGED <<doc, names, named, family>> /\ grace' \subseteq grace BY <2>2 DEF GraceEnds
      <3>2. \A e \in grace' : e.token \in Currents(doc') BY <1>1, <3>1 DEF StoreOK, GraceOK
      <3> QED BY <1>1, <3>1, <3>2, FewerStore DEF StoreOK
    <2>3. CASE RegistrationExpires
      <3>1. doc # << >> /\ doc' = Tail(doc) /\ Prune(doc', grace, names) BY <2>3 DEF RegistrationExpires
      <3>2. doc \in Seq(Registration) /\ Distinct(doc) /\ RegistryOK(doc, family)
        BY <1>1 DEF StoreOK, RegistryOK
      <3>3. /\ Tail(doc) \in Seq(Registration) /\ Distinct(Tail(doc)) /\ Len(doc) \in Nat
            /\ Len(Tail(doc)) = Len(doc) - 1 /\ ToSet(Tail(doc)) \subseteq ToSet(doc)
        BY <3>1, <3>2, TailOne
      <3>4. Len(Tail(doc)) <= Len(doc) BY <3>3
      <3>5. RegistryOK(doc', family) BY <3>1, <3>2, <3>3, <3>4, FewerOK
      <3>6. names \in [1 .. MaxTokens -> 0 .. named] /\ 0 \in 0 .. named /\ named \in Nat
        BY <1>1 DEF StoreOK
      <3>7. /\ grace' \subseteq grace /\ \A e \in grace : e \in grace' <=> e.token \in Currents(doc')
            /\ names' \in [1 .. MaxTokens -> 0 .. named]
        BY <3>1, <3>6, PruneFacts
      <3> QED BY <1>1, <1>2, <3>5, <3>6, <3>7, FewerStore
    <2> QED BY <2>1, <2>2, <2>3
  <1> QED BY <1>3, <1>4, <1>5, <1>6 DEF TypeInv, RestOK

\* So does a restart of the engine: the document stays, the memory does not.
LEMMA RestartStep ==
  ASSUME TypeInv, NEW moved \in BOOLEAN, Restart(moved)
  PROVE  TypeInv'
PROOF
  <1>1. SessionsOK /\ BrowsersOK /\ TabsOK /\ StoreOK BY DEF TypeInv, RestOK
  <1>2. UNCHANGED <<cookie, family, born, answers, adopted, untied>> /\ UNCHANGED Issued
    BY DEF Restart, Issued
  <1>3. StoreOK'
    <2>1. RegistryOK(doc', family)
      <3>1. CASE moved
        <4>1. doc' = << >> /\ << >> \in Seq(Registration) /\ Distinct(<< >>) /\ Len(<< >>) = 0
              /\ ToSet(<< >>) = {}
          BY <3>1 DEF Restart, Distinct, ToSet
        <4> QED BY <1>1, <4>1, EntranceAssumption DEF StoreOK, RegistryOK
      <3>2. CASE ~moved BY <1>1, <3>2 DEF Restart, StoreOK
      <3> QED BY <3>1, <3>2
    <2>2. grace' = {} /\ named' = 0 /\ names' = [k \in 1 .. MaxTokens |-> 0]
      BY <1>1 DEF Restart, StoreOK
    <2>3. named' \in Nat /\ names' \in [1 .. MaxTokens -> 0 .. named'] BY <2>2
    <2> QED BY <1>1, <1>2, <2>1, <2>2, <2>3, FewerStore
  <1>4. SessionsOK'
    <2>1. NoSession \in [alive : BOOLEAN, name : Nat, family : 0 .. Issued]
      BY Counted DEF NoSession
    <2>2. sessions' = [s \in 1 .. MaxSessions |-> NoSession] /\ link' = TRUE
      BY <1>1 DEF Restart, SessionsOK
    <2> QED BY <1>1, <1>2, <2>1, <2>2 DEF SessionsOK
  <1>5. BrowsersOK'
    <2>1. lost' \in [Profiles -> 0 .. answers]
      BY GoneIsLatest DEF Restart
    <2>2. excused' = excused \cup Owed(1 .. MaxTokens, lost') BY DEF Restart
    <2>3. excused' \subseteq 1 .. Issued
      <3>1. 0 \notin 1 .. MaxTokens OBVIOUS
      <3>2. Owed(1 .. MaxTokens, lost') \subseteq 1 .. Issued BY <3>1, OwedTokens
      <3> QED BY <1>1, <2>2, <3>2 DEF BrowsersOK
    <2>4. stored' \in [Profiles -> 0 .. Issued] BY <1>1, Counted DEF Restart, BrowsersOK
    <2> QED BY <1>1, <1>2, <2>1, <2>3, <2>4 DEF BrowsersOK
  <1>6. TabsOK'
    <2>1. tab' = [t \in Tabs |-> IF tab[t].at = "open" THEN tab[t] ELSE Closed] BY DEF Restart
    <2>2. Closed \in TabState(Issued, born, answers) /\ Closed.at = "closed"
      <3>1. 0 \in 0 .. Issued /\ 0 \in 0 .. born /\ 0 \in 0 .. answers BY Counted
      <3> QED BY <3>1 DEF Closed, TabState
    <2> HIDE DEF TabState
    <2>3. \A t \in Tabs : tab[t] \in TabState(Issued, born, answers) BY <1>1 DEF TabsOK
    <2>4. tab' \in [Tabs -> TabState(Issued, born, answers)] BY <2>1, <2>2, <2>3
    <2>5. \A t \in Tabs : tab'[t].at \in {"open", "closed"} BY <2>1, <2>2
    <2> QED BY <1>2, <2>4, <2>5 DEF TabsOK
  <1> QED BY <1>3, <1>4, <1>5, <1>6 DEF TypeInv, RestOK

-----------------------------------------------------------------------------
(* What the store does *)

\* Registration r has its token replaced by the next one.
Rotates(r, d, fam) ==
  /\ \E retired : ToSet(d) = (ToSet(doc) \ {r}) \cup {[current |-> Next1, retired |-> retired]}
  /\ RegistryOK(d, fam) /\ Len(fam) = Next1 /\ fam[Next1] = family[r.current]
  /\ \A k \in 1 .. Issued : fam[k] = family[k]

\* Recover, when the write succeeds, and when it is reported as failed.
LEMMA RecoverFacts ==
  ASSUME TypeInv, NEW t \in Tabs, Recover(t)
  PROVE  \E r \in ToSet(doc) :
           /\ r.current = tab[t].token /\ Next1 \in 1 .. MaxTokens
           /\ UNCHANGED <<sessionVars, browserVars, adopted, lost>>
           /\ \/ /\ Rotates(r, doc', family')
                 /\ Prune(doc', RotateCachedTokens(r.current, Next1), RotateName(r.current, Next1))
                 /\ named' = NamedAfter(r.current) /\ answers' = answers + 1
                 /\ Shows(t, "joining", Next1, tab[t].session, NameOf(r.current), tab[t].fresh,
                          answers + 1)
                 /\ UNCHANGED <<excused, untied>>
              \/ /\ doc' = doc /\ UNCHANGED <<family, excused, untied, answers, named>>
                 /\ Prune(doc, grace, names) /\ Shows(t, "closed", 0, 0, 0, FALSE, 0)
              \/ /\ Rotates(r, doc', family')
                 /\ excused' = excused \cup {family[r.current]}
                 /\ untied' = untied \cup {family[r.current]}
                 /\ Prune(doc', grace, names) /\ Shows(t, "closed", 0, 0, 0, FALSE, 0)
                 /\ UNCHANGED <<answers, named>>
PROOF
  <1> DEFINE old == tab[t].token
             i == CurrentAt(old)
             r == doc[i]
  <1>1. StoreOK /\ TabsOK /\ doc \in Seq(Registration)
    BY DEF TypeInv, RestOK, StoreOK, RegistryOK
  <1>2. i # 0 /\ CanIssue BY DEF Recover
  <1>3. i \in 1 .. Len(doc) /\ r.current = old /\ r \in ToSet(doc)
    BY <1>1, <1>2, CurrentAtFinds DEF ToSet
  <1>4. Next1 \in 1 .. MaxTokens BY <1>2, Counted DEF CanIssue, Next1
  <1>5. Rotates(r, Rotated(i, Next1), Append(family, family[old]))
    BY <1>1, <1>2, <1>3, RotatedOK DEF Rotates
  <1>6. UNCHANGED <<sessionVars, browserVars, adopted, lost>> BY DEF Recover
  <1>7. CASE Saves(Rotated(i, Next1)) /\ family' = Append(family, family[old])
               /\ Prune(doc', RotateCachedTokens(old, Next1), RotateName(old, Next1))
               /\ named' = NamedAfter(old) /\ Accepted(t, Next1, NameOf(old))
               /\ UNCHANGED <<excused, untied>>
    <2>1. Shows(t, "joining", Next1, tab[t].session, NameOf(old), tab[t].fresh, answers + 1)
          /\ answers' = answers + 1
      BY <1>1, <1>7, TabForms DEF Accepted
    <2>2. Rotates(r, doc', family') BY <1>5, <1>7 DEF Saves
    <2> QED BY <1>3, <1>4, <1>6, <1>7, <2>1, <2>2
  <1>8. CASE /\ SavesNot(Rotated(i, Next1))
             /\ family' = IF doc' = doc THEN family ELSE Append(family, family[old])
             /\ excused' = IF doc' = doc THEN excused ELSE excused \cup {family[old]}
             /\ untied' = IF doc' = doc THEN untied ELSE untied \cup {family[old]}
             /\ Prune(doc', grace, names) /\ Goes(t, Closed) /\ UNCHANGED <<named, answers>>
    <2>1. Shows(t, "closed", 0, 0, 0, FALSE, 0) BY <1>1, <1>8, TabForms
    <2>2. CASE doc' = doc BY <1>3, <1>4, <1>6, <1>8, <2>1, <2>2
    <2>3. CASE doc' # doc
      <3>1. doc' = Rotated(i, Next1) BY <1>8, <2>3 DEF SavesNot
      <3>2. Rotates(r, doc', family') BY <1>5, <1>8, <2>3, <3>1
      <3> QED BY <1>3, <1>4, <1>6, <1>8, <2>1, <2>3, <3>2
    <2> QED BY <2>2, <2>3
  <1> QED BY <1>7, <1>8 DEF Recover

\* Some registrations go, with all that is in memory for them.
Drops(gone) ==
  /\ ToSet(doc') = ToSet(doc) \ gone /\ RegistryOK(doc', family) /\ UNCHANGED family
  /\ Prune(doc', grace, names)

\* A save without one registration drops that one ...
LEMMA RemovedFacts ==
  ASSUME TypeInv, NEW i \in 1 .. Len(doc), doc' = RemoveAt(doc, i), UNCHANGED family,
         Prune(doc', grace, names)
  PROVE  Drops({doc[i]}) /\ doc[i] \in ToSet(doc)
PROOF
  <1>1. RegistryOK(doc, family) /\ DOMAIN doc = 1 .. Len(doc)
    BY DEF TypeInv, StoreOK, RegistryOK
  <1>2. RegistryOK(RemoveAt(doc, i), family) /\ ToSet(RemoveAt(doc, i)) = ToSet(doc) \ {doc[i]}
    BY <1>1, RemovedOK
  <1> QED BY <1>1, <1>2 DEF Drops, ToSet

\* ... and a save that failed, or had nothing to do, drops none.
LEMMA NoneGo ==
  ASSUME TypeInv, doc' = doc, UNCHANGED family, Prune(doc', grace, names)
  PROVE  Drops({})
PROOF BY DEF Drops, TypeInv, StoreOK

\* The registrations that go are counted among those that may leave a session behind.
Unties ==
  /\ untied \subseteq untied' /\ untied' \subseteq 1 .. Issued
  /\ \A r \in ToSet(doc) : r \in ToSet(doc') \/ family[r.current] \in untied'

\* They are, when no registration of the file changes, but for one that may be new.
LEMMA GoneUnties ==
  ASSUME TypeInv, \A q \in ToSet(doc') : q \in ToSet(doc) \/ q.current = Next1,
         untied' = untied \cup Gone
  PROVE  Unties
PROOF
  <1>1. RegistryOK(doc, family) /\ untied \subseteq 1 .. Issued
    BY DEF TypeInv, RestOK, StoreOK, BrowsersOK
  <1>2. Issued \in Nat /\ \A k \in 1 .. Issued : family[k] \in 1 .. Issued BY Counted
  <1>3. \A r \in ToSet(doc) : r.current \in 1 .. Issued BY TokenFacts DEF TypeInv
  <1>4. Gone \subseteq 1 .. Issued
    <2>1. \A k \in Currents(doc) : k \in 1 .. Issued BY <1>3, CurrentsOf
    <2> QED BY <1>2, <2>1 DEF Gone
  <1>5. ASSUME NEW r \in ToSet(doc), r \notin ToSet(doc')
        PROVE  family[r.current] \in untied'
    <2>1. r.current \in Currents(doc) BY CurrentsOf
    <2>2. r.current \notin Currents(doc')
      <3> SUFFICES ASSUME NEW q \in ToSet(doc'), q.current = r.current PROVE FALSE
        BY CurrentsOf
      <3>1. CASE q \in ToSet(doc) BY <1>1, <1>5, <3>1 DEF RegistryOK
      <3>2. CASE q.current = Next1
        <4>1. r.current \in 1 .. Issued BY <1>3
        <4>2. r.current = Issued + 1 BY <3>2 DEF Next1
        <4> QED BY <1>2, <4>1, <4>2
      <3> QED BY <3>1, <3>2
    <2> QED BY <2>1, <2>2 DEF Gone
  <1> QED BY <1>1, <1>4, <1>5 DEF Unties

\* Store.Recover, with a retired token.
LEMMA TakenFacts ==
  ASSUME TypeInv, NEW t \in Tabs, TakenForCopy(t)
  PROVE  /\ UNCHANGED <<sessionVars, browserVars, family, answers, adopted, lost, excused>>
         /\ \E r \in ToSet(doc) :
              /\ tab[t].token \in ToSet(r.retired)
              /\ CurrentAt(tab[t].token) = 0 /\ Recent(tab[t].token) = {}
              /\ \/ /\ Drops({r}) /\ named' = NamedAfter(r.current)
                    /\ Shows(t, "revoking", r.current, tab[t].session, NameOf(r.current),
                             tab[t].fresh, tab[t].n)
                    /\ untied' = untied \cup Crosses(family[tab[t].token])
                 \/ /\ Drops({r}) \/ Drops({})
                    /\ Shows(t, "closed", 0, 0, 0, FALSE, 0) /\ UNCHANGED named /\ Unties
PROOF
  <1> DEFINE i == RetiredAt(tab[t].token)
             r == doc[i]
  <1>1. StoreOK /\ TabsOK /\ doc \in Seq(Registration)
    BY DEF TypeInv, RestOK, StoreOK, RegistryOK
  <1>2. i \in 1 .. Len(doc) /\ tab[t].token \in ToSet(r.retired)
    BY <1>1, RetiredAtFinds DEF TakenForCopy
  <1>3. r \in ToSet(doc) BY <1>1, <1>2 DEF ToSet
  <1>4. /\ UNCHANGED <<sessionVars, browserVars, family, answers, adopted, lost, excused>>
        /\ CurrentAt(tab[t].token) = 0 /\ Recent(tab[t].token) = {} /\ Prune(doc', grace, names)
    BY DEF TakenForCopy
  <1>5. doc' = RemoveAt(doc, i) => Drops({r}) BY <1>2, <1>4, RemovedFacts
  <1>6. doc' = doc => Drops({}) BY <1>4, NoneGo
  <1> HIDE DEF i, r
  <1>7. \/ /\ Saves(RemoveAt(doc, i))
           /\ tab' = [tab EXCEPT ![t] = [@ EXCEPT !.at = "revoking", !.token = r.current,
                                                  !.name = NameOf(r.current)]]
           /\ named' = NamedAfter(r.current)
           /\ untied' = untied \cup Crosses(family[tab[t].token])
        \/ /\ SavesNot(RemoveAt(doc, i)) /\ Goes(t, Closed)
           /\ untied' = untied \cup Gone /\ UNCHANGED named
    BY DEF TakenForCopy, i, r
  <1>8. CASE /\ Saves(RemoveAt(doc, i))
             /\ tab' = [tab EXCEPT ![t] = [@ EXCEPT !.at = "revoking", !.token = r.current,
                                                    !.name = NameOf(r.current)]]
             /\ named' = NamedAfter(r.current)
             /\ untied' = untied \cup Crosses(family[tab[t].token])
    <2>1. Shows(t, "revoking", r.current, tab[t].session, NameOf(r.current), tab[t].fresh, tab[t].n)
      BY <1>1, <1>8, TabForms
    <2>2. Drops({r}) BY <1>5, <1>8 DEF Saves
    <2> QED BY <1>2, <1>3, <1>4, <1>8, <2>1, <2>2
  <1>9. CASE /\ SavesNot(RemoveAt(doc, i)) /\ Goes(t, Closed)
             /\ untied' = untied \cup Gone /\ UNCHANGED named
    <2>1. Shows(t, "closed", 0, 0, 0, FALSE, 0) BY <1>1, <1>9, TabForms
    <2>2. Drops({r}) \/ Drops({}) BY <1>5, <1>6, <1>9 DEF SavesNot
    <2>3. \A q \in ToSet(doc') : q \in ToSet(doc) BY <2>2 DEF Drops
    <2>4. Unties BY <1>9, <2>3, GoneUnties
    <2> QED BY <1>2, <1>3, <1>4, <1>9, <2>1, <2>2, <2>4
  <1> QED BY <1>7, <1>8, <1>9

\* Store.Recover, within the grace of a token.
LEMMA GraceFacts ==
  ASSUME TypeInv, NEW t \in Tabs, RecoverInGrace(t)
  PROVE  /\ UNCHANGED <<doc, grace, sessionVars, browserVars, family, adopted, lost, excused,
                        untied>>
         /\ answers' = answers + 1
         /\ \E r \in ToSet(doc), e \in grace :
              /\ e.token = r.current /\ e.old = tab[t].token /\ family[e.old] = family[r.current]
              /\ names' = [names EXCEPT ![r.current] = NameOf(r.current)]
              /\ named' = NamedAfter(r.current)
              /\ Shows(t, "joining", r.current, tab[t].session, NameOf(r.current), tab[t].fresh,
                       answers + 1)
PROOF
  <1>1. StoreOK /\ TabsOK BY DEF TypeInv, RestOK
  <1>2. PICK e \in Recent(tab[t].token) :
          /\ Accepted(t, e.token, NameOf(e.token))
          /\ names' = [names EXCEPT ![e.token] = NameOf(e.token)]
          /\ named' = NamedAfter(e.token)
    BY DEF RecoverInGrace
  <1>3. e \in grace /\ e.old = tab[t].token BY DEF Recent
  <1>4. e.token \in Currents(doc) /\ family[e.old] = family[e.token]
    BY <1>1, <1>3 DEF StoreOK, GraceOK
  <1>5. PICK r \in ToSet(doc) : r.current = e.token BY <1>4, CurrentsOf
  <1>6. Shows(t, "joining", e.token, tab[t].session, NameOf(e.token), tab[t].fresh, answers + 1)
        /\ answers' = answers + 1
    BY <1>1, <1>2, TabForms DEF Accepted
  <1> QED BY <1>2, <1>3, <1>4, <1>5, <1>6 DEF RecoverInGrace

\* A registration is added, and one may make room for it.
Adds ==
  /\ \E kept \in SUBSET ToSet(doc) :
        ToSet(doc') = kept \cup {[current |-> Next1, retired |-> << >>]}
  /\ RegistryOK(doc', family') /\ Len(family') = Next1 /\ family'[Next1] = Next1
  /\ \A k \in 1 .. Issued : family'[k] = family[k]
  /\ Prune(doc', grace, names) /\ Next1 \in 1 .. MaxTokens

\* A registration that has been used is as it was.
LEMMA UsedFacts ==
  ASSUME TypeInv, NEW i \in 1 .. Len(doc), doc' = Used(doc, i, doc[i]), UNCHANGED family,
         Prune(doc', grace, names)
  PROVE  Drops({})
PROOF
  <1>1. RegistryOK(doc, family) /\ doc \in Seq(Registration) /\ Distinct(doc)
        /\ Len(doc) \in Nat /\ DOMAIN doc = 1 .. Len(doc)
    BY DEF TypeInv, StoreOK, RegistryOK
  <1> DEFINE d == RemoveAt(doc, i)
  <1>2. /\ d \in Seq(Registration) /\ Distinct(d) /\ Len(d) = Len(doc) - 1
        /\ ToSet(d) = ToSet(doc) \ {doc[i]}
    BY <1>1, RemoveOne
  <1>3. doc' = Append(d, doc[i]) BY DEF Used
  <1>4. doc[i] \in ToSet(doc) /\ doc[i] \in Registration BY <1>1 DEF ToSet
  <1> HIDE DEF d
  <1>5. /\ doc' \in Seq(Registration) /\ Distinct(doc') /\ Len(doc') = Len(d) + 1
        /\ ToSet(doc') = ToSet(d) \cup {doc[i]}
    BY <1>2, <1>3, <1>4, AppendOne
  <1>6. ToSet(doc') = ToSet(doc) /\ Len(doc') <= Len(doc) BY <1>1, <1>2, <1>4, <1>5
  <1>7. RegistryOK(doc', family) BY <1>1, <1>5, <1>6, FewerOK
  <1> QED BY <1>6, <1>7 DEF Drops

\* Store.Register.
LEMMA RegisterFacts ==
  ASSUME TypeInv, NEW t \in Tabs, Register(t)
  PROVE  /\ UNCHANGED <<named, link, born, browserVars, adopted, lost, excused>> /\ Unties
         /\ \/ /\ Drops({}) /\ answers' = answers + 1 /\ UNCHANGED sessions
               /\ Shows(t, "entered", 0, tab[t].session, tab[t].name, tab[t].fresh, answers + 1)
            \/ /\ Adds /\ answers' = answers + 1 /\ UNCHANGED sessions
               /\ Shows(t, "entered", Next1, tab[t].session, tab[t].name, tab[t].fresh, answers + 1)
            \/ /\ Drops({}) \/ Adds
               /\ UNCHANGED answers /\ Shows(t, "closed", 0, 0, 0, FALSE, 0)
               /\ \/ UNCHANGED sessions
                  \/ sessions' = [sessions EXCEPT ![tab[t].session] = NoSession]
PROOF
  <1> DEFINE i == CurrentAt(tab[t].token)
             token == IF i # 0 THEN 0 ELSE Next1
             d == IF i # 0 THEN Used(doc, i, doc[i])
                  ELSE Append(WithRoom(doc), [current |-> token, retired |-> << >>])
  <1>1. StoreOK /\ TabsOK /\ doc \in Seq(Registration)
    BY DEF TypeInv, RestOK, StoreOK, RegistryOK
  <1>2. /\ UNCHANGED <<named, link, born, browserVars, adopted, lost, excused>>
        /\ untied' = untied \cup Gone
        /\ Prune(doc', grace, names) /\ (i = 0 => CanIssue)
        /\ family' = IF token # 0 /\ token \in Currents(doc') THEN Append(family, token) ELSE family
    BY DEF Register
  <1>3. \/ /\ Saves(d) /\ answers' = answers + 1 /\ UNCHANGED sessions
           /\ tab' = [tab EXCEPT ![t] = [@ EXCEPT !.at = "entered", !.token = token,
                                                  !.n = answers + 1]]
        \/ /\ SavesNot(d) /\ Goes(t, Closed) /\ UNCHANGED answers
           /\ \/ UNCHANGED sessions
              \/ sessions' = [sessions EXCEPT ![tab[t].session] = NoSession]
    BY DEF Register
  <1>4. i # 0 /\ doc' = d => Drops({})
    <2> SUFFICES ASSUME i # 0, doc' = d PROVE Drops({}) OBVIOUS
    <2>1. i \in 1 .. Len(doc) BY <1>1, CurrentAtFinds
    <2>2. doc' = Used(doc, i, doc[i]) /\ UNCHANGED family BY <1>2
    <2> HIDE DEF i
    <2> QED BY <1>2, <2>1, <2>2, UsedFacts
  <1>5. i = 0 /\ doc' = d => Adds
    <2> SUFFICES ASSUME i = 0, doc' = d PROVE Adds OBVIOUS
    <2>1. CanIssue /\ token = Next1 /\ Next1 \in 1 .. MaxTokens
      BY <1>2, Counted DEF CanIssue, Next1
    <2>2. doc' = Append(WithRoom(doc), [current |-> Next1, retired |-> << >>]) OBVIOUS
    <2>3. /\ RegistryOK(doc', Append(family, Next1))
          /\ ToSet(doc') = ToSet(WithRoom(doc)) \cup {[current |-> Next1, retired |-> << >>]}
          /\ ToSet(WithRoom(doc)) \subseteq ToSet(doc)
          /\ Len(Append(family, Next1)) = Next1
          /\ Append(family, Next1)[Next1] = Next1
          /\ \A k \in 1 .. Issued : Append(family, Next1)[k] = family[k]
      BY <1>1, <2>1, <2>2, RegisteredOK
    <2>4. Next1 \in Currents(doc') BY <2>3, CurrentsOf
    <2>5. family' = Append(family, Next1) BY <1>2, <2>1, <2>4
    <2> QED BY <1>2, <2>1, <2>3, <2>5 DEF Adds
  <1>6. doc' = doc => Drops({})
    <2> SUFFICES ASSUME doc' = doc PROVE Drops({}) OBVIOUS
    <2>1. Next1 \notin Currents(doc)
      <3>1. \A r \in ToSet(doc) : r.current \in 1 .. Issued BY <1>1, TokenFacts
      <3>2. Issued \in Nat BY Counted
      <3> QED BY <3>1, <3>2, CurrentsOf DEF Next1
    <2>2. UNCHANGED family BY <1>2, <2>1
    <2> QED BY <1>2, <2>2, NoneGo
  <1> HIDE DEF i, d
  <1>0. Drops({}) \/ Adds => Unties
    <2>1. Drops({}) \/ Adds => \A q \in ToSet(doc') : q \in ToSet(doc) \/ q.current = Next1
      BY DEF Drops, Adds
    <2> QED BY <1>2, <2>1, GoneUnties
  <1>7. CASE /\ Saves(d) /\ answers' = answers + 1 /\ UNCHANGED sessions
             /\ tab' = [tab EXCEPT ![t] = [@ EXCEPT !.at = "entered", !.token = token,
                                                    !.n = answers + 1]]
    <2>1. Shows(t, "entered", token, tab[t].session, tab[t].name, tab[t].fresh, answers + 1)
      BY <1>1, <1>7, TabForms
    <2> QED BY <1>0, <1>2, <1>4, <1>5, <1>7, <2>1 DEF Saves
  <1>8. CASE /\ SavesNot(d) /\ Goes(t, Closed) /\ UNCHANGED answers
             /\ \/ UNCHANGED sessions
                \/ sessions' = [sessions EXCEPT ![tab[t].session] = NoSession]
    <2>1. Shows(t, "closed", 0, 0, 0, FALSE, 0) BY <1>1, <1>8, TabForms
    <2>2. Drops({}) \/ Adds BY <1>4, <1>5, <1>6, <1>8 DEF SavesNot
    <2> QED BY <1>0, <1>2, <1>8, <2>1, <2>2
  <1> QED BY <1>3, <1>7, <1>8

\* Store.Forget finds the registration a token belongs to.
LEMMA FoundAtFinds ==
  ASSUME TypeInv, NEW token \in 0 .. Issued, FoundAt(token) # 0
  PROVE  /\ FoundAt(token) \in 1 .. Len(doc)
         /\ family[token] = family[doc[FoundAt(token)].current]
PROOF
  <1>1. /\ StoreOK /\ doc \in Seq(Registration) /\ Len(doc) \in Nat
        /\ \A r \in ToSet(doc) : Remembers(r, family)
    BY DEF TypeInv, StoreOK, RegistryOK
  <1>2. CASE CurrentAt(token) # 0
    <2>1. FoundAt(token) = CurrentAt(token) BY <1>2 DEF FoundAt
    <2> QED BY <1>1, <1>2, <2>1, CurrentAtFinds
  <1>3. CASE CurrentAt(token) = 0 /\ RetiredAt(token) # 0
    <2>1. FoundAt(token) = RetiredAt(token) BY <1>3 DEF FoundAt
    <2>2. /\ RetiredAt(token) \in 1 .. Len(doc)
          /\ token \in ToSet(doc[RetiredAt(token)].retired)
      BY <1>1, <1>3, RetiredAtFinds
    <2>3. doc[RetiredAt(token)] \in ToSet(doc) BY <1>1, <2>2 DEF ToSet
    <2> QED BY <1>1, <2>1, <2>2, <2>3 DEF Remembers
  <1>4. CASE CurrentAt(token) = 0 /\ RetiredAt(token) = 0 /\ Recent(token) # {}
    <2> DEFINE e == CHOOSE e \in Recent(token) : TRUE
    <2>1. FoundAt(token) = CurrentAt(e.token) BY <1>4 DEF FoundAt
    <2>2. e \in Recent(token) BY <1>4
    <2> HIDE DEF e
    <2>3. e \in grace /\ e.old = token BY <2>2 DEF Recent
    <2>4. family[token] = family[e.token] /\ e.token \in Currents(doc)
      BY <1>1, <2>3 DEF StoreOK, GraceOK
    <2> QED BY <1>1, <2>1, <2>4, CurrentAtFinds
  <1>5. CASE CurrentAt(token) = 0 /\ RetiredAt(token) = 0 /\ Recent(token) = {}
    BY <1>5 DEF FoundAt
  <1> QED BY <1>2, <1>3, <1>4, <1>5

\* What Forget does: the registration it finds, if any, goes with its tokens.
LEMMA ForgetFacts ==
  ASSUME TypeInv, NEW t \in Tabs, Forget(t)
  PROVE  /\ UNCHANGED <<sessionVars, browserVars, family, answers, adopted, lost, excused>>
         /\ \/ /\ Drops({}) /\ UNCHANGED <<named, untied>>
               /\ Shows(t, "leaving", 0, tab[t].session, 0, tab[t].fresh, tab[t].n)
            \/ \E r \in ToSet(doc) :
                 /\ Drops({r}) /\ named' = NamedAfter(r.current)
                 /\ Shows(t, "leaving", r.current, tab[t].session, NameOf(r.current),
                          tab[t].fresh, tab[t].n)
                 /\ untied' = untied \cup Crosses(family[r.current])
            \/ /\ Drops({}) \/ \E r \in ToSet(doc) : Drops({r})
               /\ Shows(t, "open", tab[t].token, tab[t].session, tab[t].name, tab[t].fresh,
                        tab[t].n)
               /\ UNCHANGED named /\ Unties
PROOF
  <1> DEFINE i == FoundAt(tab[t].token)
             r == doc[i]
             Leaving(name, current) ==
               tab' = [tab EXCEPT ![t] = [@ EXCEPT !.at = "leaving", !.name = name,
                                                   !.token = current]]
  <1>1. TabsOK /\ tab[t].token \in 0 .. Issued BY TabFacts DEF TypeInv, RestOK
  <1>2. /\ UNCHANGED <<sessionVars, browserVars, family, answers, adopted, lost, excused>>
        /\ Prune(doc', grace, names)
    BY DEF Forget
  <1>3. i # 0 => i \in 1 .. Len(doc) /\ family[tab[t].token] = family[r.current]
    BY <1>1, FoundAtFinds
  <1>4. \/ i = 0 /\ Leaving(0, 0) /\ UNCHANGED <<doc, named, untied, left>>
        \/ /\ i # 0 /\ Saves(RemoveAt(doc, i)) /\ Leaving(NameOf(r.current), r.current)
           /\ named' = NamedAfter(r.current)
           /\ untied' = untied \cup Crosses(family[tab[t].token])
        \/ /\ i # 0 /\ SavesNot(RemoveAt(doc, i)) /\ Turns(t, "open")
           /\ untied' = untied \cup Gone /\ UNCHANGED named
    BY DEF Forget
  <1>5. doc' = doc => Drops({}) BY <1>2, NoneGo
  <1>6. i # 0 /\ doc' = RemoveAt(doc, i) => Drops({r}) /\ r \in ToSet(doc)
    BY <1>2, <1>3, RemovedFacts
  <1> HIDE DEF i, r
  <1>7. CASE i = 0 /\ Leaving(0, 0) /\ UNCHANGED <<doc, named, untied, left>>
    <2>1. Shows(t, "leaving", 0, tab[t].session, 0, tab[t].fresh, tab[t].n)
      BY <1>1, <1>7, TabForms
    <2> QED BY <1>2, <1>5, <1>7, <2>1
  <1>8. CASE /\ i # 0 /\ Saves(RemoveAt(doc, i)) /\ Leaving(NameOf(r.current), r.current)
             /\ named' = NamedAfter(r.current)
             /\ untied' = untied \cup Crosses(family[tab[t].token])
    <2>1. Shows(t, "leaving", r.current, tab[t].session, NameOf(r.current), tab[t].fresh, tab[t].n)
      BY <1>1, <1>8, TabForms
    <2>2. Drops({r}) /\ r \in ToSet(doc) BY <1>6, <1>8 DEF Saves
    <2> QED BY <1>2, <1>3, <1>8, <2>1, <2>2
  <1>9. CASE /\ i # 0 /\ SavesNot(RemoveAt(doc, i)) /\ Turns(t, "open")
             /\ untied' = untied \cup Gone /\ UNCHANGED named
    <2>1. Shows(t, "open", tab[t].token, tab[t].session, tab[t].name, tab[t].fresh, tab[t].n)
      BY <1>1, <1>9, TabForms
    <2>2. Drops({}) \/ \E s \in ToSet(doc) : Drops({s}) BY <1>5, <1>6, <1>9 DEF SavesNot
    <2>3. \A q \in ToSet(doc') : q \in ToSet(doc) BY <2>2 DEF Drops
    <2>4. Unties BY <1>9, <2>3, GoneUnties
    <2> QED BY <1>2, <1>9, <2>1, <2>2, <2>4
  <1> QED BY <1>4, <1>7, <1>8, <1>9

-----------------------------------------------------------------------------
(* Types *)

\* A step of the store leaves a proper store.
LEMMA PrunedStore ==
  ASSUME TypeInv, RegistryOK(doc', family'), NEW g, NEW ns, Prune(doc', g, ns),
         \A e \in g : /\ e \in [old : 1 .. Issued', token : 1 .. Issued']
                      /\ family'[e.old] = family'[e.token],
         named' \in Nat, ns \in [1 .. MaxTokens -> 0 .. named']
  PROVE  StoreOK'
PROOF
  <1>1. /\ grace' \subseteq g /\ \A e \in g : e \in grace' <=> e.token \in Currents(doc')
        /\ names' \in [1 .. MaxTokens -> 0 .. named']
    <2>1. 0 \in 0 .. named' OBVIOUS
    <2> QED BY <2>1, PruneFacts
  <1>2. GraceOK(doc', grace', family') BY <1>1 DEF GraceOK, Issued
  <1>3. RegistryOK(doc, family)' BY DEF RegistryOK, Remembers
  <1>4. GraceOK(doc, grace, family)' BY <1>2 DEF GraceOK, Currents
  <1> QED BY <1>1, <1>3, <1>4 DEF StoreOK

\* The rest, after a step of the store.
LEMMA LaterRest ==
  ASSUME TypeInv, Grows, Issued' \in Nat, answers' \in Nat,
         UNCHANGED <<link, born, browserVars, adopted, lost>>,
         sessions' = sessions \/ \E s : sessions' = [sessions EXCEPT ![s] = NoSession],
         excused' \subseteq 1 .. Issued', untied' \subseteq 1 .. Issued'
  PROVE  SessionsOK' /\ BrowsersOK'
PROOF
  <1>1. SessionsOK /\ BrowsersOK /\ Issued \in Nat BY Counted DEF TypeInv, RestOK
  <1>2. 1 .. Issued \subseteq 1 .. Issued'
    <2>1. \A k \in 0 .. Issued : k \in 0 .. Issued' BY DEF Grows
    <2> QED BY <1>1, <2>1
  <1>3. NoSession \in [alive : BOOLEAN, name : Nat, family : 0 .. Issued'] BY DEF NoSession
  <1>4. sessions \in [1 .. MaxSessions -> [alive : BOOLEAN, name : Nat, family : 0 .. Issued']]
    BY <1>1 DEF SessionsOK, Grows
  <1>5. sessions' \in [1 .. MaxSessions -> [alive : BOOLEAN, name : Nat, family : 0 .. Issued']]
    BY <1>3, <1>4
  <1>6. SessionsOK' BY <1>1, <1>5 DEF SessionsOK
  <1>7. BrowsersOK' BY <1>1, <1>2 DEF BrowsersOK, browserVars, Grows
  <1> QED BY <1>6, <1>7

\* The family that a recovery between its two steps crosses has been issued.
LEMMA CrossesTokens ==
  ASSUME TypeInv, NEW f, f \in 1 .. Issued
  PROVE  Crosses(f) \subseteq 1 .. Issued
PROOF BY DEF Crosses

\* A registration with its token replaced: what the lemmas on types need.
LEMMA RotatesGrows ==
  ASSUME TypeInv, NEW r \in ToSet(doc), NEW d, NEW fam, Rotates(r, d, fam)
  PROVE  /\ Len(fam) = Issued + 1 /\ Issued \in Nat
         /\ \A k \in 1 .. Issued : fam[k] = family[k]
         /\ fam[Issued + 1] = family[r.current] /\ r.current \in 1 .. Issued
         /\ family[r.current] \in 1 .. Issued
PROOF
  <1>1. r.current \in 1 .. Issued /\ family[r.current] \in 1 .. Issued BY TokenFacts DEF TypeInv
  <1> QED BY <1>1, Counted DEF Rotates, Next1

\* A recovery with a current token keeps the shapes.
LEMMA RecoverStep ==
  ASSUME TypeInv, NEW t \in Tabs, Recover(t)
  PROVE  TypeInv'
PROOF
  <1>1. SessionsOK /\ BrowsersOK /\ TabsOK /\ StoreOK BY DEF TypeInv, RestOK
  <1>2. PICK r \in ToSet(doc) :
           /\ r.current = tab[t].token /\ Next1 \in 1 .. MaxTokens
           /\ UNCHANGED <<sessionVars, browserVars, adopted, lost>>
           /\ \/ /\ Rotates(r, doc', family')
                 /\ Prune(doc', RotateCachedTokens(r.current, Next1), RotateName(r.current, Next1))
                 /\ named' = NamedAfter(r.current) /\ answers' = answers + 1
                 /\ Shows(t, "joining", Next1, tab[t].session, NameOf(r.current), tab[t].fresh,
                          answers + 1)
                 /\ UNCHANGED <<excused, untied>>
              \/ /\ doc' = doc /\ UNCHANGED <<family, excused, untied, answers, named>>
                 /\ Prune(doc, grace, names) /\ Shows(t, "closed", 0, 0, 0, FALSE, 0)
              \/ /\ Rotates(r, doc', family')
                 /\ excused' = excused \cup {family[r.current]}
                 /\ untied' = untied \cup {family[r.current]}
                 /\ Prune(doc', grace, names) /\ Shows(t, "closed", 0, 0, 0, FALSE, 0)
                 /\ UNCHANGED <<answers, named>>
    BY RecoverFacts
  <1> DEFINE old == r.current
  <1>3. /\ old \in 1 .. Issued /\ family[old] \in 1 .. Issued /\ Issued \in Nat /\ answers \in Nat
        /\ excused \subseteq 1 .. Issued /\ untied \subseteq 1 .. Issued
        /\ MaxTokens \in Nat /\ Issued <= MaxTokens /\ born \in Nat
    BY <1>1, TokenFacts, Counted DEF BrowsersOK
  <1>4. \A e \in grace : /\ e \in [old : 1 .. Issued, token : 1 .. Issued]
                         /\ family[e.old] = family[e.token]
    BY <1>1 DEF StoreOK, GraceOK, Issued
  <1>5. names \in [1 .. MaxTokens -> 0 .. named] /\ named \in Nat BY <1>1 DEF StoreOK
  <1>6. Proper("closed", 0, 0, 0, FALSE, 0, Issued, born, answers) BY <1>3 DEF Proper
  <1>7. UNCHANGED <<link, born, sessions>> BY <1>2 DEF sessionVars
  <1>8. ASSUME Rotates(r, doc', family')
        PROVE  /\ Issued' = Issued + 1 /\ Issued' \in Nat /\ 1 .. Issued \subseteq 1 .. Issued'
               /\ 0 .. Issued \subseteq 0 .. Issued' /\ RegistryOK(doc', family')
               /\ \A k \in 1 .. Issued : family'[k] = family[k]
               /\ family'[Next1] = family[old] /\ Next1 \in 1 .. Issued'
               /\ \A e \in grace : /\ e \in [old : 1 .. Issued', token : 1 .. Issued']
                                   /\ family'[e.old] = family'[e.token]
    <2>1. /\ Issued' = Issued + 1 /\ \A k \in 1 .. Issued : family'[k] = family[k]
          /\ family'[Next1] = family[old]
      BY <1>8, RotatesGrows DEF Issued, Next1
    <2>2. Next1 = Issued + 1 BY DEF Next1
    <2>3. 1 .. Issued \subseteq 1 .. Issued' BY <1>3, <2>1
    <2>4. \A e \in grace : /\ e \in [old : 1 .. Issued', token : 1 .. Issued']
                           /\ family'[e.old] = family'[e.token]
      BY <1>4, <2>1, <2>3
    <2> QED BY <1>3, <1>8, <2>1, <2>2, <2>3, <2>4 DEF Rotates
  <1>9. CASE /\ Rotates(r, doc', family')
             /\ Prune(doc', RotateCachedTokens(old, Next1), RotateName(old, Next1))
             /\ named' = NamedAfter(old) /\ answers' = answers + 1
             /\ Shows(t, "joining", Next1, tab[t].session, NameOf(old), tab[t].fresh, answers + 1)
             /\ UNCHANGED <<excused, untied>>
    <2>1. Grows BY <1>3, <1>7, <1>8, <1>9 DEF Grows
    <2>2. SessionsOK' /\ BrowsersOK' BY <1>2, <1>3, <1>7, <1>8, <1>9, <2>1, LaterRest
    <2>3. NameOf(old) \in 1 .. named' /\ named' \in Nat /\ 0 .. named \subseteq 0 .. named'
      BY <1>1, <1>3, <1>9, NameFacts
    <2>4. RotateName(old, Next1) \in [1 .. MaxTokens -> 0 .. named']
      <3>1. names \in [1 .. MaxTokens -> 0 .. named'] BY <1>5, <2>3
      <3> DEFINE x == NameOf(old)
                 once == [names EXCEPT ![old] = 0]
      <3>2. x \in 0 .. named' /\ 0 \in 0 .. named' BY <2>3
      <3> HIDE DEF x
      <3>3. once \in [1 .. MaxTokens -> 0 .. named'] BY <3>1, <3>2
      <3>4. RotateName(old, Next1) = [once EXCEPT ![Next1] = x] BY DEF RotateName, x
      <3> HIDE DEF once
      <3> QED BY <3>2, <3>3, <3>4
    <2>5. \A e \in RotateCachedTokens(old, Next1) :
             /\ e \in [old : 1 .. Issued', token : 1 .. Issued']
             /\ family'[e.old] = family'[e.token]
      <3>1. old \in 1 .. Issued' /\ family'[old] = family[old] BY <1>3, <1>8, <1>9
      <3>2. [old |-> old, token |-> Next1] \in [old : 1 .. Issued', token : 1 .. Issued']
        BY <1>8, <1>9, <3>1
      <3>3. ASSUME NEW e \in grace, e.token = old
            PROVE  /\ [e EXCEPT !.token = Next1] \in [old : 1 .. Issued', token : 1 .. Issued']
                   /\ family'[[e EXCEPT !.token = Next1].old]
                        = family'[[e EXCEPT !.token = Next1].token]
        <4>1. e \in [old : 1 .. Issued', token : 1 .. Issued'] /\ family'[e.old] = family'[old]
          BY <1>8, <1>9, <3>3
        <4> QED BY <1>8, <1>9, <3>1, <4>1
      <3> QED BY <1>8, <1>9, <3>1, <3>2, <3>3 DEF RotateCachedTokens
    <2>6. StoreOK' BY <1>8, <1>9, <2>3, <2>4, <2>5, PrunedStore
    <2>7. Proper("joining", Next1, tab[t].session, NameOf(old), tab[t].fresh, answers + 1,
                 Issued', born', answers')
      BY <1>1, <1>2, <1>3, <1>7, <1>8, <1>9, <2>3, TabFacts DEF Proper
    <2>8. TabsOK' BY <1>1, <1>9, <2>1, <2>7, TabStep
    <2> QED BY <2>2, <2>6, <2>8 DEF TypeInv, RestOK
  <1>10. CASE /\ doc' = doc /\ UNCHANGED <<family, excused, untied, answers, named>>
              /\ Prune(doc, grace, names) /\ Shows(t, "closed", 0, 0, 0, FALSE, 0)
    <2>1. UNCHANGED Issued /\ Grows BY <1>7, <1>10 DEF Grows, Issued
    <2>2. SessionsOK' /\ BrowsersOK' BY <1>2, <1>3, <1>7, <1>10, <2>1, LaterRest
    <2>3. RegistryOK(doc', family') BY <1>1, <1>10 DEF StoreOK
    <2>4. StoreOK' BY <1>4, <1>5, <1>10, <2>1, <2>3, PrunedStore
    <2>5. TabsOK' BY <1>1, <1>6, <1>7, <1>10, <2>1, TabStep
    <2> QED BY <2>2, <2>4, <2>5 DEF TypeInv, RestOK
  <1>11. CASE /\ Rotates(r, doc', family')
              /\ excused' = excused \cup {family[old]} /\ untied' = untied \cup {family[old]}
              /\ Prune(doc', grace, names) /\ Shows(t, "closed", 0, 0, 0, FALSE, 0)
              /\ UNCHANGED <<answers, named>>
    <2>1. Grows BY <1>3, <1>7, <1>8, <1>11 DEF Grows
    <2>2. SessionsOK' /\ BrowsersOK' BY <1>2, <1>3, <1>7, <1>8, <1>11, <2>1, LaterRest
    <2>3. StoreOK' BY <1>5, <1>8, <1>11, PrunedStore
    <2>4. Proper("closed", 0, 0, 0, FALSE, 0, Issued', born', answers')
      BY <1>3, <1>7, <1>8, <1>11 DEF Proper
    <2>5. TabsOK' BY <1>1, <1>11, <2>1, <2>4, TabStep
    <2> QED BY <2>2, <2>3, <2>5 DEF TypeInv, RestOK
  <1> QED BY <1>2, <1>9, <1>10, <1>11

\* Registrations that go leave a proper store.
LEMMA DropsStore ==
  ASSUME TypeInv, NEW gone, Drops(gone), named' \in Nat, named <= named'
  PROVE  StoreOK' /\ UNCHANGED Issued
PROOF
  <1>1. StoreOK BY DEF TypeInv
  <1>2. UNCHANGED <<family, Issued>> /\ RegistryOK(doc', family') /\ Prune(doc', grace, names)
    BY DEF Drops, Issued
  <1>3. \A e \in grace : /\ e \in [old : 1 .. Issued', token : 1 .. Issued']
                         /\ family'[e.old] = family'[e.token]
    BY <1>1, <1>2 DEF StoreOK, GraceOK, Issued
  <1>4. names \in [1 .. MaxTokens -> 0 .. named'] BY <1>1 DEF StoreOK
  <1> QED BY <1>2, <1>3, <1>4, PrunedStore

\* A recovery in the grace of a token keeps the shapes.
LEMMA GraceStep ==
  ASSUME TypeInv, NEW t \in Tabs, RecoverInGrace(t)
  PROVE  TypeInv'
PROOF
  <1>1. SessionsOK /\ BrowsersOK /\ TabsOK /\ StoreOK BY DEF TypeInv, RestOK
  <1>2. /\ UNCHANGED <<doc, grace, sessionVars, browserVars, family, adopted, lost, excused, untied>>
        /\ answers' = answers + 1
    BY GraceFacts
  <1>3. PICK r \in ToSet(doc), e \in grace :
           /\ e.token = r.current /\ e.old = tab[t].token /\ family[e.old] = family[r.current]
           /\ names' = [names EXCEPT ![r.current] = NameOf(r.current)]
           /\ named' = NamedAfter(r.current)
           /\ Shows(t, "joining", r.current, tab[t].session, NameOf(r.current), tab[t].fresh,
                    answers + 1)
    BY GraceFacts
  <1> DEFINE k == r.current
  <1>4. k \in 1 .. Issued /\ k \in 1 .. MaxTokens BY <1>1, TokenFacts
  <1>5. NameOf(k) \in 1 .. named' /\ named' \in Nat /\ 0 .. named \subseteq 0 .. named'
    BY <1>1, <1>3, <1>4, NameFacts
  <1>6. names' \in [1 .. MaxTokens -> 0 .. named']
    <2>1. names \in [1 .. MaxTokens -> 0 .. named'] BY <1>1, <1>5 DEF StoreOK
    <2> DEFINE x == NameOf(k)
    <2>2. x \in 0 .. named' /\ names' = [names EXCEPT ![k] = x] BY <1>3, <1>5
    <2> HIDE DEF x
    <2> QED BY <2>1, <2>2
  <1>7. UNCHANGED <<Issued, link, born, sessions>> BY <1>2 DEF Issued, sessionVars
  <1>8. StoreOK'
    <2>1. RegistryOK(doc', family) /\ \A e2 \in grace' : e2.token \in Currents(doc')
      BY <1>1, <1>2 DEF StoreOK, GraceOK
    <2> QED BY <1>1, <1>2, <1>5, <1>6, <2>1, FewerStore
  <1>9. Grows /\ answers' \in Nat /\ Issued \in Nat BY <1>2, <1>7, Counted DEF Grows
  <1>10. SessionsOK' /\ BrowsersOK' BY <1>1, <1>2, <1>7, <1>9, LaterRest DEF BrowsersOK
  <1>11. Proper("joining", k, tab[t].session, NameOf(k), tab[t].fresh, answers + 1,
                Issued', born', answers')
    BY <1>1, <1>2, <1>4, <1>5, <1>7, <1>9, TabFacts, Counted DEF Proper
  <1>12. TabsOK' BY <1>1, <1>3, <1>9, <1>11, TabStep
  <1> QED BY <1>8, <1>10, <1>12 DEF TypeInv, RestOK

\* Steps in which registrations go.
LEMMA DropsStep ==
  ASSUME TypeInv, NEW gone, Drops(gone), named' \in Nat, named <= named', NEW t \in Tabs,
         UNCHANGED <<link, born, browserVars, adopted, lost, excused>>,
         sessions' = sessions \/ \E s : sessions' = [sessions EXCEPT ![s] = NoSession],
         answers' \in {answers, answers + 1}, untied' \subseteq 1 .. Issued,
         NEW at, NEW token, NEW session, NEW name, NEW fresh, NEW n,
         Shows(t, at, token, session, name, fresh, n),
         Proper(at, token, session, name, fresh, n, Issued, born, answers')
  PROVE  TypeInv'
PROOF
  <1>1. BrowsersOK /\ TabsOK BY DEF TypeInv, RestOK
  <1>2. StoreOK' /\ UNCHANGED Issued BY DropsStore
  <1>3. Grows /\ answers' \in Nat /\ Issued \in Nat BY <1>2, Counted DEF Grows
  <1>4. SessionsOK' /\ BrowsersOK' BY <1>1, <1>2, <1>3, LaterRest DEF BrowsersOK
  <1>5. Proper(at, token, session, name, fresh, n, Issued', born', answers') BY <1>2 DEF Proper
  <1>6. TabsOK' BY <1>1, <1>3, <1>5, TabStep
  <1> QED BY <1>2, <1>4, <1>6 DEF TypeInv, RestOK

\* A recovery taken for the use of a copy keeps the shapes.
LEMMA TakenStep ==
  ASSUME TypeInv, NEW t \in Tabs, TakenForCopy(t)
  PROVE  TypeInv'
PROOF
  <1>1. SessionsOK /\ BrowsersOK /\ TabsOK /\ StoreOK BY DEF TypeInv, RestOK
  <1>2. UNCHANGED <<sessionVars, browserVars, family, answers, adopted, lost, excused>>
    BY TakenFacts
  <1>3. UNCHANGED <<sessions, link, born>> BY <1>2 DEF sessionVars
  <1>4. PICK r \in ToSet(doc) :
          /\ tab[t].token \in ToSet(r.retired)
          /\ \/ /\ Drops({r}) /\ named' = NamedAfter(r.current)
                /\ Shows(t, "revoking", r.current, tab[t].session, NameOf(r.current),
                         tab[t].fresh, tab[t].n)
                /\ untied' = untied \cup Crosses(family[tab[t].token])
             \/ /\ Drops({r}) \/ Drops({})
                /\ Shows(t, "closed", 0, 0, 0, FALSE, 0) /\ UNCHANGED named /\ Unties
    BY TakenFacts
  <1>5. r.current \in 1 .. Issued /\ r.current \in 1 .. MaxTokens /\ Issued \in Nat
        /\ named \in Nat /\ untied \subseteq 1 .. Issued /\ answers \in Nat /\ born \in Nat
    BY <1>1, TokenFacts, Counted DEF StoreOK, BrowsersOK
  <1>6. CASE /\ Drops({r}) /\ named' = NamedAfter(r.current)
             /\ Shows(t, "revoking", r.current, tab[t].session, NameOf(r.current),
                      tab[t].fresh, tab[t].n)
             /\ untied' = untied \cup Crosses(family[tab[t].token])
    <2>1. family[tab[t].token] \in 1 .. Issued
      <3>1. tab[t].token \in 1 .. Issued
        BY <1>1, <1>4 DEF StoreOK, RegistryOK, Remembers, Issued
      <3> QED BY <3>1, Counted
    <2>2. untied' \subseteq 1 .. Issued BY <1>5, <1>6, <2>1, CrossesTokens
    <2>3. named' \in Nat /\ named <= named' /\ NameOf(r.current) \in Nat
      BY <1>1, <1>5, <1>6, NameFacts
    <2>4. Proper("revoking", r.current, tab[t].session, NameOf(r.current), tab[t].fresh, tab[t].n,
                 Issued, born, answers')
      BY <1>1, <1>2, <1>5, <2>3, TabFacts DEF Proper
    <2> QED BY <1>2, <1>3, <1>6, <2>2, <2>3, <2>4, DropsStep
  <1>7. CASE /\ Drops({r}) \/ Drops({})
             /\ Shows(t, "closed", 0, 0, 0, FALSE, 0) /\ UNCHANGED named /\ Unties
    <2>1. Proper("closed", 0, 0, 0, FALSE, 0, Issued, born, answers')
      BY <1>2, <1>5 DEF Proper
    <2>2. named' \in Nat /\ named <= named' /\ untied' \subseteq 1 .. Issued
      BY <1>5, <1>7 DEF Unties
    <2> QED BY <1>2, <1>3, <1>7, <2>1, <2>2, DropsStep
  <1> QED BY <1>4, <1>6, <1>7

\* The removal of a registration by its browser keeps the shapes.
LEMMA ForgetStep ==
  ASSUME TypeInv, NEW t \in Tabs, Forget(t)
  PROVE  TypeInv'
PROOF
  <1>1. SessionsOK /\ BrowsersOK /\ TabsOK /\ StoreOK BY DEF TypeInv, RestOK
  <1>2. UNCHANGED <<sessionVars, browserVars, family, answers, adopted, lost, excused>>
    BY ForgetFacts
  <1>3. UNCHANGED <<sessions, link, born>> BY <1>2 DEF sessionVars
  <1>4. Issued \in Nat /\ named \in Nat /\ untied \subseteq 1 .. Issued
    BY <1>1, Counted DEF StoreOK, BrowsersOK
  <1>5. CASE /\ Drops({}) /\ UNCHANGED <<named, untied>>
             /\ Shows(t, "leaving", 0, tab[t].session, 0, tab[t].fresh, tab[t].n)
    <2>1. Proper("leaving", 0, tab[t].session, 0, tab[t].fresh, tab[t].n, Issued, born, answers')
      BY <1>1, <1>2, <1>4, TabFacts DEF Proper
    <2>2. named' \in Nat /\ named <= named' /\ untied' \subseteq 1 .. Issued BY <1>4, <1>5
    <2> QED BY <1>2, <1>3, <1>5, <2>1, <2>2, DropsStep
  <1>6. ASSUME NEW r \in ToSet(doc), Drops({r}), named' = NamedAfter(r.current),
               Shows(t, "leaving", r.current, tab[t].session, NameOf(r.current),
                     tab[t].fresh, tab[t].n),
               untied' = untied \cup Crosses(family[r.current])
        PROVE  TypeInv'
    <2>1. r.current \in 1 .. Issued /\ r.current \in 1 .. MaxTokens /\ family[r.current] \in 1 .. Issued
      BY <1>1, TokenFacts
    <2>2. untied' \subseteq 1 .. Issued BY <1>4, <1>6, <2>1, CrossesTokens
    <2>3. named' \in Nat /\ named <= named' /\ NameOf(r.current) \in Nat
      BY <1>1, <1>6, <2>1, NameFacts
    <2>4. Proper("leaving", r.current, tab[t].session, NameOf(r.current), tab[t].fresh, tab[t].n,
                 Issued, born, answers')
      BY <1>1, <1>2, <1>4, <2>1, <2>3, TabFacts DEF Proper
    <2> QED BY <1>2, <1>3, <1>6, <2>2, <2>3, <2>4, DropsStep
  <1>7. CASE /\ Drops({}) \/ \E r \in ToSet(doc) : Drops({r})
             /\ Shows(t, "open", tab[t].token, tab[t].session, tab[t].name, tab[t].fresh, tab[t].n)
             /\ UNCHANGED named /\ Unties
    <2>1. Proper("open", tab[t].token, tab[t].session, tab[t].name, tab[t].fresh, tab[t].n,
                 Issued, born, answers')
      BY <1>1, <1>2, <1>4, TabFacts DEF Proper
    <2>2. named' \in Nat /\ named <= named' /\ untied' \subseteq 1 .. Issued
      BY <1>4, <1>7 DEF Unties
    <2>3. PICK gone : Drops(gone) BY <1>7
    <2> QED BY <1>2, <1>3, <1>7, <2>1, <2>2, <2>3, DropsStep
  <1> QED BY <1>5, <1>6, <1>7, ForgetFacts

\* A registration, with those it makes room by dropping, keeps the shapes.
LEMMA RegisterStep ==
  ASSUME TypeInv, NEW t \in Tabs, Register(t)
  PROVE  TypeInv'
PROOF
  <1>1. SessionsOK /\ BrowsersOK /\ TabsOK /\ StoreOK BY DEF TypeInv, RestOK
  <1>2. UNCHANGED <<named, link, born, browserVars, adopted, lost, excused>> /\ Unties
    BY RegisterFacts
  <1>3. Issued \in Nat /\ named \in Nat /\ answers \in Nat /\ born \in Nat
        /\ untied' \subseteq 1 .. Issued /\ excused \subseteq 1 .. Issued
    BY <1>1, <1>2, Counted DEF StoreOK, BrowsersOK, Unties
  <1>4. PICK at, token, session, name, fresh, n :
          /\ Shows(t, at, token, session, name, fresh, n)
          /\ \/ /\ Drops({}) /\ answers' = answers + 1 /\ UNCHANGED sessions
                /\ Proper(at, token, session, name, fresh, n, Issued, born, answers')
             \/ /\ Drops({}) /\ UNCHANGED answers
                /\ UNCHANGED sessions \/ sessions' = [sessions EXCEPT ![tab[t].session] = NoSession]
                /\ Proper(at, token, session, name, fresh, n, Issued, born, answers')
             \/ /\ Adds /\ answers' \in {answers, answers + 1}
                /\ UNCHANGED sessions \/ sessions' = [sessions EXCEPT ![tab[t].session] = NoSession]
                /\ Proper(at, token, session, name, fresh, n, Next1, born, answers')
    <2>1. /\ Proper("entered", 0, tab[t].session, tab[t].name, tab[t].fresh, answers + 1,
                    Issued, born, answers + 1)
          /\ Proper("entered", Next1, tab[t].session, tab[t].name, tab[t].fresh, answers + 1,
                    Next1, born, answers + 1)
          /\ Proper("closed", 0, 0, 0, FALSE, 0, Issued, born, answers)
          /\ Proper("closed", 0, 0, 0, FALSE, 0, Next1, born, answers)
      BY <1>1, <1>3, TabFacts DEF Proper, Next1
    <2>2. CASE /\ Drops({}) /\ answers' = answers + 1 /\ UNCHANGED sessions
               /\ Shows(t, "entered", 0, tab[t].session, tab[t].name, tab[t].fresh, answers + 1)
      BY <2>1, <2>2
    <2>3. CASE /\ Adds /\ answers' = answers + 1 /\ UNCHANGED sessions
               /\ Shows(t, "entered", Next1, tab[t].session, tab[t].name, tab[t].fresh, answers + 1)
      BY <2>1, <2>3
    <2>4. CASE /\ Drops({}) \/ Adds
               /\ UNCHANGED answers /\ Shows(t, "closed", 0, 0, 0, FALSE, 0)
               /\ \/ UNCHANGED sessions
                  \/ sessions' = [sessions EXCEPT ![tab[t].session] = NoSession]
      BY <2>1, <2>4
    <2> QED BY <2>2, <2>3, <2>4, RegisterFacts
  <1>5. CASE Drops({})
    <2>1. CASE Proper(at, token, session, name, fresh, n, Issued, born, answers')
      BY <1>2, <1>3, <1>4, <1>5, <2>1, DropsStep
    <2>2. CASE Adds
      BY <1>3, <1>5, <2>2 DEF Adds, Drops, Issued, Next1
    <2> QED BY <1>4, <2>1, <2>2
  <1>6. CASE /\ Adds /\ answers' \in {answers, answers + 1}
             /\ UNCHANGED sessions \/ sessions' = [sessions EXCEPT ![tab[t].session] = NoSession]
             /\ Proper(at, token, session, name, fresh, n, Next1, born, answers')
    <2>1. /\ Issued' = Next1 /\ Next1 = Issued + 1 /\ RegistryOK(doc', family')
          /\ \A k \in 1 .. Issued : family'[k] = family[k]
          /\ Prune(doc', grace, names)
      BY <1>6 DEF Adds, Issued, Next1
    <2>2. Grows /\ Issued' \in Nat /\ answers' \in Nat /\ 1 .. Issued \subseteq 1 .. Issued'
      BY <1>2, <1>3, <1>6, <2>1 DEF Grows
    <2>3. \A e \in grace : /\ e \in [old : 1 .. Issued', token : 1 .. Issued']
                           /\ family'[e.old] = family'[e.token]
      <3>1. \A e \in grace : /\ e \in [old : 1 .. Issued, token : 1 .. Issued]
                             /\ family[e.old] = family[e.token]
        BY <1>1 DEF StoreOK, GraceOK, Issued
      <3> QED BY <2>1, <2>2, <3>1
    <2>4. names \in [1 .. MaxTokens -> 0 .. named'] /\ named' \in Nat BY <1>1, <1>2 DEF StoreOK
    <2>5. StoreOK' BY <2>1, <2>3, <2>4, PrunedStore
    <2>6. SessionsOK' /\ BrowsersOK' BY <1>2, <1>3, <1>6, <2>2, LaterRest
    <2>7. Proper(at, token, session, name, fresh, n, Issued', born', answers')
      BY <1>2, <1>6, <2>1 DEF Proper
    <2>8. TabsOK' BY <1>1, <1>4, <2>2, <2>7, TabStep
    <2> QED BY <2>5, <2>6, <2>8 DEF TypeInv, RestOK
  <1> QED BY <1>4, <1>5, <1>6

\* The engine starts with the registration of one profile and every tab closed.
LEMMA InitTypeInv ==
  ASSUME NEW first \in Profiles, NEW bounds, EntranceInit(first, bounds)
  PROVE  TypeInv
PROOF
  <1> DEFINE r == [current |-> 1, retired |-> << >>]
  <1>1. /\ doc = <<r>> /\ grace = {} /\ names = [k \in 1 .. MaxTokens |-> 0] /\ named = 0
        /\ sessions = [s \in 1 .. MaxSessions |-> NoSession] /\ link = FALSE /\ born = 0
        /\ stored = [p \in Profiles |-> IF p = first THEN 1 ELSE 0]
        /\ cookie = [p \in Profiles |-> 0] /\ tab = [t \in Tabs |-> Closed]
        /\ family = <<1>> /\ answers = 0
        /\ adopted = [p \in Profiles |-> 0] /\ lost = [p \in Profiles |-> 0]
        /\ excused = {} /\ untied = {}
    BY DEF EntranceInit
  <1>2. r \in Registration /\ r.current = 1 /\ r.retired = << >> BY DEF Registration
  <1> HIDE DEF r
  <1>3. /\ doc \in Seq(Registration) /\ Len(doc) = 1 /\ DOMAIN doc = {1} /\ doc[1] = r
        /\ family \in Seq({1}) /\ Len(family) = 1 /\ family[1] = 1
    BY <1>1, <1>2
  <1>4. ToSet(doc) = {r} /\ ToSet(<< >>) = {} BY <1>3 DEF ToSet
  <1>5. family \in Seq(1 .. MaxTokens)
    <2>1. 1 \in 1 .. MaxTokens BY EntranceAssumption
    <2> QED BY <1>1, <2>1
  <1>6. RegistryOK(doc, family)
    <2>1. Remembers(r, family)
      BY <1>2, <1>3, <1>4, EntranceAssumption DEF Remembers
    <2>2. Distinct(doc) BY <1>3 DEF Distinct
    <2>3. \A k \in 1 .. Len(family) : family[k] \in 1 .. Len(family)
      BY <1>3
    <2> QED BY <1>3, <1>4, <1>5, <2>1, <2>2, <2>3, EntranceAssumption DEF RegistryOK
  <1>7. StoreOK BY <1>1, <1>6 DEF StoreOK, GraceOK
  <1>8. Issued = 1 BY <1>3 DEF Issued
  <1>9. SessionsOK
    <2>1. NoSession \in [alive : BOOLEAN, name : Nat, family : 0 .. 1] BY DEF NoSession
    <2>2. sessions \in [1 .. MaxSessions -> [alive : BOOLEAN, name : Nat, family : 0 .. 1]]
      BY <1>1, <2>1
    <2>3. link \in BOOLEAN /\ born \in 0 .. MaxSessions
      <3>1. link = FALSE /\ born = 0 BY <1>1
      <3>2. MaxSessions \in Nat BY EntranceAssumption
      <3>3. link \in BOOLEAN BY <3>1, Zenon
      <3> QED BY <3>1, <3>2, <3>3
    <2> QED BY <1>8, <2>2, <2>3 DEF SessionsOK
  <1>10. BrowsersOK BY <1>1, <1>8 DEF BrowsersOK
  <1>11. TabsOK
    <2>1. Closed \in TabState(1, 0, 0) /\ Closed.at = "closed" BY DEF Closed, TabState
    <2> QED BY <1>1, <1>8, <2>1 DEF TabsOK
  <1> QED BY <1>7, <1>9, <1>10, <1>11 DEF TypeInv, RestOK

\* Nothing changes in a stuttering step.
LEMMA SameTypeInv ==
  ASSUME TypeInv, UNCHANGED vars
  PROVE  TypeInv'
PROOF
  <1>1. /\ UNCHANGED <<storeVars, family>> /\ UNCHANGED <<browserVars, ghostVars>>
        /\ UNCHANGED <<sessions, link, born, tab, answers>>
    BY DEF vars, sessionVars, ghostVars
  <1>2. StoreOK' BY <1>1, SameStore DEF TypeInv
  <1>3. BrowsersOK' BY <1>1, SameBrowsers DEF TypeInv, RestOK
  <1>4. SessionsOK' BY <1>1 DEF TypeInv, RestOK, SessionsOK, Issued
  <1>5. TabsOK' BY <1>1, SameTabs DEF TypeInv, RestOK
  <1> QED BY <1>2, <1>3, <1>4, <1>5 DEF TypeInv, RestOK

\* Every step keeps the shapes.
LEMMA NextTypeInv ==
  ASSUME TypeInv, [Next]_vars
  PROVE  TypeInv'
PROOF
  <1>1. ASSUME NEW t \in Tabs, Page(t) PROVE TypeInv'
    BY <1>1, PageSteps DEF Page
  <1>2. ASSUME NEW t \in Tabs, Engine(t) PROVE TypeInv'
    <2>1. CASE Refuse(t) \/ LinkUsed(t) BY <2>1, PageSteps
    <2>2. CASE JoinOrIssue(t) \/ Bootstrap(t) \/ RevokeRegistration(t) \/ Leave(t)
      BY <2>2, SessionSteps
    <2>3. CASE Recover(t) BY <2>3, RecoverStep
    <2>4. CASE RecoverInGrace(t) BY <2>4, GraceStep
    <2>5. CASE TakenForCopy(t) BY <2>5, TakenStep
    <2>6. CASE Register(t) BY <2>6, RegisterStep
    <2>7. CASE Forget(t) BY <2>7, ForgetStep
    <2> QED BY <1>2, <2>1, <2>2, <2>3, <2>4, <2>5, <2>6, <2>7 DEF Engine
  <1>3. ASSUME NEW t \in Tabs, Arrives(t) PROVE TypeInv'
    BY <1>3, ArrivalSteps
  <1>4. CASE Reissue \/ GraceEnds \/ SessionExpires \/ RegistrationExpires \/ Copy
    BY <1>4, OutsideSteps
  <1>5. ASSUME NEW moved \in BOOLEAN, Restart(moved) PROVE TypeInv'
    BY <1>5, RestartStep
  <1>6. CASE UNCHANGED vars BY <1>6, SameTypeInv
  <1> QED BY <1>1, <1>2, <1>3, <1>4, <1>5, <1>6 DEF Next

\* The shapes are those that TypeOK names, and more.
LEMMA TypeInvIsType ==
  ASSUME TypeInv PROVE TypeOK
PROOF
  <1>1. SessionsOK /\ BrowsersOK /\ TabsOK /\ StoreOK BY DEF TypeInv, RestOK
  <1>2. /\ doc \in Seq(Registration) /\ Len(doc) <= MaxRegistrations
        /\ family \in Seq(1 .. MaxTokens) /\ Issued <= MaxTokens
        /\ \A r \in ToSet(doc) : Remembers(r, family)
    BY <1>1 DEF StoreOK, RegistryOK, Issued
  <1>3. ASSUME NEW i \in DOMAIN doc
        PROVE  /\ doc[i].current \in 1 .. Issued /\ ToSet(doc[i].retired) \subseteq 1 .. Issued
               /\ Len(doc[i].retired) <= MaxRetiredTokens
    <2>1. doc[i] \in ToSet(doc) BY DEF ToSet
    <2> QED BY <1>2, <2>1 DEF Remembers, Issued
  <1>4. grace \subseteq [old : 1 .. Issued, token : 1 .. Issued]
    BY <1>1 DEF StoreOK, GraceOK, Issued
  <1>5. names \in [1 .. MaxTokens -> 0 .. named] /\ named \in Nat BY <1>1 DEF StoreOK
  <1>6. tab \in [Tabs -> [at : {"closed", "open", "recovering", "joining", "revoking",
                                "refused", "entered", "linked", "registering", "signing",
                                "leaving", "left"},
                          token : 0 .. Issued, session : 0 .. born, name : Nat,
                          fresh : BOOLEAN, n : 0 .. answers]]
    BY <1>1 DEF TabsOK, TabState
  <1> QED BY <1>1, <1>2, <1>3, <1>4, <1>5, <1>6 DEF TypeOK, SessionsOK, BrowsersOK

\* The document, the graces, the names, the sessions and the tabs keep their shapes: no
\* number of browsers, tabs, registrations or restarts puts a token nobody issued in a place.
THEOREM Types ==
  ASSUME NEW first \in Profiles, NEW bounds
  PROVE  EntranceSpec(first, bounds) => []TypeOK
PROOF
  <1>1. EntranceInit(first, bounds) => TypeInv BY InitTypeInv
  <1>2. TypeInv /\ [Next]_vars => TypeInv' BY NextTypeInv
  <1>3. TypeInv => TypeOK BY TypeInvIsType
  <1> QED BY <1>1, <1>2, <1>3, PTL DEF EntranceSpec

-----------------------------------------------------------------------------
(* SessionsEndWithIt *)

\* No request is about to end the sessions of registration f.
NoneEnding(f) == \A t \in Tabs : Ending(t) => family[tab[t].token] # f

\* Registration f is there, or its end is under way.
Held(f) == (\E r \in ToSet(doc) : family[r.current] = f) \/ ~NoneEnding(f)

\* Registration f has not ended, and whatever ends it ends what has this name.
Tied(name, f) ==
  /\ Held(f)
  /\ \A r \in ToSet(doc) : family[r.current] = f => name # 0 /\ names[r.current] = name
  /\ \A t \in Tabs : Ending(t) /\ family[tab[t].token] = f => name # 0 /\ tab[t].name = name

\* A registration that is there is not ending; a session, or a recovery that is about to
\* enter one, bears the name that whatever ends its registration will look for.
EndInv ==
  /\ \A r \in ToSet(doc) : NoneEnding(family[r.current])
  /\ \A s \in DOMAIN sessions :
        sessions[s].alive /\ sessions[s].family \notin untied \cup {0} =>
          Tied(sessions[s].name, sessions[s].family)
  /\ \A t \in Tabs :
        tab[t].at = "joining" /\ family[tab[t].token] \notin untied =>
          Tied(tab[t].name, family[tab[t].token]) /\ NoneEnding(family[tab[t].token])

\* Each registration is one that was there, under the name it had, or a new one.
Continues ==
  /\ Issued' \in {Issued, Issued + 1} /\ \A k \in 1 .. Issued : family'[k] = family[k]
  /\ \A q \in ToSet(doc') :
        \/ family'[q.current] = Issued + 1
        \/ \E r \in ToSet(doc) :
              /\ family'[q.current] = family[r.current]
              /\ \/ family[r.current] \in untied'
                 \/ names[r.current] = 0 \/ names'[q.current] = names[r.current]

\* No request sets out to end a registration in the step, and none is done with that.
NoneEndsNow ==
  /\ untied \subseteq untied'
  /\ \A t \in Tabs : /\ Ending(t)' <=> Ending(t)
                     /\ Ending(t) => tab'[t].token = tab[t].token /\ tab'[t].name = tab[t].name

\* Registration f has no session, and no recovery is about to enter one.
Unused(f) ==
  /\ \A s \in DOMAIN sessions : sessions[s].alive => sessions[s].family # f
  /\ \A t \in Tabs : tab[t].at # "joining"

\* The registrations stay, but for one that has no session or may leave one behind.
Stays ==
  \A r \in ToSet(doc) :
    \/ family[r.current] \in untied' \/ Unused(family[r.current])
    \/ \E q \in ToSet(doc') : family'[q.current] = family[r.current]

\* A session has its tie from where it was, or from the recovery it was entered with.
SessionsFrom ==
  \A s \in DOMAIN sessions' :
    sessions'[s].alive /\ sessions'[s].family # 0 =>
      \/ \E x \in DOMAIN sessions : /\ sessions[x].alive
                                    /\ sessions[x].name = sessions'[s].name
                                    /\ sessions[x].family = sessions'[s].family
      \/ \E t \in Tabs : /\ tab[t].at = "joining" /\ tab[t].name = sessions'[s].name
                         /\ family[tab[t].token] = sessions'[s].family

\* A recovery has its tie from where it was, or from the registration it has just found.
JoiningFrom ==
  \A t \in Tabs :
    tab'[t].at = "joining" =>
      \/ /\ tab[t].at = "joining" /\ tab'[t].name = tab[t].name
         /\ tab'[t].token = tab[t].token
      \/ /\ \E r \in ToSet(doc) : family[r.current] = family'[tab'[t].token]
         /\ \E q \in ToSet(doc') : family'[q.current] = family'[tab'[t].token]
         /\ tab'[t].name # 0
         /\ \A q \in ToSet(doc') : family'[q.current] = family'[tab'[t].token] =>
               names'[q.current] = tab'[t].name

\* The registrations that these formulas speak of are numbered by tokens issued.
LEMMA EndFamilies ==
  ASSUME TypeInv
  PROVE  /\ Issued \in Nat
         /\ \A r \in ToSet(doc) : r.current \in 1 .. Issued /\ family[r.current] \in 1 .. Issued
         /\ \A t \in Tabs : Ending(t) \/ tab[t].at = "joining" =>
               tab[t].token \in 1 .. Issued /\ family[tab[t].token] \in 1 .. Issued
         /\ \A s \in DOMAIN sessions : sessions[s].family \in 0 .. Issued
PROOF
  <1>1. Issued \in Nat /\ \A k \in 1 .. Issued : family[k] \in 1 .. Issued BY Counted
  <1>3. \A r \in ToSet(doc) : r.current \in 1 .. Issued BY TokenFacts DEF TypeInv
  <1>4. ASSUME NEW t \in Tabs, Ending(t) \/ tab[t].at = "joining"
        PROVE  tab[t].token \in 1 .. Issued
    <2>1. TabsOK BY DEF TypeInv, RestOK
    <2>2. tab[t].token # 0 BY <1>4, <2>1 DEF TabsOK, Ending
    <2> QED BY <1>1, <2>1, <2>2, TabFacts
  <1>5. \A s \in DOMAIN sessions : sessions[s].family \in 0 .. Issued
    BY DEF TypeInv, RestOK, SessionsOK
  <1> QED BY <1>1, <1>3, <1>4, <1>5

\* A tie holds on while the registrations, the names and what is ending stay.
LEMMA TiedOn ==
  ASSUME TypeInv, EndInv, Continues, NoneEndsNow, Stays, NEW name, NEW f \in 1 .. Issued,
         f \notin untied', ~Unused(f), Tied(name, f)
  PROVE  Tied(name, f)' /\ (NoneEnding(f) => NoneEnding(f)')
PROOF
  <1>1. \A t \in Tabs : Ending(t)' => /\ Ending(t) /\ family'[tab'[t].token] = family[tab[t].token]
                                     /\ tab'[t].name = tab[t].name
    <2> SUFFICES ASSUME NEW t \in Tabs, Ending(t)'
                 PROVE  /\ Ending(t) /\ family'[tab'[t].token] = family[tab[t].token]
                        /\ tab'[t].name = tab[t].name
      OBVIOUS
    <2>1. Ending(t) /\ tab'[t].token = tab[t].token /\ tab'[t].name = tab[t].name
      BY DEF NoneEndsNow
    <2> QED BY <2>1, EndFamilies DEF Continues
  <1>2. ASSUME NEW q \in ToSet(doc'), family'[q.current] = f
        PROVE  name # 0 /\ names'[q.current] = name
    <2>1. f # Issued + 1 BY EndFamilies
    <2>2. PICK r \in ToSet(doc) : /\ family'[q.current] = family[r.current]
                                  /\ \/ names[r.current] = 0
                                     \/ names'[q.current] = names[r.current]
      BY <1>2, <2>1 DEF Continues
    <2> QED BY <1>2, <2>2 DEF Tied
  <1>3. ASSUME NEW t \in Tabs, Ending(t)', family'[tab'[t].token] = f
        PROVE  name # 0 /\ tab'[t].name = name
    BY <1>1, <1>3 DEF Tied
  <1>4. NoneEnding(f) => NoneEnding(f)' BY <1>1 DEF NoneEnding
  <1>5. Held(f)'
    <2>1. CASE \E r \in ToSet(doc) : family[r.current] = f
      <3>1. \E q \in ToSet(doc') : family'[q.current] = f BY <2>1 DEF Stays
      <3> QED BY <3>1 DEF Held
    <2>2. CASE ~NoneEnding(f)
      <3>1. PICK t \in Tabs : Ending(t) /\ family[tab[t].token] = f BY <2>2 DEF NoneEnding
      <3>2. Ending(t)' BY <3>1 DEF NoneEndsNow
      <3>3. family'[tab'[t].token] = f BY <1>1, <3>1, <3>2
      <3> QED BY <3>2, <3>3 DEF Held, NoneEnding
    <2> QED BY <2>1, <2>2 DEF Tied, Held
  <1> QED BY <1>2, <1>3, <1>4, <1>5 DEF Tied

\* Most steps end nothing.
LEMMA EndsOn ==
  ASSUME TypeInv, TypeInv', EndInv, Continues, NoneEndsNow, Stays, SessionsFrom, JoiningFrom
  PROVE  EndInv'
PROOF
  <1>1. ASSUME NEW q \in ToSet(doc')
        PROVE  \A t \in Tabs : Ending(t)' => family'[tab'[t].token] # family'[q.current]
    <2>1. \A t \in Tabs : Ending(t)' => Ending(t) /\ tab'[t].token = tab[t].token
      BY DEF NoneEndsNow
    <2>2. \A t \in Tabs : Ending(t)' => /\ family'[tab'[t].token] = family[tab[t].token]
                                       /\ family[tab[t].token] \in 1 .. Issued
      BY <2>1, EndFamilies DEF Continues
    <2>4. CASE family'[q.current] = Issued + 1
      BY <2>2, <2>4, EndFamilies
    <2>5. ASSUME NEW r \in ToSet(doc), family'[q.current] = family[r.current]
          PROVE  \A t \in Tabs : Ending(t)' => family'[tab'[t].token] # family'[q.current]
      <3>1. NoneEnding(family[r.current]) BY DEF EndInv
      <3> QED BY <2>1, <2>2, <2>5, <3>1 DEF NoneEnding
    <2> QED BY <2>4, <2>5 DEF Continues
  <1>2. ASSUME NEW name, NEW f,
               \E x \in DOMAIN sessions : /\ sessions[x].alive /\ name = sessions[x].name
                                          /\ f = sessions[x].family /\ f # 0,
               f \notin untied'
        PROVE  Tied(name, f)'
    <2>1. f \in 1 .. Issued BY <1>2, EndFamilies
    <2>2. Tied(name, f) BY <1>2 DEF EndInv, NoneEndsNow
    <2>3. ~Unused(f) BY <1>2 DEF Unused
    <2> QED BY <1>2, <2>1, <2>2, <2>3, TiedOn
  <1>3. ASSUME NEW t \in Tabs, tab[t].at = "joining", NEW name, NEW f, name = tab[t].name,
               f = family[tab[t].token], f \notin untied'
        PROVE  Tied(name, f)' /\ NoneEnding(f)'
    <2>1. f \in 1 .. Issued BY <1>3, EndFamilies
    <2>2. Tied(name, f) /\ NoneEnding(f) BY <1>3 DEF EndInv, NoneEndsNow
    <2>3. ~Unused(f) BY <1>3 DEF Unused
    <2> QED BY <1>3, <2>1, <2>2, <2>3, TiedOn
  <1>4. ASSUME NEW s \in DOMAIN sessions', sessions'[s].alive,
               sessions'[s].family \notin untied' \cup {0}, NEW name, NEW f,
               name = sessions'[s].name, f = sessions'[s].family
        PROVE  Tied(name, f)'
    BY <1>2, <1>3, <1>4 DEF SessionsFrom
  <1>5. ASSUME NEW t \in Tabs, tab'[t].at = "joining", NEW name, NEW f,
               name = tab'[t].name, f = family'[tab'[t].token], f \notin untied'
        PROVE  Tied(name, f)' /\ NoneEnding(f)'
    <2>1. CASE /\ tab[t].at = "joining" /\ tab'[t].name = tab[t].name
               /\ tab'[t].token = tab[t].token
      <3>1. f = family[tab[t].token] /\ name = tab[t].name
        BY <1>5, <2>1, EndFamilies DEF Continues
      <3> QED BY <1>3, <1>5, <2>1, <3>1
    <2>2. CASE /\ \E r \in ToSet(doc) : family[r.current] = f
               /\ \E q \in ToSet(doc') : family'[q.current] = f
               /\ name # 0
               /\ \A q \in ToSet(doc') : family'[q.current] = f => names'[q.current] = name
      <3>1. \A u \in Tabs : Ending(u)' => family'[tab'[u].token] # f BY <1>1, <2>2
      <3>2. NoneEnding(f)' BY <3>1 DEF NoneEnding
      <3>3. Held(f)' BY <2>2 DEF Held
      <3> QED BY <2>2, <3>1, <3>2, <3>3 DEF Tied
    <2> QED BY <1>5, <2>1, <2>2 DEF JoiningFrom
  <1>6. \A s \in DOMAIN sessions' :
           sessions'[s].alive /\ sessions'[s].family \notin untied' \cup {0} =>
             Tied(sessions[s].name, sessions[s].family)'
    BY <1>4 DEF Tied, Held, NoneEnding
  <1>7. \A t \in Tabs :
           tab'[t].at = "joining" /\ family'[tab'[t].token] \notin untied' =>
             Tied(tab[t].name, family[tab[t].token])' /\ NoneEnding(family[tab[t].token])'
    BY <1>5 DEF Tied, Held, NoneEnding
  <1>8. \A q \in ToSet(doc') : NoneEnding(family[q.current])'
    BY <1>1 DEF NoneEnding
  <1> QED BY <1>6, <1>7, <1>8 DEF EndInv

\* A tab moves, and neither ends a registration nor enters from one.
LEMMA QuietTab ==
  ASSUME NEW t \in Tabs, NEW at, NEW token, NEW session, NEW name, NEW fresh, NEW n,
         Shows(t, at, token, session, name, fresh, n), at # "joining",
         at \notin {"revoking", "leaving"} \/ token = 0, ~Ending(t),
         untied \subseteq untied'
  PROVE  NoneEndsNow /\ JoiningFrom
PROOF
  <1>1. tab'[t].at = at /\ tab'[t].token = token BY DEF Shows
  <1>2. \A u \in Tabs \ {t} : tab'[u] = tab[u] BY DEF Shows
  <1>3. ~Ending(t)' BY <1>1 DEF Ending
  <1>4. \A u \in Tabs \ {t} : Ending(u)' <=> Ending(u) BY <1>2 DEF Ending
  <1>5. NoneEndsNow BY <1>2, <1>3, <1>4 DEF NoneEndsNow
  <1>6. JoiningFrom BY <1>1, <1>2 DEF JoiningFrom
  <1> QED BY <1>5, <1>6

\* Sessions that stay, but for one that goes, have their ties from where they were.
LEMMA SessionsStay ==
  ASSUME TypeInv, sessions' = sessions \/ \E s : sessions' = [sessions EXCEPT ![s] = NoSession]
  PROVE  SessionsFrom
PROOF
  <1>1. sessions \in [1 .. MaxSessions -> [alive : BOOLEAN, name : Nat, family : 0 .. Issued]]
    BY DEF TypeInv, RestOK, SessionsOK
  <1>2. NoSession.alive = FALSE BY DEF NoSession
  <1> QED BY <1>1, <1>2 DEF SessionsFrom

\* Registrations that leave nothing behind, or may, are not missed.
LEMMA UntiesStays ==
  ASSUME TypeInv, \A k \in 1 .. Issued : family'[k] = family[k],
         \A r \in ToSet(doc) : r \in ToSet(doc') \/ family[r.current] \in untied'
  PROVE  Stays
PROOF BY EndFamilies DEF Stays

\* So it is when some registrations of the file go.
LEMMA DropsStays ==
  ASSUME TypeInv, NEW gone, Drops(gone), Unties
  PROVE  Stays
PROOF BY UntiesStays DEF Drops, Unties

\* Registrations and names that stay continue.
LEMMA SameContinues ==
  ASSUME TypeInv, UNCHANGED <<doc, names, family>>
  PROVE  Continues /\ Stays
PROOF
  <1>1. UNCHANGED Issued BY DEF Issued
  <1> QED BY <1>1 DEF Continues, Stays

\* Names outlive what is pruned.
LEMMA PrunedNames ==
  ASSUME TypeInv, NEW d, NEW g, Prune(d, g, names), NEW q \in ToSet(d), NEW r \in ToSet(doc),
         q.current = r.current
  PROVE  names'[q.current] = names[r.current]
PROOF
  <1>1. r.current \in 1 .. MaxTokens BY TokenFacts DEF TypeInv
  <1>2. q.current \in Currents(d) BY CurrentsOf
  <1>3. names \in [1 .. MaxTokens -> 0 .. named] /\ 0 \in 0 .. named
    BY DEF TypeInv, StoreOK
  <1>4. \A k \in 1 .. MaxTokens : k \in Currents(d) => names'[k] = names[k]
    BY <1>3 DEF Prune
  <1> QED BY <1>1, <1>2, <1>4

\* So do those that a removal leaves ...
LEMMA DropsContinues ==
  ASSUME TypeInv, NEW gone, Drops(gone)
  PROVE  Continues
PROOF
  <1>1. UNCHANGED <<Issued, family>> BY DEF Drops, Issued
  <1>2. \A q \in ToSet(doc') : q \in ToSet(doc) /\ names'[q.current] = names[q.current]
    BY PrunedNames DEF Drops
  <1> QED BY <1>1, <1>2 DEF Continues

\* ... and those that a new registration joins.
LEMMA AddsContinues ==
  ASSUME TypeInv, Adds
  PROVE  Continues
PROOF
  <1>1. Issued' = Issued + 1 /\ \A k \in 1 .. Issued : family'[k] = family[k]
    BY DEF Adds, Issued, Next1
  <1>2. PICK kept \in SUBSET ToSet(doc) :
          ToSet(doc') = kept \cup {[current |-> Next1, retired |-> << >>]}
    BY DEF Adds
  <1>3. ASSUME NEW q \in kept
        PROVE  family'[q.current] = family[q.current] /\ names'[q.current] = names[q.current]
    <2>1. q \in ToSet(doc) /\ q \in ToSet(doc') BY <1>2
    <2>2. names'[q.current] = names[q.current] BY <2>1, PrunedNames DEF Adds
    <2> QED BY <1>1, <2>1, <2>2, EndFamilies
  <1>4. family'[Next1] = Issued + 1 BY DEF Adds, Next1
  <1> QED BY <1>1, <1>2, <1>3, <1>4 DEF Continues

\* A replaced token keeps the name, if it is given to the new one, or unties.
LEMMA RotatesContinues ==
  ASSUME TypeInv, NEW r \in ToSet(doc), Rotates(r, doc', family'), Next1 \in 1 .. MaxTokens,
         NEW g,
         \/ Prune(doc', g, RotateName(r.current, Next1))
         \/ Prune(doc', g, names) /\ family[r.current] \in untied'
  PROVE  /\ Continues /\ Stays
         /\ \E q \in ToSet(doc') : family'[q.current] = family[r.current]
         /\ Prune(doc', g, RotateName(r.current, Next1)) =>
              \A q \in ToSet(doc') : family'[q.current] = family[r.current] =>
                 names'[q.current] = NameOf(r.current)
PROOF
  <1> DEFINE old == r.current
  <1>1. /\ Issued' = Issued + 1 /\ Issued \in Nat /\ \A k \in 1 .. Issued : family'[k] = family[k]
        /\ family'[Next1] = family[old] /\ old \in 1 .. Issued /\ Next1 = Issued + 1
    BY RotatesGrows DEF Issued, Next1
  <1>2. PICK retired :
          ToSet(doc') = (ToSet(doc) \ {r}) \cup {[current |-> Next1, retired |-> retired]}
    BY DEF Rotates
  <1>3. StoreOK /\ RegistryOK(doc, family) /\ names \in [1 .. MaxTokens -> 0 .. named]
    BY DEF TypeInv, StoreOK
  <1>4. ASSUME NEW q \in ToSet(doc) \ {r}
        PROVE  /\ family'[q.current] = family[q.current] /\ q.current \in 1 .. Issued
               /\ q.current # old /\ q.current \in Currents(doc') /\ q.current \in 1 .. MaxTokens
               /\ family[q.current] # family[old]
    <2>1. q.current \in 1 .. Issued /\ q.current \in 1 .. MaxTokens BY <1>3, TokenFacts
    <2>2. q.current \in Currents(doc') BY <1>2, CurrentsOf
    <2>3. family[q.current] # family[old] BY <1>3 DEF RegistryOK
    <2> QED BY <1>1, <2>1, <2>2, <2>3
  <1>5. \A q \in ToSet(doc') \ (ToSet(doc) \ {r}) : q.current = Next1 BY <1>2
  <1>6. Next1 \in Currents(doc')
    <2>1. [current |-> Next1, retired |-> retired] \in ToSet(doc') BY <1>2
    <2> QED BY <2>1, CurrentsOf
  <1>7. ASSUME Prune(doc', g, RotateName(old, Next1))
        PROVE  /\ Continues
               /\ \A q \in ToSet(doc') : family'[q.current] = family[old] =>
                     names'[q.current] = NameOf(old)
    <2> DEFINE x == NameOf(old)
    <2>1. x # 0 /\ (names[old] # 0 => x = names[old]) /\ x \in Nat
      <3>1. old \in 1 .. MaxTokens BY <1>3, TokenFacts
      <3> QED BY <1>3, <3>1, NameFacts
    <2>2. RotateName(old, Next1) = [names EXCEPT ![old] = 0, ![Next1] = x] BY DEF RotateName
    <2> HIDE DEF x
    <2>3. /\ RotateName(old, Next1) \in [1 .. MaxTokens -> Nat]
          /\ RotateName(old, Next1)[Next1] = x
          /\ \A k \in 1 .. MaxTokens : k # old /\ k # Next1 => RotateName(old, Next1)[k] = names[k]
      <3> DEFINE once == [names EXCEPT ![old] = 0]
      <3>1. names \in [1 .. MaxTokens -> Nat] BY <1>3 DEF TypeInv, StoreOK
      <3>2. once \in [1 .. MaxTokens -> Nat] /\ \A k \in 1 .. MaxTokens : k # old => once[k] = names[k]
        BY <3>1
      <3>3. RotateName(old, Next1) = [once EXCEPT ![Next1] = x] BY <2>2
      <3> HIDE DEF once
      <3> QED BY <2>1, <3>2, <3>3
    <2>4. \A k \in 1 .. MaxTokens : k \in Currents(doc') => names'[k] = RotateName(old, Next1)[k]
      BY <1>7, <2>3 DEF Prune
    <2>5. names'[Next1] = x BY <1>6, <2>3, <2>4
    <2>6. \A q \in ToSet(doc) \ {r} : names'[q.current] = names[q.current]
      BY <1>1, <1>4, <2>3, <2>4
    <2>7. Continues BY <1>1, <1>4, <1>5, <2>1, <2>5, <2>6 DEF Continues
    <2>8. \A q \in ToSet(doc') : family'[q.current] = family[old] => names'[q.current] = x
      BY <1>1, <1>4, <1>5, <2>5
    <2> QED BY <2>7, <2>8 DEF x
  <1>8. ASSUME Prune(doc', g, names), family[old] \in untied'
        PROVE  Continues
    <2>1. \A q \in ToSet(doc) \ {r} : names'[q.current] = names[q.current]
      BY <1>2, <1>8, PrunedNames
    <2> QED BY <1>1, <1>4, <1>5, <1>8, <2>1 DEF Continues
  <1>9. \E q \in ToSet(doc') : family'[q.current] = family[old]
    <2>1. [current |-> Next1, retired |-> retired] \in ToSet(doc') BY <1>2
    <2> QED BY <1>1, <2>1
  <1>10. Stays
    <2>1. \A q \in ToSet(doc) \ {r} : q \in ToSet(doc') BY <1>2
    <2> QED BY <1>4, <1>9, <2>1 DEF Stays
  <1> QED BY <1>7, <1>8, <1>9, <1>10

\* A registration has been found by a token that ends it, and is gone.
LEMMA EndsSoon ==
  ASSUME TypeInv, EndInv, NEW r \in ToSet(doc), Drops({r}), NEW t \in Tabs,
         NEW at \in {"revoking", "leaving"}, NEW session, NEW fresh, NEW n,
         Shows(t, at, r.current, session, NameOf(r.current), fresh, n),
         untied' = untied \cup Crosses(family[r.current]), UNCHANGED sessions, ~Ending(t)
  PROVE  EndInv'
PROOF
  <1> DEFINE F == family[r.current]
             x == NameOf(r.current)
  <1>0. r.current # 0 BY EndFamilies
  <1>1. /\ UNCHANGED family /\ ToSet(doc') = ToSet(doc) \ {r} /\ Prune(doc', grace, names)
        /\ RegistryOK(doc, family) /\ StoreOK
    BY DEF Drops, TypeInv, StoreOK
  <1>2. \A q \in ToSet(doc') : /\ q \in ToSet(doc) /\ names'[q.current] = names[q.current]
                               /\ family[q.current] # F
    <2>1. \A q \in ToSet(doc') : names'[q.current] = names[q.current] BY <1>1, PrunedNames
    <2> QED BY <1>1, <2>1 DEF RegistryOK
  <1>3. /\ tab'[t].at = at /\ tab'[t].token = r.current /\ tab'[t].name = x
        /\ \A u \in Tabs \ {t} : tab'[u] = tab[u]
    BY DEF Shows
  <1>4. x # 0 /\ (names[r.current] # 0 => x = names[r.current])
    <2>1. r.current \in 1 .. MaxTokens BY <1>1, TokenFacts
    <2> QED BY <1>1, <2>1, NameFacts
  <1>5. \A u \in Tabs \ {t} : Ending(u)' <=> Ending(u) BY <1>3 DEF Ending
  <1>6. \A u \in Tabs : tab[u].at = "joining" /\ family[tab[u].token] = F => F \in untied'
    BY DEF Crosses
  <1>7. untied \subseteq untied' /\ UNCHANGED sessions OBVIOUS
  <1> HIDE DEF x, F
  <1>8. ASSUME NEW f, NoneEnding(f), f # F PROVE NoneEnding(f)'
    <2>1. ASSUME NEW u \in Tabs, Ending(u)' PROVE family'[tab'[u].token] # f
      BY <1>1, <1>3, <1>5, <1>8, <2>1 DEF NoneEnding, F
    <2> QED BY <2>1 DEF NoneEnding
  <1>9. ASSUME NEW name, NEW f, Tied(name, f) PROVE Tied(name, f)'
    <2>1. ASSUME NEW q \in ToSet(doc'), family'[q.current] = f
          PROVE  name # 0 /\ names'[q.current] = name
      BY <1>1, <1>2, <1>9, <2>1 DEF Tied
    <2>2. ASSUME NEW u \in Tabs, Ending(u)', family'[tab'[u].token] = f
          PROVE  name # 0 /\ tab'[u].name = name
      <3>1. CASE u = t BY <1>1, <1>3, <1>4, <1>9, <2>2, <3>1 DEF Tied
      <3>2. CASE u # t BY <1>1, <1>3, <1>5, <1>9, <2>2, <3>2 DEF Tied
      <3> QED BY <3>1, <3>2
    <2>3. Held(f)'
      <3>1. CASE f = F
        <4>1. Ending(t)' BY <1>0, <1>3 DEF Ending
        <4> QED BY <1>1, <1>3, <3>1, <4>1 DEF Held, NoneEnding, F
      <3>2. CASE f # F /\ \E q \in ToSet(doc) : family[q.current] = f
        BY <1>1, <3>2 DEF Held, F
      <3>3. CASE ~NoneEnding(f)
        <4>1. PICK u \in Tabs : Ending(u) /\ family[tab[u].token] = f BY <3>3 DEF NoneEnding
        <4>2. u # t BY <4>1
        <4>3. Ending(u)' /\ family'[tab'[u].token] = f BY <1>1, <1>3, <1>5, <4>1, <4>2
        <4> QED BY <4>3 DEF Held, NoneEnding
      <3> QED BY <1>9, <3>1, <3>2, <3>3 DEF Tied, Held
    <2> QED BY <2>1, <2>2, <2>3 DEF Tied
  <1>10. ASSUME NEW q \in ToSet(doc'), NEW f, f = family'[q.current]
         PROVE  NoneEnding(f)'
    BY <1>1, <1>2, <1>7, <1>8, <1>10 DEF EndInv
  <1>11. ASSUME NEW s \in DOMAIN sessions', sessions'[s].alive,
                sessions'[s].family \notin untied' \cup {0}, NEW name, NEW f,
                name = sessions'[s].name, f = sessions'[s].family
         PROVE  Tied(name, f)'
    BY <1>7, <1>9, <1>11 DEF EndInv
  <1>12. ASSUME NEW u \in Tabs, tab'[u].at = "joining", NEW name, NEW f, name = tab'[u].name,
                f = family'[tab'[u].token], f \notin untied'
         PROVE  Tied(name, f)' /\ NoneEnding(f)'
    <2>1. u # t BY <1>3, <1>12
    <2>2. tab[u].at = "joining" /\ name = tab[u].name /\ f = family[tab[u].token]
      BY <1>1, <1>3, <1>12, <2>1
    <2>3. f # F BY <1>6, <1>12, <2>2
    <2>4. Tied(name, f) /\ NoneEnding(f) BY <1>7, <1>12, <2>2 DEF EndInv
    <2> QED BY <1>8, <1>9, <2>3, <2>4
  <1>13. \A s \in DOMAIN sessions' :
           sessions'[s].alive /\ sessions'[s].family \notin untied' \cup {0} =>
             Tied(sessions[s].name, sessions[s].family)'
    BY <1>11 DEF Tied, Held, NoneEnding
  <1>14. \A u \in Tabs :
           tab'[u].at = "joining" /\ family'[tab'[u].token] \notin untied' =>
             Tied(tab[u].name, family[tab[u].token])' /\ NoneEnding(family[tab[u].token])'
    BY <1>12 DEF Tied, Held, NoneEnding
  <1>15. \A q \in ToSet(doc') : NoneEnding(family[q.current])'
    BY <1>10 DEF NoneEnding
  <1> QED BY <1>13, <1>14, <1>15 DEF EndInv

\* Revoking leaves the sessions that do not have the name.
LEMMA RevokedSessions ==
  ASSUME TypeInv, NEW name, NEW s0,
         \/ sessions' = Revoked(name)
         \/ sessions' = [Revoked(name) EXCEPT ![s0] = NoSession]
  PROVE  \A s \in DOMAIN sessions' : sessions'[s].alive =>
            /\ s \in DOMAIN sessions /\ sessions'[s] = sessions[s]
            /\ name = 0 \/ sessions[s].name # name
PROOF
  <1> DEFINE R == Revoked(name)
  <1>1. NoSession.alive = FALSE BY DEF NoSession
  <1>2. /\ DOMAIN R = DOMAIN sessions
        /\ \A s \in DOMAIN sessions : R[s].alive =>
              R[s] = sessions[s] /\ (name = 0 \/ sessions[s].name # name)
    BY <1>1 DEF Revoked
  <1>3. sessions' = R \/ sessions' = [R EXCEPT ![s0] = NoSession] OBVIOUS
  <1>4. R = [s \in DOMAIN R |-> R[s]] BY DEF Revoked
  <1> HIDE DEF R
  <1>5. /\ DOMAIN sessions' = DOMAIN R
        /\ \A s \in DOMAIN R : sessions'[s] = R[s] \/ sessions'[s] = NoSession
    BY <1>3, <1>4
  <1> QED BY <1>1, <1>2, <1>5

\* The sessions of a registration end.
LEMMA EndsNow ==
  ASSUME TypeInv, EndInv, NEW t \in Tabs, Ending(t), NEW s0,
         \/ sessions' = Revoked(tab[t].name)
         \/ sessions' = [Revoked(tab[t].name) EXCEPT ![s0] = NoSession],
         UNCHANGED <<doc, names, family, untied>>,
         NEW at \in {"refused", "left"}, NEW token, NEW session, NEW name0, NEW fresh, NEW n,
         Shows(t, at, token, session, name0, fresh, n)
  PROVE  EndInv'
PROOF
  <1> DEFINE F == family[tab[t].token]
  <1>1. PICK nm : nm = tab[t].name OBVIOUS
  <1>2. \A s \in DOMAIN sessions' : sessions'[s].alive =>
            /\ s \in DOMAIN sessions /\ sessions'[s] = sessions[s]
            /\ nm = 0 \/ sessions[s].name # nm
    BY <1>1, RevokedSessions
  <1>3. tab'[t].at = at /\ \A u \in Tabs \ {t} : tab'[u] = tab[u] BY DEF Shows
  <1>4. \A u \in Tabs : Ending(u)' => Ending(u) /\ tab'[u] = tab[u] BY <1>3 DEF Ending
  <1>5. \A u \in Tabs : tab'[u].at = "joining" => tab'[u] = tab[u] BY <1>3
  <1>6. UNCHANGED <<doc, names, family, untied>> OBVIOUS
  <1>7. ASSUME NEW f, NoneEnding(f) PROVE NoneEnding(f)' /\ f # F
    BY <1>4, <1>6, <1>7 DEF NoneEnding
  <1>8. ASSUME NEW name, NEW f, Tied(name, f), f # F PROVE Tied(name, f)'
    <2>1. ASSUME NEW u \in Tabs, Ending(u)', family'[tab'[u].token] = f
          PROVE  name # 0 /\ tab'[u].name = name
      BY <1>4, <1>6, <1>8, <2>1 DEF Tied
    <2>2. Held(f)'
      <3>1. CASE \E q \in ToSet(doc) : family[q.current] = f BY <1>6, <3>1 DEF Held
      <3>2. CASE ~NoneEnding(f)
        <4>1. PICK u \in Tabs : Ending(u) /\ family[tab[u].token] = f BY <3>2 DEF NoneEnding
        <4>2. u # t BY <1>8, <4>1 DEF F
        <4>3. Ending(u)' /\ family'[tab'[u].token] = f BY <1>3, <1>6, <4>1, <4>2 DEF Ending
        <4> QED BY <4>3 DEF Held, NoneEnding
      <3> QED BY <1>8, <3>1, <3>2 DEF Tied, Held
    <2> QED BY <1>6, <1>8, <2>1, <2>2 DEF Tied
  <1>9. ASSUME NEW q \in ToSet(doc'), NEW f, f = family'[q.current]
        PROVE  NoneEnding(f)'
    <2>1. NoneEnding(f) BY <1>6, <1>9 DEF EndInv
    <2> QED BY <1>6, <1>7, <2>1
  <1>10. ASSUME NEW s \in DOMAIN sessions', sessions'[s].alive,
                sessions'[s].family \notin untied' \cup {0}, NEW name, NEW f,
                name = sessions'[s].name, f = sessions'[s].family
         PROVE  Tied(name, f)'
    <2>1. /\ s \in DOMAIN sessions /\ sessions'[s] = sessions[s] /\ (nm = 0 \/ name # nm)
      BY <1>2, <1>10
    <2>2. Tied(name, f) BY <1>6, <1>10, <2>1 DEF EndInv
    <2>3. f # F BY <1>1, <2>1, <2>2 DEF Tied
    <2> QED BY <1>8, <2>2, <2>3
  <1>11. ASSUME NEW u \in Tabs, tab'[u].at = "joining", NEW name, NEW f, name = tab'[u].name,
                f = family'[tab'[u].token], f \notin untied'
         PROVE  Tied(name, f)' /\ NoneEnding(f)'
    <2>1. tab'[u] = tab[u] BY <1>5, <1>11
    <2>2. Tied(name, f) /\ NoneEnding(f) BY <1>6, <1>11, <2>1 DEF EndInv
    <2> QED BY <1>7, <1>8, <2>2
  <1>13. \A s \in DOMAIN sessions' :
           sessions'[s].alive /\ sessions'[s].family \notin untied' \cup {0} =>
             Tied(sessions[s].name, sessions[s].family)'
    BY <1>10 DEF Tied, Held, NoneEnding
  <1>14. \A u \in Tabs :
           tab'[u].at = "joining" /\ family'[tab'[u].token] \notin untied' =>
             Tied(tab[u].name, family[tab[u].token])' /\ NoneEnding(family[tab[u].token])'
    BY <1>11 DEF Tied, Held, NoneEnding
  <1>15. \A q \in ToSet(doc') : NoneEnding(family[q.current])'
    BY <1>9 DEF NoneEnding
  <1> QED BY <1>13, <1>14, <1>15 DEF EndInv

\* A tab moves, and the sessions and the store stay as they are, or lose something.
LEMMA QuietStep ==
  ASSUME TypeInv, TypeInv', EndInv, Continues, Stays, SessionsFrom, NEW t \in Tabs,
         NEW at, NEW token, NEW session, NEW name, NEW fresh, NEW n,
         Shows(t, at, token, session, name, fresh, n), at # "joining",
         at \notin {"revoking", "leaving"} \/ token = 0, ~Ending(t), untied \subseteq untied'
  PROVE  EndInv'
PROOF
  <1>1. NoneEndsNow /\ JoiningFrom BY QuietTab
  <1> QED BY <1>1, EndsOn

\* The steps of a page touch neither a registration nor a session.
LEMMA PageEnds ==
  ASSUME TypeInv, TypeInv', EndInv, NEW t \in Tabs,
         Load(t) \/ Refuse(t) \/ OpenLink(t) \/ LinkUsed(t) \/ SignOut(t)
         \/ Adopt(t) \/ Dropped(t) \/ Lose(t)
  PROVE  EndInv'
PROOF
  <1>1. UNCHANGED <<doc, names, family, sessions, untied>>
    BY DEF Load, Refuse, OpenLink, LinkUsed, SignOut, Adopt, Dropped, Lose, storeVars, sessionVars,
       ghostVars
  <1>2. Continues /\ Stays /\ SessionsFrom /\ ~Ending(t)
    <2>1. ~Ending(t)
      BY DEF Load, Refuse, OpenLink, LinkUsed, SignOut, InSession, Adopt, Dropped, Lose, Ending
    <2> QED BY <1>1, <2>1, SameContinues, SessionsStay
  <1>3. TabsOK BY DEF TypeInv, RestOK
  <1>4. EndInv'
    <2>1. Presents(t) => EndInv'
      <3>1. Presents(t) => Shows(t, "recovering", stored[t[1]], cookie[t[1]], 0, FALSE, 0)
        BY <1>3, TabForms DEF Presents
      <3> QED BY <1>1, <1>2, <3>1, QuietStep
    <2>2. Goes(t, Closed) => EndInv'
      <3>1. Goes(t, Closed) => Shows(t, "closed", 0, 0, 0, FALSE, 0) BY <1>3, TabForms
      <3> QED BY <1>1, <1>2, <3>1, QuietStep
    <2>3. CASE Load(t) BY <2>1, <2>3 DEF Load
    <2>4. CASE Refuse(t)
      <3>1. Shows(t, "refused", tab[t].token, tab[t].session, tab[t].name, tab[t].fresh, tab[t].n)
        BY <1>3, <2>4, TabForms DEF Refuse
      <3> QED BY <1>1, <1>2, <3>1, QuietStep
    <2>5. CASE OpenLink(t)
      <3>1. Shows(t, "linked", stored[t[1]], cookie[t[1]], 0, FALSE, 0)
        BY <1>3, <2>5, TabForms DEF OpenLink
      <3> QED BY <1>1, <1>2, <3>1, QuietStep
    <2>6. CASE LinkUsed(t) BY <2>1, <2>2, <2>6 DEF LinkUsed
    <2>7. CASE SignOut(t)
      <3>1. Shows(t, "signing", stored[t[1]], tab[t].session, tab[t].name, tab[t].fresh, tab[t].n)
        BY <1>3, <2>7, TabForms DEF SignOut
      <3> QED BY <1>1, <1>2, <3>1, QuietStep
    <2>8. CASE Adopt(t)
      <3>1. Shows(t, "open", 0, tab[t].session, 0, FALSE, 0) BY <1>3, <2>8, TabForms DEF Adopt
      <3> QED BY <1>1, <1>2, <3>1, QuietStep
    <2>9. CASE Dropped(t) \/ Lose(t) BY <2>2, <2>9 DEF Dropped, Lose
    <2> QED BY <2>3, <2>4, <2>5, <2>6, <2>7, <2>8, <2>9
  <1> QED BY <1>4

\* A session that is entered bears the name its recovery was given.
LEMMA EnterEnds ==
  ASSUME TypeInv, TypeInv', EndInv, NEW t \in Tabs, JoinOrIssue(t) \/ Bootstrap(t)
  PROVE  EndInv'
PROOF
  <1>1. UNCHANGED <<doc, names, family, untied>>
    BY DEF JoinOrIssue, Bootstrap, storeVars, ghostVars
  <1>2. Continues /\ Stays /\ ~Ending(t)
    <2>1. ~Ending(t) BY DEF JoinOrIssue, Bootstrap, Ending
    <2> QED BY <1>1, <2>1, SameContinues
  <1>3. TabsOK /\ SessionsOK BY DEF TypeInv, RestOK
  <1>4. PICK at, s :
          /\ at \in {"entered", "registering"} /\ Enters(t, at, s)
          /\ s.alive /\ s.family # 0 =>
                \/ \E x \in DOMAIN sessions : sessions[x].alive /\ s = sessions[x]
                \/ tab[t].at = "joining" /\ tab[t].name = s.name /\ family[tab[t].token] = s.family
    <2>1. CASE JoinOrIssue(t)
      <3> DEFINE s == [alive |-> TRUE, name |-> tab[t].name, family |-> family[tab[t].token]]
      <3>1. Enters(t, "entered", s) /\ s.name = tab[t].name /\ s.family = family[tab[t].token]
            /\ tab[t].at = "joining"
        BY <2>1 DEF JoinOrIssue
      <3> HIDE DEF s
      <3> QED BY <3>1
    <2>2. CASE Bootstrap(t)
      <3> DEFINE s == IF Joins(t) THEN sessions[tab[t].session]
                      ELSE [NoSession EXCEPT !.alive = TRUE]
      <3>1. Enters(t, "registering", s) BY <2>2 DEF Bootstrap
      <3>2. Joins(t) => tab[t].session \in DOMAIN sessions /\ s = sessions[tab[t].session]
        BY <1>3, TabFacts, EntranceAssumption DEF Joins, SessionsOK
      <3>3. ~Joins(t) => s.family = 0 BY DEF NoSession
      <3>4. Joins(t) => sessions[tab[t].session].alive BY DEF Joins
      <3> HIDE DEF s
      <3> QED BY <3>1, <3>2, <3>3, <3>4
    <2> QED BY <2>1, <2>2
  <1>5. /\ sessions' = [sessions EXCEPT ![SessionFor(t)] = s]
        /\ Shows(t, at, tab[t].token, SessionFor(t), tab[t].name, ~Joins(t), tab[t].n)
    BY <1>3, <1>4, TabForms DEF Enters
  <1>6. SessionsFrom
    <2>1. DOMAIN sessions' = DOMAIN sessions
          /\ \A x \in DOMAIN sessions : sessions'[x] = sessions[x] \/ sessions'[x] = s
      BY <1>3, <1>5 DEF SessionsOK
    <2> QED BY <1>4, <2>1 DEF SessionsFrom
  <1>7. at \in {"entered", "registering"} BY <1>4
  <1> QED BY <1>1, <1>2, <1>5, <1>6, <1>7, QuietStep

\* A revocation ends the sessions with the name of the registration it found.
LEMMA RevokeEnds ==
  ASSUME TypeInv, TypeInv', EndInv, NEW t \in Tabs, RevokeRegistration(t) \/ Leave(t)
  PROVE  EndInv'
PROOF
  <1>1. UNCHANGED <<doc, names, family, untied>>
    BY DEF RevokeRegistration, Leave, storeVars
  <1>2. TabsOK BY DEF TypeInv, RestOK
  <1>3. PICK at \in {"refused", "left"} :
          Shows(t, at, tab[t].token, tab[t].session, tab[t].name, tab[t].fresh, tab[t].n)
    BY <1>2, TabForms DEF RevokeRegistration, Leave
  <1>4. \/ sessions' = Revoked(tab[t].name)
        \/ sessions' = [Revoked(tab[t].name) EXCEPT ![tab[t].session] = NoSession]
    BY DEF RevokeRegistration, Leave
  <1>5. CASE RevokeRegistration(t) \/ (Leave(t) /\ tab[t].token # 0)
    <2>1. Ending(t)
      BY <1>2, <1>5 DEF RevokeRegistration, Leave, Ending, TabsOK
    <2> QED BY <1>1, <1>3, <1>4, <2>1, EndsNow
  <1>6. CASE Leave(t) /\ tab[t].token = 0
    <2>1. ~Ending(t) BY <1>6 DEF Ending
    <2>2. Continues /\ Stays BY <1>1, SameContinues
    <2>3. SessionsFrom
      <3>1. \A s \in DOMAIN sessions' : sessions'[s].alive =>
              s \in DOMAIN sessions /\ sessions'[s] = sessions[s]
        BY <1>4, RevokedSessions
      <3> QED BY <3>1 DEF SessionsFrom
    <2> QED BY <1>1, <1>3, <2>1, <2>2, <2>3, QuietStep
  <1> QED BY <1>5, <1>6

\* A registration that leaves the document leaves a request that ends its sessions.
LEMMA StoreEnds ==
  ASSUME TypeInv, TypeInv', EndInv, NEW t \in Tabs,
         TakenForCopy(t) \/ Forget(t) \/ Register(t)
  PROVE  EndInv'
PROOF
  <1>0. ~Ending(t) BY DEF TakenForCopy, Forget, Register, Ending
  <1>1. CASE TakenForCopy(t)
    <2>1. PICK r \in ToSet(doc) :
            /\ tab[t].token \in ToSet(r.retired)
            /\ \/ /\ Drops({r}) /\ named' = NamedAfter(r.current)
                  /\ Shows(t, "revoking", r.current, tab[t].session, NameOf(r.current),
                           tab[t].fresh, tab[t].n)
                  /\ untied' = untied \cup Crosses(family[tab[t].token])
               \/ /\ Drops({r}) \/ Drops({})
                  /\ Shows(t, "closed", 0, 0, 0, FALSE, 0) /\ Unties
      BY <1>1, TakenFacts
    <2>2. UNCHANGED sessions BY <1>1, TakenFacts DEF sessionVars
    <2>3. family[tab[t].token] = family[r.current]
      BY <2>1 DEF TypeInv, StoreOK, RegistryOK, Remembers
    <2>4. CASE /\ Drops({r})
               /\ Shows(t, "revoking", r.current, tab[t].session, NameOf(r.current),
                        tab[t].fresh, tab[t].n)
               /\ untied' = untied \cup Crosses(family[tab[t].token])
      BY <1>0, <2>2, <2>3, <2>4, EndsSoon
    <2>5. CASE /\ Drops({r}) \/ Drops({})
               /\ Shows(t, "closed", 0, 0, 0, FALSE, 0) /\ Unties
      <3>1. Continues /\ Stays BY <2>5, DropsContinues, DropsStays
      <3>2. SessionsFrom BY <2>2, SessionsStay
      <3> QED BY <1>0, <2>2, <2>5, <3>1, <3>2, QuietStep DEF Unties
    <2> QED BY <2>1, <2>4, <2>5
  <1>2. CASE Forget(t)
    <2>1. UNCHANGED sessions BY <1>2, ForgetFacts DEF sessionVars
    <2>2. SessionsFrom BY <2>1, SessionsStay
    <2>3. CASE /\ Drops({}) /\ UNCHANGED <<named, untied>>
               /\ Shows(t, "leaving", 0, tab[t].session, 0, tab[t].fresh, tab[t].n)
      <3>1. Continues BY <2>3, DropsContinues
      <3>2. Stays BY <2>3, UntiesStays DEF Drops
      <3> QED BY <1>0, <2>1, <2>2, <2>3, <3>1, <3>2, QuietStep
    <2>4. ASSUME NEW r \in ToSet(doc), Drops({r}),
                 Shows(t, "leaving", r.current, tab[t].session, NameOf(r.current),
                       tab[t].fresh, tab[t].n),
                 untied' = untied \cup Crosses(family[r.current])
          PROVE  EndInv'
      BY <1>0, <2>1, <2>4, EndsSoon
    <2>5. CASE /\ Drops({}) \/ \E r \in ToSet(doc) : Drops({r})
               /\ Shows(t, "open", tab[t].token, tab[t].session, tab[t].name, tab[t].fresh, tab[t].n)
               /\ Unties
      <3>1. Continues /\ Stays BY <2>5, DropsContinues, DropsStays
      <3> QED BY <1>0, <2>1, <2>2, <2>5, <3>1, QuietStep DEF Unties
    <2> QED BY <1>2, <2>3, <2>4, <2>5, ForgetFacts
  <1>3. CASE Register(t)
    <2>1. Unties BY <1>3, RegisterFacts
    <2>2. Drops({}) \/ Adds BY <1>3, RegisterFacts
    <2>3. Continues /\ Stays
      <3>1. Continues BY <2>2, DropsContinues, AddsContinues
      <3>2. \A k \in 1 .. Issued : family'[k] = family[k] BY <2>2 DEF Drops, Adds
      <3> QED BY <2>1, <3>1, <3>2, UntiesStays DEF Unties
    <2>4. sessions' = sessions \/ \E s : sessions' = [sessions EXCEPT ![s] = NoSession]
      BY <1>3, RegisterFacts
    <2>5. SessionsFrom BY <2>4, SessionsStay
    <2>6. \E at, token, session, name, fresh, n :
            Shows(t, at, token, session, name, fresh, n) /\ at \in {"entered", "closed"}
      BY <1>3, RegisterFacts
    <2> QED BY <1>0, <2>1, <2>3, <2>5, <2>6, QuietStep DEF Unties
  <1> QED BY <1>1, <1>2, <1>3

\* A recovery that goes on to enter ends nothing, and has the name of its registration.
LEMMA RecoversEnds ==
  ASSUME TypeInv, TypeInv', EndInv, Continues, Stays, SessionsFrom, NEW t \in Tabs, ~Ending(t),
         NEW token, NEW session, NEW name, NEW fresh, NEW n,
         Shows(t, "joining", token, session, name, fresh, n),
         UNCHANGED untied, name # 0, NEW r \in ToSet(doc),
         family'[token] = family[r.current],
         \E q \in ToSet(doc') : family'[q.current] = family[r.current],
         \A q \in ToSet(doc') : family'[q.current] = family[r.current] => names'[q.current] = name
  PROVE  EndInv'
PROOF
  <1>1. /\ tab'[t].at = "joining" /\ tab'[t].token = token /\ tab'[t].name = name
        /\ \A u \in Tabs \ {t} : tab'[u] = tab[u]
    BY DEF Shows
  <1>2. NoneEndsNow
    <2>1. ~Ending(t)' BY <1>1 DEF Ending
    <2>2. \A u \in Tabs \ {t} : Ending(u)' <=> Ending(u) BY <1>1 DEF Ending
    <2> QED BY <1>1, <2>1, <2>2 DEF NoneEndsNow
  <1>3. JoiningFrom
    <2> SUFFICES ASSUME NEW u \in Tabs, tab'[u].at = "joining"
                 PROVE  \/ /\ tab[u].at = "joining" /\ tab'[u].name = tab[u].name
                           /\ tab'[u].token = tab[u].token
                        \/ /\ \E s \in ToSet(doc) : family[s.current] = family'[tab'[u].token]
                           /\ \E q \in ToSet(doc') : family'[q.current] = family'[tab'[u].token]
                           /\ tab'[u].name # 0
                           /\ \A q \in ToSet(doc') : family'[q.current] = family'[tab'[u].token] =>
                                 names'[q.current] = tab'[u].name
      BY DEF JoiningFrom
    <2>1. CASE u # t BY <1>1, <2>1
    <2>2. CASE u = t BY <1>1, <2>2
    <2> QED BY <2>1, <2>2
  <1> QED BY <1>2, <1>3, EndsOn

\* A recovery names the registration it rotates, and is tied to it by that name.
LEMMA RecoverEnds ==
  ASSUME TypeInv, TypeInv', EndInv, NEW t \in Tabs, Recover(t)
  PROVE  EndInv'
PROOF
  <1>1. PICK r \in ToSet(doc) :
           /\ r.current = tab[t].token /\ Next1 \in 1 .. MaxTokens
           /\ UNCHANGED <<sessionVars, browserVars, adopted, lost>>
           /\ \/ /\ Rotates(r, doc', family')
                 /\ Prune(doc', RotateCachedTokens(r.current, Next1), RotateName(r.current, Next1))
                 /\ named' = NamedAfter(r.current) /\ answers' = answers + 1
                 /\ Shows(t, "joining", Next1, tab[t].session, NameOf(r.current), tab[t].fresh,
                          answers + 1)
                 /\ UNCHANGED <<excused, untied>>
              \/ /\ doc' = doc /\ UNCHANGED <<family, excused, untied, answers, named>>
                 /\ Prune(doc, grace, names) /\ Shows(t, "closed", 0, 0, 0, FALSE, 0)
              \/ /\ Rotates(r, doc', family')
                 /\ excused' = excused \cup {family[r.current]}
                 /\ untied' = untied \cup {family[r.current]}
                 /\ Prune(doc', grace, names) /\ Shows(t, "closed", 0, 0, 0, FALSE, 0)
                 /\ UNCHANGED <<answers, named>>
    BY RecoverFacts
  <1>0. ~Ending(t) BY DEF Recover, Ending
  <1>2. UNCHANGED sessions BY <1>1 DEF sessionVars
  <1>3. SessionsFrom BY <1>2, SessionsStay
  <1>4. CASE /\ Rotates(r, doc', family')
             /\ Prune(doc', RotateCachedTokens(r.current, Next1), RotateName(r.current, Next1))
             /\ Shows(t, "joining", Next1, tab[t].session, NameOf(r.current), tab[t].fresh,
                      answers + 1)
             /\ UNCHANGED <<excused, untied>>
    <2>1. /\ Continues /\ Stays
          /\ \E q \in ToSet(doc') : family'[q.current] = family[r.current]
          /\ \A q \in ToSet(doc') : family'[q.current] = family[r.current] =>
                names'[q.current] = NameOf(r.current)
      BY <1>1, <1>4, RotatesContinues
    <2>2. NameOf(r.current) # 0
      <3>1. r.current \in 1 .. MaxTokens BY TokenFacts DEF TypeInv
      <3> QED BY <3>1, NameFacts DEF TypeInv
    <2>3. family'[Next1] = family[r.current] BY <1>4 DEF Rotates
    <2> QED BY <1>0, <1>2, <1>3, <1>4, <2>1, <2>2, <2>3, RecoversEnds
  <1>5. CASE /\ doc' = doc /\ UNCHANGED <<family, untied>>
             /\ Prune(doc, grace, names) /\ Shows(t, "closed", 0, 0, 0, FALSE, 0)
    <2>1. Drops({}) BY <1>5, NoneGo
    <2>2. Continues /\ Stays BY <1>5, <2>1, DropsContinues, UntiesStays
    <2> QED BY <1>0, <1>2, <1>3, <1>5, <2>2, QuietStep
  <1>6. CASE /\ Rotates(r, doc', family')
             /\ untied' = untied \cup {family[r.current]}
             /\ Prune(doc', grace, names) /\ Shows(t, "closed", 0, 0, 0, FALSE, 0)
    <2>1. Continues /\ Stays BY <1>1, <1>6, RotatesContinues
    <2> QED BY <1>0, <1>2, <1>3, <1>6, <2>1, QuietStep
  <1> QED BY <1>1, <1>4, <1>5, <1>6

\* So is a recovery with a token in its grace.
LEMMA GraceEnters ==
  ASSUME TypeInv, TypeInv', EndInv, NEW t \in Tabs, RecoverInGrace(t)
  PROVE  EndInv'
PROOF
  <1>1. /\ UNCHANGED <<doc, grace, sessionVars, browserVars, family, adopted, lost, excused, untied>>
        /\ answers' = answers + 1
    BY GraceFacts
  <1>2. PICK r \in ToSet(doc), e \in grace :
           /\ e.token = r.current /\ e.old = tab[t].token /\ family[e.old] = family[r.current]
           /\ names' = [names EXCEPT ![r.current] = NameOf(r.current)]
           /\ named' = NamedAfter(r.current)
           /\ Shows(t, "joining", r.current, tab[t].session, NameOf(r.current), tab[t].fresh,
                    answers + 1)
    BY GraceFacts
  <1>3. UNCHANGED <<sessions, untied, doc, family, Issued>>
    BY <1>1 DEF sessionVars, Issued
  <1>4. SessionsFrom BY <1>3, SessionsStay
  <1> DEFINE k == r.current
             x == NameOf(k)
  <1>5. k \in 1 .. MaxTokens BY TokenFacts DEF TypeInv
  <1>6. x # 0 /\ (names[k] # 0 => x = names[k]) BY <1>5, NameFacts DEF TypeInv
  <1>7. names \in [1 .. MaxTokens -> 0 .. named] BY DEF TypeInv, StoreOK
  <1>8. names' = [names EXCEPT ![k] = x] BY <1>2
  <1> HIDE DEF x
  <1>9. names'[k] = x /\ \A j : j # k => names'[j] = names[j]
    <2>1. names'[k] = x BY <1>5, <1>7, <1>8
    <2>2. ASSUME NEW j, j # k PROVE names'[j] = names[j] BY <1>7, <1>8, <2>2
    <2> QED BY <2>1, <2>2
  <1>10. Continues /\ Stays BY <1>3, <1>6, <1>9 DEF Continues, Stays
  <1>11. \A q \in ToSet(doc') : family'[q.current] = family[k] => names'[q.current] = x
    <2>1. \A q \in ToSet(doc) : family[q.current] = family[k] => q = r
      BY DEF TypeInv, StoreOK, RegistryOK
    <2> QED BY <1>3, <1>9, <2>1
  <1>12. Shows(t, "joining", k, tab[t].session, x, tab[t].fresh, answers + 1) BY <1>2 DEF x
  <1>13. ~Ending(t) BY DEF RecoverInGrace, Ending
  <1> QED BY <1>3, <1>4, <1>6, <1>10, <1>11, <1>12, <1>13, RecoversEnds

\* What happens around the engine signs nobody out, and gives no session a name.
LEMMA OutsideEnds ==
  ASSUME TypeInv, TypeInv', EndInv,
         Reissue \/ GraceEnds \/ SessionExpires \/ RegistrationExpires \/ Copy \/ UNCHANGED vars
  PROVE  EndInv'
PROOF
  <1>1. UNCHANGED <<tab, family, untied>>
    BY DEF Reissue, GraceEnds, SessionExpires, RegistrationExpires, Copy, ghostVars, vars
  <1>2. NoneEndsNow /\ JoiningFrom BY <1>1 DEF NoneEndsNow, JoiningFrom, Ending
  <1>3. SessionsFrom
    <2>1. sessions' = sessions \/ \E s : sessions' = [sessions EXCEPT ![s] = NoSession]
      BY DEF Reissue, GraceEnds, SessionExpires, RegistrationExpires, Copy, sessionVars, vars
    <2> QED BY <2>1, SessionsStay
  <1>4. Continues /\ Stays
    <2>1. CASE RegistrationExpires
      <3>1. doc # << >> /\ doc' = Tail(doc) /\ Prune(doc', grace, names)
        BY <2>1 DEF RegistrationExpires
      <3>2. doc \in Seq(Registration) /\ Distinct(doc) BY DEF TypeInv, StoreOK, RegistryOK
      <3>3. ToSet(doc') \subseteq ToSet(doc) BY <3>1, <3>2, TailOne
      <3>4. \A q \in ToSet(doc') : q \in ToSet(doc) /\ names'[q.current] = names[q.current]
        BY <3>1, <3>3, PrunedNames
      <3>5. UNCHANGED Issued BY <1>1 DEF Issued
      <3>6. ASSUME NEW r \in ToSet(doc), r \notin ToSet(doc') PROVE Unused(family[r.current])
        <4>1. r = Head(doc) BY <3>1, <3>2, <3>6, TailOne
        <4>2. \A s \in DOMAIN sessions : sessions[s].alive =>
                 sessions[s].family # family[Head(doc).current]
          BY <2>1 DEF RegistrationExpires
        <4>3. \A t \in Tabs : tab[t].at # "joining" BY <2>1 DEF RegistrationExpires, Resting
        <4> QED BY <4>1, <4>2, <4>3 DEF Unused
      <3>7. Stays BY <1>1, <3>6 DEF Stays
      <3> QED BY <1>1, <3>4, <3>5, <3>7 DEF Continues
    <2>2. CASE ~RegistrationExpires
      <3>1. UNCHANGED <<doc, names>>
        BY <2>2 DEF Reissue, GraceEnds, SessionExpires, Copy, storeVars, vars
      <3> QED BY <1>1, <3>1, SameContinues
    <2> QED BY <2>1, <2>2
  <1> QED BY <1>2, <1>3, <1>4, EndsOn

\* A restart of the engine leaves no session, no request and no name.
LEMMA RestartEnds ==
  ASSUME TypeInv, EndInv, NEW moved \in BOOLEAN, Restart(moved)
  PROVE  EndInv'
PROOF
  <1>1. /\ doc' = IF moved THEN << >> ELSE doc
        /\ sessions' = [s \in DOMAIN sessions |-> NoSession]
        /\ tab' = [t \in Tabs |-> IF tab[t].at = "open" THEN tab[t] ELSE Closed]
        /\ UNCHANGED family
    BY DEF Restart
  <1>2. \A s \in DOMAIN sessions' : ~sessions'[s].alive BY <1>1 DEF NoSession
  <1>3. \A t \in Tabs : tab'[t].at \in {"open", "closed"} BY <1>1 DEF Closed
  <1>4. \A t \in Tabs : ~Ending(t)' BY <1>3 DEF Ending
  <1> QED BY <1>2, <1>3, <1>4 DEF EndInv, NoneEnding

\* Every step keeps the ties.
LEMMA NextEndInv ==
  ASSUME TypeInv, TypeInv', EndInv, [Next]_vars
  PROVE  EndInv'
PROOF
  <1>1. ASSUME NEW t \in Tabs, Page(t) \/ Arrives(t) PROVE EndInv'
    BY <1>1, PageEnds DEF Page, Arrives
  <1>2. ASSUME NEW t \in Tabs, Engine(t) PROVE EndInv'
    <2>1. CASE Refuse(t) \/ LinkUsed(t) BY <2>1, PageEnds
    <2>2. CASE JoinOrIssue(t) \/ Bootstrap(t) BY <2>2, EnterEnds
    <2>3. CASE RevokeRegistration(t) \/ Leave(t) BY <2>3, RevokeEnds
    <2>4. CASE Recover(t) BY <2>4, RecoverEnds
    <2>5. CASE RecoverInGrace(t) BY <2>5, GraceEnters
    <2>6. CASE TakenForCopy(t) \/ Forget(t) \/ Register(t) BY <2>6, StoreEnds
    <2> QED BY <1>2, <2>1, <2>2, <2>3, <2>4, <2>5, <2>6 DEF Engine
  <1>3. CASE Reissue \/ GraceEnds \/ SessionExpires \/ RegistrationExpires \/ Copy \/ UNCHANGED vars
    BY <1>3, OutsideEnds
  <1>4. ASSUME NEW moved \in BOOLEAN, Restart(moved) PROVE EndInv'
    BY <1>4, RestartEnds
  <1> QED BY <1>1, <1>2, <1>3, <1>4 DEF Next

\* At the start nothing is ending and nobody is signed in.
LEMMA InitEndInv ==
  ASSUME NEW first \in Profiles, NEW bounds, EntranceInit(first, bounds)
  PROVE  EndInv
PROOF
  <1>1. /\ sessions = [s \in 1 .. MaxSessions |-> NoSession] /\ tab = [t \in Tabs |-> Closed]
    BY DEF EntranceInit
  <1>2. NoSession.alive = FALSE /\ Closed.at = "closed" BY DEF NoSession, Closed
  <1> QED BY <1>1, <1>2 DEF EndInv, NoneEnding, Ending

\* The sessions of a registration end with it: when Store.Recover has taken a registration
\* for copied, or its browser has forgotten it, and the request has revoked the sessions that
\* bear its name, none that a recovery of it entered is alive, whatever else went on at the
\* time.  Not covered, as in the property, are the registrations in untied: a removal, or a
\* new token, written though reported as failed; one that made room for another; one that
\* went while a recovery was between its two steps.
THEOREM SignedOut ==
  ASSUME NEW first \in Profiles, NEW bounds
  PROVE  EntranceSpec(first, bounds) => []SessionsEndWithIt
PROOF
  <1>1. EntranceInit(first, bounds) => TypeInv /\ EndInv BY InitTypeInv, InitEndInv
  <1>2. TypeInv /\ EndInv /\ [Next]_vars => TypeInv' /\ EndInv' BY NextTypeInv, NextEndInv
  <1>3. TypeInv /\ EndInv => SessionsEndWithIt
    <2> SUFFICES ASSUME TypeInv, EndInv, NEW s \in DOMAIN sessions, sessions[s].alive,
                        sessions[s].family \notin untied \cup {0}
                 PROVE  \/ \E k \in Currents(doc) : family[k] = sessions[s].family
                        \/ \E t \in Tabs : Ending(t) /\ family[tab[t].token] = sessions[s].family
      BY DEF SessionsEndWithIt
    <2>1. Held(sessions[s].family) BY DEF EndInv, Tied
    <2>2. CASE \E r \in ToSet(doc) : family[r.current] = sessions[s].family
      BY <2>2, CurrentsOf
    <2>3. CASE ~NoneEnding(sessions[s].family) BY <2>3 DEF NoneEnding
    <2> QED BY <2>1, <2>2, <2>3 DEF Held
  <1> QED BY <1>1, <1>2, <1>3, PTL DEF EntranceSpec

-----------------------------------------------------------------------------
(* OnlyCopiesAreTaken *)

\* A token on its way to a browser.
Answer(t) == tab[t].at \in {"joining", "entered"} /\ tab[t].token # 0

\* Browser p has token k, or one of its tabs presents it or is about to receive it.
Holds(p, k) ==
  /\ k # 0
  /\ \/ stored[p] = k
     \/ \E t \in Tabs : /\ t[1] = p /\ tab[t].token = k
                        /\ tab[t].at \in {"recovering", "joining", "entered"}

\* The registration of token k, while there is one, has it as its current token ...
AllCurrent(k) == \A r \in ToSet(doc) : family[r.current] = family[k] => r.current = k

\* ... or is found by it.
Led(k) ==
  \A r \in ToSet(doc) : family[r.current] = family[k] =>
    r.current = k \/ \E e \in grace : e.old = k

\* An answer to p after the n-th has been lost or is under way.
Missed(p, n) == lost[p] > n \/ \E u \in Tabs : u[1] = p /\ Answer(u) /\ tab[u].n > n

\* One browser holds the tokens of a registration; they lead to it; and the one that the
\* browser has is the current one unless a later answer has been missed.
HoldInv ==
  /\ \A p \in Profiles, k \in 1 .. Issued :
        Holds(p, k) /\ family[k] \notin excused => Led(k)
  /\ \A p, q \in Profiles, k, l \in 1 .. Issued :
        Holds(p, k) /\ Holds(q, l) /\ family[k] = family[l] /\ family[k] \notin excused => p = q
  /\ \A p \in Profiles :
        stored[p] # 0 /\ family[stored[p]] \notin excused =>
          AllCurrent(stored[p]) \/ Missed(p, adopted[p])
  /\ \A t \in Tabs :
        Answer(t) /\ family[tab[t].token] \notin excused =>
          \/ adopted[t[1]] > tab[t].n
          \/ AllCurrent(tab[t].token) \/ Missed(t[1], tab[t].n)

\* What a step keeps.
FamiliesStay ==
  /\ Issued' \in {Issued, Issued + 1} /\ \A k \in 1 .. Issued : family'[k] = family[k]
  /\ excused \subseteq excused'
  /\ \A p \in Profiles : adopted[p] <= adopted'[p]

\* Who has a token had it, or has it from a recovery of what he had, or of his own making.
HoldersFrom(me) ==
  \A p \in Profiles, k \in 1 .. Issued' :
    Holds(p, k)' /\ family'[k] \notin excused' =>
      \/ k \in 1 .. Issued /\ Holds(p, k)
      \/ /\ AllCurrent(k)'
         /\ \/ \E l \in 1 .. Issued : Holds(p, l) /\ family[l] = family'[k]
            \/ family'[k] = Issued + 1 /\ p = me

\* A token that still is somewhere still leads to its registration.
LedOn ==
  \A p \in Profiles, k \in 1 .. Issued :
    Holds(p, k) /\ Holds(p, k)' /\ family[k] \notin excused' /\ Led(k) => Led(k)'

\* A current token stays current, unless an answer with a later one is under way.
CurrentOn ==
  \A p \in Profiles, k \in 1 .. Issued :
    Holds(p, k) /\ family[k] \notin excused' /\ AllCurrent(k) =>
      AllCurrent(k)' \/ \A n \in 0 .. answers : Missed(p, n)'

\* An answer that is under way stays so, is lost, or is adopted.
MissedOn ==
  \A p \in Profiles, n \in 0 .. answers : Missed(p, n) => Missed(p, n)' \/ adopted'[p] > n

\* What a browser stores it had, or has from the answer that it adopts.
StoredFrom ==
  \A p \in Profiles :
    stored'[p] # 0 /\ family'[stored'[p]] \notin excused' =>
      \/ stored'[p] = stored[p] /\ adopted'[p] = adopted[p]
      \/ \E t \in Tabs : /\ t[1] = p /\ Answer(t) /\ stored'[p] = tab[t].token
                         /\ adopted'[p] = tab[t].n /\ adopted[p] <= tab[t].n

\* An answer was under way, or sets out with the current token.
AnswersFrom ==
  \A t \in Tabs :
    Answer(t)' /\ family'[tab'[t].token] \notin excused' =>
      \/ Answer(t) /\ tab'[t].token = tab[t].token /\ tab'[t].n = tab[t].n
      \/ \E k : k = tab'[t].token /\ AllCurrent(k)'

\* The tokens that these formulas speak of have been issued, to one of the profiles.
LEMMA HolderTokens ==
  ASSUME TypeInv
  PROVE  /\ Issued \in Nat /\ answers \in Nat
         /\ \A p \in Profiles : /\ stored[p] \in 0 .. Issued /\ adopted[p] \in 0 .. answers
                                /\ lost[p] \in 0 .. answers
         /\ \A k \in 1 .. Issued : family[k] \in 1 .. Issued
         /\ \A t \in Tabs : /\ t[1] \in Profiles /\ tab[t].token \in 0 .. Issued
                            /\ tab[t].n \in 0 .. answers
         /\ \A t \in Tabs : Answer(t) => tab[t].token \in 1 .. Issued /\ Holds(t[1], tab[t].token)
         /\ \A p \in Profiles : stored[p] # 0 => stored[p] \in 1 .. Issued /\ Holds(p, stored[p])
PROOF
  <1>1. Issued \in Nat /\ answers \in Nat /\ \A k \in 1 .. Issued : family[k] \in 1 .. Issued
    BY Counted
  <1>2. \A p \in Profiles : /\ stored[p] \in 0 .. Issued /\ adopted[p] \in 0 .. answers
                            /\ lost[p] \in 0 .. answers
    BY DEF TypeInv, RestOK, BrowsersOK
  <1>3. \A t \in Tabs : t[1] \in Profiles /\ tab[t].token \in 0 .. Issued /\ tab[t].n \in 0 .. answers
    BY TabFacts DEF TypeInv, RestOK
  <1> QED BY <1>1, <1>2, <1>3 DEF Answer, Holds

\* The six together keep the invariant.
LEMMA HoldsOn ==
  ASSUME TypeInv, TypeInv', HoldInv, NEW me, FamiliesStay, HoldersFrom(me), LedOn, CurrentOn,
         MissedOn, StoredFrom, AnswersFrom
  PROVE  HoldInv'
PROOF
  <1>1. /\ Issued \in Nat /\ answers \in Nat /\ \A k \in 1 .. Issued : family[k] \in 1 .. Issued
        /\ \A k \in 1 .. Issued : family'[k] = family[k]
        /\ excused \subseteq excused'
    BY HolderTokens DEF FamiliesStay
  <1>2. ASSUME NEW p \in Profiles, NEW k \in 1 .. Issued', Holds(p, k)', family'[k] \notin excused'
        PROVE  Led(k)'
    <2>1. CASE k \in 1 .. Issued /\ Holds(p, k)
      <3>1. Led(k) BY <1>1, <1>2, <2>1 DEF HoldInv
      <3> QED BY <1>1, <1>2, <2>1, <3>1 DEF LedOn
    <2>2. CASE AllCurrent(k)' BY <2>2 DEF AllCurrent, Led
    <2> QED BY <1>2, <2>1, <2>2 DEF HoldersFrom
  <1>3. ASSUME NEW p \in Profiles, NEW q \in Profiles, NEW k \in 1 .. Issued', NEW l \in 1 .. Issued',
               Holds(p, k)', Holds(q, l)', family'[k] = family'[l], family'[k] \notin excused'
        PROVE  p = q
    <2>1. \/ \E m \in 1 .. Issued : Holds(p, m) /\ family[m] = family'[k]
          \/ family'[k] = Issued + 1 /\ p = me
      BY <1>1, <1>3 DEF HoldersFrom
    <2>2. \/ \E m \in 1 .. Issued : Holds(q, m) /\ family[m] = family'[l]
          \/ family'[l] = Issued + 1 /\ q = me
      BY <1>1, <1>3 DEF HoldersFrom
    <2>3. CASE family'[k] = Issued + 1 BY <1>1, <1>3, <2>1, <2>2, <2>3
    <2>4. CASE family'[k] # Issued + 1
      <3>1. PICK m \in 1 .. Issued : Holds(p, m) /\ family[m] = family'[k] BY <2>1, <2>4
      <3>2. PICK j \in 1 .. Issued : Holds(q, j) /\ family[j] = family'[k] BY <1>3, <2>2, <2>4
      <3> QED BY <1>1, <1>3, <3>1, <3>2 DEF HoldInv
    <2> QED BY <2>3, <2>4
  <1>4. ASSUME NEW p \in Profiles, NEW k \in 1 .. Issued, NEW n \in 0 .. answers, Holds(p, k),
               family[k] \notin excused', AllCurrent(k) \/ Missed(p, n)
        PROVE  AllCurrent(k)' \/ Missed(p, n)' \/ adopted'[p] > n
    BY <1>4 DEF CurrentOn, MissedOn
  <1>5. ASSUME NEW p \in Profiles, NEW k, k = stored'[p], k # 0, family'[k] \notin excused',
               NEW m, m = adopted'[p]
        PROVE  AllCurrent(k)' \/ Missed(p, m)'
    <2>1. m \in Nat BY <1>5, HolderTokens DEF TypeInv, RestOK, BrowsersOK
    <2>2. CASE stored'[p] = stored[p] /\ adopted'[p] = adopted[p]
      <3>1. k \in 1 .. Issued /\ Holds(p, k) /\ m \in 0 .. answers /\ family[k] \notin excused'
        BY <1>1, <1>5, <2>2, HolderTokens
      <3>2. AllCurrent(k) \/ Missed(p, m) BY <1>1, <1>5, <2>2, <3>1 DEF HoldInv
      <3> QED BY <1>4, <1>5, <2>1, <3>1, <3>2
    <2>3. ASSUME NEW t \in Tabs, t[1] = p, Answer(t), k = tab[t].token, m = tab[t].n,
                 adopted[p] <= tab[t].n
          PROVE  AllCurrent(k)' \/ Missed(p, m)'
      <3>1. /\ k \in 1 .. Issued /\ Holds(p, k) /\ m \in 0 .. answers /\ family[k] \notin excused'
            /\ adopted[p] \in Nat
        BY <1>1, <1>5, <2>3, HolderTokens
      <3>2. AllCurrent(k) \/ Missed(p, m)
        <4>1. ~(adopted[p] > m) BY <2>1, <2>3, <3>1
        <4> QED BY <1>1, <2>3, <3>1, <4>1 DEF HoldInv
      <3> QED BY <1>4, <1>5, <2>1, <3>1, <3>2
    <2> QED BY <1>5, <2>2, <2>3 DEF StoredFrom
  <1>6. ASSUME NEW t \in Tabs, NEW p, p = t[1], Answer(t)', NEW k, k = tab'[t].token,
               family'[k] \notin excused', NEW m, m = tab'[t].n
        PROVE  adopted'[p] > m \/ AllCurrent(k)' \/ Missed(p, m)'
    <2>1. p \in Profiles BY <1>6, HolderTokens
    <2>2. CASE Answer(t) /\ tab'[t].token = tab[t].token /\ tab'[t].n = tab[t].n
      <3>1. /\ k \in 1 .. Issued /\ Holds(p, k) /\ m \in 0 .. answers /\ family[k] \notin excused'
            /\ adopted[p] \in Nat
        BY <1>1, <1>6, <2>1, <2>2, HolderTokens
      <3>2. adopted'[p] \in Nat /\ adopted[p] <= adopted'[p]
        BY <2>1 DEF FamiliesStay, TypeInv, RestOK, BrowsersOK
      <3>3. adopted[p] > m \/ AllCurrent(k) \/ Missed(p, m)
        BY <1>1, <1>6, <2>2, <3>1 DEF HoldInv
      <3>4. CASE adopted[p] > m BY <3>1, <3>2, <3>4
      <3>5. CASE AllCurrent(k) \/ Missed(p, m) BY <1>4, <2>1, <3>1, <3>5
      <3> QED BY <3>3, <3>4, <3>5
    <2>3. CASE \E j : j = tab'[t].token /\ AllCurrent(j)' BY <1>6, <2>3
    <2> QED BY <1>6, <2>2, <2>3 DEF AnswersFrom
  <1>7. \A p \in Profiles, k \in 1 .. Issued' : Holds(p, k)' /\ family'[k] \notin excused' => Led(k)'
    BY <1>2
  <1>8. \A p, q \in Profiles, k, l \in 1 .. Issued' :
           Holds(p, k)' /\ Holds(q, l)' /\ family'[k] = family'[l] /\ family'[k] \notin excused' =>
             p = q
    BY <1>3
  <1>9. \A p \in Profiles :
           stored'[p] # 0 /\ family'[stored'[p]] \notin excused' =>
             AllCurrent(stored[p])' \/ Missed(p, adopted[p])'
    BY <1>5 DEF AllCurrent, Missed
  <1>10. \A t \in Tabs :
           Answer(t)' /\ family'[tab'[t].token] \notin excused' =>
             \/ adopted'[t[1]] > tab'[t].n
             \/ AllCurrent(tab[t].token)' \/ Missed(t[1], tab[t].n)'
    BY <1>6 DEF AllCurrent, Missed
  <1> QED BY <1>7, <1>8, <1>9, <1>10 DEF HoldInv

\* What a tab shows after its step, and whether it waits for an answer.
LEMMA AnswerTabs ==
  ASSUME NEW t \in Tabs, NEW at, NEW token, NEW session, NEW name, NEW fresh, NEW n,
         Shows(t, at, token, session, name, fresh, n)
  PROVE  /\ tab'[t].at = at /\ tab'[t].token = token /\ tab'[t].n = n
         /\ \A u \in Tabs \ {t} : tab'[u] = tab[u] /\ (Answer(u)' <=> Answer(u))
         /\ Answer(t)' <=> (at \in {"joining", "entered"} /\ token # 0)
PROOF
  <1>1. tab'[t].at = at /\ tab'[t].token = token /\ tab'[t].n = n BY DEF Shows
  <1>2. \A u \in Tabs \ {t} : tab'[u] = tab[u] BY DEF Shows
  <1> QED BY <1>1, <1>2 DEF Answer

\* A tab moves, and receives nothing.
LEMMA QuietHold ==
  ASSUME TypeInv, NEW t \in Tabs, NEW at, NEW token, NEW session, NEW name, NEW fresh, NEW n,
         Shows(t, at, token, session, name, fresh, n), UNCHANGED <<stored, adopted, lost>>,
         ~Answer(t), at \notin {"joining", "entered"} \/ token = 0,
         at = "recovering" => token = stored[t[1]]
  PROVE  HoldersFrom(t[1]) /\ MissedOn /\ StoredFrom /\ AnswersFrom
PROOF
  <1>1. /\ tab'[t].at = at /\ tab'[t].token = token /\ tab'[t].n = n
        /\ \A u \in Tabs \ {t} : tab'[u] = tab[u] /\ (Answer(u)' <=> Answer(u))
        /\ Answer(t)' <=> (at \in {"joining", "entered"} /\ token # 0)
    BY AnswerTabs
  <1>2. ASSUME NEW p \in Profiles, NEW k, Holds(p, k)' PROVE k \in 1 .. Issued /\ Holds(p, k)
    <2>1. k # 0 BY <1>2 DEF Holds
    <2>2. CASE stored'[p] = k BY <2>1, <2>2, HolderTokens
    <2>3. ASSUME NEW u \in Tabs, u[1] = p, tab'[u].token = k,
                 tab'[u].at \in {"recovering", "joining", "entered"}
          PROVE  k \in 1 .. Issued /\ Holds(p, k)
      <3>1. CASE u # t
        <4>1. tab[u].token = k /\ tab[u].at \in {"recovering", "joining", "entered"}
          BY <1>1, <2>3, <3>1
        <4>2. k \in 0 .. Issued /\ Issued \in Nat BY <4>1, HolderTokens
        <4> QED BY <2>1, <2>3, <4>1, <4>2 DEF Holds
      <3>2. CASE u = t
        <4>1. k = stored[p] BY <1>1, <2>1, <2>3, <3>2
        <4> QED BY <2>1, <4>1, HolderTokens
      <3> QED BY <3>1, <3>2
    <2> QED BY <1>2, <2>2, <2>3 DEF Holds
  <1>3. HoldersFrom(t[1]) BY <1>2 DEF HoldersFrom
  <1>4. \A u \in Tabs : Answer(u) => Answer(u)' /\ tab'[u].n = tab[u].n BY <1>1
  <1>5. MissedOn BY <1>4 DEF MissedOn, Missed
  <1>6. StoredFrom BY DEF StoredFrom
  <1>7. AnswersFrom BY <1>1 DEF AnswersFrom
  <1> QED BY <1>3, <1>5, <1>6, <1>7

\* An answer with a current token sets out.
LEMMA SetsOut ==
  ASSUME TypeInv, NEW t \in Tabs, NEW at, NEW token, NEW session, NEW name, NEW fresh, NEW n,
         Shows(t, at, token, session, name, fresh, n), UNCHANGED <<stored, adopted, lost>>,
         ~Answer(t), at \in {"joining", "entered"}, AllCurrent(token)',
         \/ \E l \in 1 .. Issued : Holds(t[1], l) /\ family[l] = family'[token]
         \/ family'[token] = Issued + 1
  PROVE  HoldersFrom(t[1]) /\ MissedOn /\ StoredFrom /\ AnswersFrom
PROOF
  <1>1. /\ tab'[t].at = at /\ tab'[t].token = token /\ tab'[t].n = n
        /\ \A u \in Tabs \ {t} : tab'[u] = tab[u] /\ (Answer(u)' <=> Answer(u))
    BY AnswerTabs
  <1>2. ASSUME NEW p \in Profiles, NEW k \in 1 .. Issued', Holds(p, k)'
        PROVE  \/ k \in 1 .. Issued /\ Holds(p, k)
               \/ /\ AllCurrent(k)'
                  /\ \/ \E l \in 1 .. Issued : Holds(p, l) /\ family[l] = family'[k]
                     \/ family'[k] = Issued + 1 /\ p = t[1]
    <2>1. k # 0 BY <1>2 DEF Holds
    <2>2. CASE stored'[p] = k BY <2>1, <2>2, HolderTokens
    <2>3. ASSUME NEW u \in Tabs, u[1] = p, tab'[u].token = k, u # t,
                 tab'[u].at \in {"recovering", "joining", "entered"}
          PROVE  k \in 1 .. Issued /\ Holds(p, k)
      <3>1. tab[u].token = k /\ tab[u].at \in {"recovering", "joining", "entered"}
        BY <1>1, <2>3
      <3>2. k \in 0 .. Issued /\ Issued \in Nat BY <3>1, HolderTokens
      <3> QED BY <2>1, <2>3, <3>1, <3>2 DEF Holds
    <2>4. CASE t[1] = p /\ k = token BY <2>4
    <2> QED BY <1>1, <1>2, <2>2, <2>3, <2>4 DEF Holds
  <1>3. HoldersFrom(t[1]) BY <1>2 DEF HoldersFrom
  <1>4. \A u \in Tabs : Answer(u) => Answer(u)' /\ tab'[u].n = tab[u].n BY <1>1
  <1>5. MissedOn BY <1>4 DEF MissedOn, Missed
  <1>6. StoredFrom BY DEF StoredFrom
  <1>7. AnswersFrom BY <1>1 DEF AnswersFrom
  <1> QED BY <1>3, <1>5, <1>6, <1>7

\* Registrations and graces that stay keep tokens current and leading.
LEMMA SameRegistry ==
  ASSUME TypeInv, UNCHANGED <<doc, grace, family>>
  PROVE  /\ LedOn /\ CurrentOn
         /\ excused \subseteq excused' /\ UNCHANGED adopted => FamiliesStay
PROOF
  <1>1. UNCHANGED Issued BY DEF Issued
  <1>2. LedOn BY DEF LedOn, Led
  <1>3. CurrentOn BY DEF CurrentOn, AllCurrent
  <1>4. \A p \in Profiles : adopted[p] <= adopted[p] BY HolderTokens
  <1> QED BY <1>1, <1>2, <1>3, <1>4 DEF FamiliesStay

\* Registrations that go take nothing of the others with them.
LEMMA DropsHold ==
  ASSUME TypeInv, NEW gone, Drops(gone), UNCHANGED <<adopted, excused>>
  PROVE  FamiliesStay /\ LedOn /\ CurrentOn
PROOF
  <1>1. /\ UNCHANGED <<family, Issued>> /\ ToSet(doc') \subseteq ToSet(doc)
        /\ Prune(doc', grace, names)
    BY DEF Drops, Issued
  <1>2. FamiliesStay
    <2>1. \A p \in Profiles : adopted[p] <= adopted[p] BY HolderTokens
    <2> QED BY <1>1, <2>1 DEF FamiliesStay
  <1>3. ASSUME NEW k, Led(k) PROVE Led(k)'
    <2> SUFFICES ASSUME NEW r \in ToSet(doc'), family'[r.current] = family'[k], r.current # k
                 PROVE  \E e \in grace' : e.old = k
      BY DEF Led
    <2>1. r \in ToSet(doc) /\ family[r.current] = family[k] BY <1>1
    <2>2. PICK e \in grace : e.old = k BY <1>3, <2>1 DEF Led
    <2>3. e.token \in Currents(doc) /\ family[e.token] = family[k]
      BY <2>2 DEF TypeInv, StoreOK, GraceOK
    <2>4. PICK q \in ToSet(doc) : q.current = e.token BY <2>3, CurrentsOf
    <2>5. q = r BY <2>1, <2>3, <2>4 DEF TypeInv, StoreOK, RegistryOK
    <2>6. e.token \in Currents(doc') BY <2>4, <2>5, CurrentsOf
    <2>7. e \in grace' BY <1>1, <2>6 DEF Prune
    <2> QED BY <2>2, <2>7
  <1>4. LedOn BY <1>3 DEF LedOn
  <1>5. CurrentOn BY <1>1 DEF CurrentOn, AllCurrent
  <1> QED BY <1>2, <1>4, <1>5

\* A new registration has a family of its own, and leaves the others as they are.
LEMMA AddsHold ==
  ASSUME TypeInv, Adds, UNCHANGED <<adopted, excused>>
  PROVE  /\ FamiliesStay /\ LedOn /\ CurrentOn
         /\ family'[Issued + 1] = Issued + 1
         /\ \A k : k = Issued + 1 => AllCurrent(k)'
PROOF
  <1>1. /\ Issued' = Issued + 1 /\ \A k \in 1 .. Issued : family'[k] = family[k]
        /\ family'[Issued + 1] = Issued + 1 /\ Prune(doc', grace, names)
    BY DEF Adds, Issued, Next1
  <1>2. PICK kept \in SUBSET ToSet(doc) :
          ToSet(doc') = kept \cup {[current |-> Issued + 1, retired |-> << >>]}
    BY DEF Adds, Next1
  <1>3. /\ Issued \in Nat
        /\ \A r \in ToSet(doc) : r.current \in 1 .. Issued /\ family[r.current] \in 1 .. Issued
    BY EndFamilies
  <1>4. FamiliesStay
    <2>1. \A p \in Profiles : adopted[p] <= adopted[p] BY HolderTokens
    <2> QED BY <1>1, <2>1 DEF FamiliesStay
  <1>5. ASSUME NEW r \in ToSet(doc'), NEW f \in 1 .. Issued, family'[r.current] = f
        PROVE  r \in ToSet(doc) /\ family[r.current] = f
    <2>1. r \in kept \/ r.current = Issued + 1 BY <1>2
    <2>2. r.current # Issued + 1 BY <1>1, <1>3, <1>5
    <2> QED BY <1>1, <1>2, <1>3, <1>5, <2>1, <2>2
  <1>6. ASSUME NEW k \in 1 .. Issued, Led(k) PROVE Led(k)'
    <2> SUFFICES ASSUME NEW r \in ToSet(doc'), family'[r.current] = family'[k], r.current # k
                 PROVE  \E e \in grace' : e.old = k
      BY DEF Led
    <2>0. family'[k] = family[k] /\ family[k] \in 1 .. Issued BY <1>1, Counted
    <2>1. r \in ToSet(doc) /\ family[r.current] = family[k] BY <1>5, <2>0
    <2>2. PICK e \in grace : e.old = k BY <1>6, <2>1 DEF Led
    <2>3. e.token \in Currents(doc) /\ family[e.token] = family[k]
      BY <2>2 DEF TypeInv, StoreOK, GraceOK
    <2>4. PICK q \in ToSet(doc) : q.current = e.token BY <2>3, CurrentsOf
    <2>5. q = r BY <2>1, <2>3, <2>4 DEF TypeInv, StoreOK, RegistryOK
    <2>6. e.token \in Currents(doc') BY <2>4, <2>5, CurrentsOf
    <2>7. e \in grace' BY <1>1, <2>6 DEF Prune
    <2> QED BY <2>2, <2>7
  <1>7. LedOn BY <1>6 DEF LedOn
  <1>8. ASSUME NEW k \in 1 .. Issued, AllCurrent(k) PROVE AllCurrent(k)'
    <2>0. family'[k] = family[k] /\ family[k] \in 1 .. Issued BY <1>1, Counted
    <2> QED BY <1>5, <1>8, <2>0 DEF AllCurrent
  <1>9. CurrentOn BY <1>8 DEF CurrentOn
  <1>10. ASSUME NEW k, k = Issued + 1 PROVE AllCurrent(k)'
    <2>1. \A r \in ToSet(doc') : family'[r.current] = family'[k] => r.current = k
      BY <1>1, <1>2, <1>3, <1>10
    <2> QED BY <2>1 DEF AllCurrent
  <1> QED BY <1>1, <1>4, <1>7, <1>9, <1>10

\* A tab moves and receives nothing, while the registry keeps what tokens lead to.
LEMMA QuietHolds ==
  ASSUME TypeInv, TypeInv', HoldInv, NEW t \in Tabs,
         NEW at, NEW token, NEW session, NEW name, NEW fresh, NEW n,
         Shows(t, at, token, session, name, fresh, n), UNCHANGED <<stored, adopted, lost>>,
         ~Answer(t), at \notin {"joining", "entered"} \/ token = 0,
         at = "recovering" => token = stored[t[1]],
         FamiliesStay, LedOn, CurrentOn
  PROVE  HoldInv'
PROOF
  <1>1. HoldersFrom(t[1]) /\ MissedOn /\ StoredFrom /\ AnswersFrom BY QuietHold
  <1> QED BY <1>1, HoldsOn

\* An answer sets out with a current token, while the registry keeps what tokens lead to.
LEMMA SetsOutHolds ==
  ASSUME TypeInv, TypeInv', HoldInv, NEW t \in Tabs,
         NEW at, NEW token, NEW session, NEW name, NEW fresh, NEW n,
         Shows(t, at, token, session, name, fresh, n), UNCHANGED <<stored, adopted, lost>>,
         ~Answer(t), at \in {"joining", "entered"}, AllCurrent(token)',
         \/ \E l \in 1 .. Issued : Holds(t[1], l) /\ family[l] = family'[token]
         \/ family'[token] = Issued + 1,
         FamiliesStay, LedOn, CurrentOn
  PROVE  HoldInv'
PROOF
  <1>1. HoldersFrom(t[1]) /\ MissedOn /\ StoredFrom /\ AnswersFrom BY SetsOut
  <1> QED BY <1>1, HoldsOn

\* The steps of a page, and the requests that bring no token.
LEMMA PageHolds ==
  ASSUME TypeInv, TypeInv', HoldInv, NEW t \in Tabs,
         \/ Load(t) \/ Refuse(t) \/ OpenLink(t) \/ LinkUsed(t) \/ SignOut(t)
         \/ RevokeRegistration(t) \/ Leave(t) \/ Bootstrap(t)
  PROVE  HoldInv'
PROOF
  <1>1. UNCHANGED <<doc, grace, family, stored, adopted, lost, excused>>
    BY DEF Load, Refuse, OpenLink, LinkUsed, SignOut, RevokeRegistration, Leave, Bootstrap,
       storeVars, browserVars, ghostVars
  <1>2. FamiliesStay /\ LedOn /\ CurrentOn BY <1>1, SameRegistry
  <1>3. TabsOK BY DEF TypeInv, RestOK
  <1>4. tab[t].at \notin {"joining", "entered"}
    <2>1. ASSUME InSession(t) PROVE tab[t].at = "open" BY <2>1 DEF InSession
    <2> QED BY <2>1 DEF Load, Refuse, OpenLink, LinkUsed, SignOut, RevokeRegistration, Leave, Bootstrap
  <1>5. ~Answer(t) BY <1>4 DEF Answer
  <1>6. Presents(t) => HoldInv'
    <2>1. Presents(t) => Shows(t, "recovering", stored[t[1]], cookie[t[1]], 0, FALSE, 0)
      BY <1>3, TabForms DEF Presents
    <2> QED BY <1>1, <1>2, <1>5, <2>1, QuietHolds
  <1>7. Goes(t, Closed) => HoldInv'
    <2>1. Goes(t, Closed) => Shows(t, "closed", 0, 0, 0, FALSE, 0) BY <1>3, TabForms
    <2> QED BY <1>1, <1>2, <1>5, <2>1, QuietHolds
  <1>8. CASE Load(t) BY <1>6, <1>8 DEF Load
  <1>9. CASE LinkUsed(t) BY <1>6, <1>7, <1>9 DEF LinkUsed
  <1>10. CASE OpenLink(t)
    <2>1. Shows(t, "linked", stored[t[1]], cookie[t[1]], 0, FALSE, 0)
      BY <1>3, <1>10, TabForms DEF OpenLink
    <2> QED BY <1>1, <1>2, <1>5, <2>1, QuietHolds
  <1>11. CASE SignOut(t)
    <2>1. Shows(t, "signing", stored[t[1]], tab[t].session, tab[t].name, tab[t].fresh, tab[t].n)
      BY <1>3, <1>11, TabForms DEF SignOut
    <2> QED BY <1>1, <1>2, <1>5, <2>1, QuietHolds
  <1>12. CASE Refuse(t) \/ RevokeRegistration(t) \/ Leave(t)
    <2>1. PICK at \in {"refused", "left"} :
            Shows(t, at, tab[t].token, tab[t].session, tab[t].name, tab[t].fresh, tab[t].n)
      BY <1>3, <1>12, TabForms DEF Refuse, RevokeRegistration, Leave
    <2> QED BY <1>1, <1>2, <1>5, <2>1, QuietHolds
  <1>13. CASE Bootstrap(t)
    <2>1. Shows(t, "registering", tab[t].token, SessionFor(t), tab[t].name, ~Joins(t), tab[t].n)
      BY <1>3, <1>13, TabForms DEF Bootstrap, Enters
    <2> QED BY <1>1, <1>2, <1>5, <2>1, QuietHolds
  <1> QED BY <1>8, <1>9, <1>10, <1>11, <1>12, <1>13

\* A recovery enters its session, and brings the token on to its page.
LEMMA JoinHolds ==
  ASSUME TypeInv, TypeInv', HoldInv, NEW t \in Tabs, JoinOrIssue(t)
  PROVE  HoldInv'
PROOF
  <1>1. UNCHANGED <<doc, grace, family, stored, adopted, lost, excused>>
    BY DEF JoinOrIssue, storeVars, browserVars, ghostVars
  <1>2. FamiliesStay /\ LedOn /\ CurrentOn /\ Issued' = Issued BY <1>1, SameRegistry DEF Issued
  <1>3. TabsOK BY DEF TypeInv, RestOK
  <1>4. Shows(t, "entered", tab[t].token, SessionFor(t), tab[t].name, ~Joins(t), tab[t].n)
    BY <1>3, TabForms DEF JoinOrIssue, Enters
  <1>5. /\ tab'[t].at = "entered" /\ tab'[t].token = tab[t].token /\ tab'[t].n = tab[t].n
        /\ \A u \in Tabs \ {t} : tab'[u] = tab[u] /\ (Answer(u)' <=> Answer(u))
    BY <1>4, AnswerTabs
  <1>6. tab[t].at = "joining" BY DEF JoinOrIssue
  <1>7. \A u \in Tabs : /\ Answer(u)' <=> Answer(u)
                        /\ tab'[u].token = tab[u].token /\ tab'[u].n = tab[u].n
                        /\ (tab'[u].at \in {"recovering", "joining", "entered"}
                              <=> tab[u].at \in {"recovering", "joining", "entered"})
    BY <1>5, <1>6 DEF Answer
  <1>8. HoldersFrom(t[1]) BY <1>1, <1>2, <1>7 DEF HoldersFrom, Holds
  <1>9. MissedOn BY <1>1, <1>7 DEF MissedOn, Missed
  <1>10. StoredFrom BY <1>1 DEF StoredFrom
  <1>11. AnswersFrom BY <1>7 DEF AnswersFrom
  <1> QED BY <1>2, <1>8, <1>9, <1>10, <1>11, HoldsOn

\* An answer arrives: it is adopted, finds nothing to bring, or is lost.
LEMMA ArriveHolds ==
  ASSUME TypeInv, TypeInv', HoldInv, NEW t \in Tabs, Dropped(t) \/ Lose(t) \/ Adopt(t)
  PROVE  HoldInv'
PROOF
  <1>1. UNCHANGED <<doc, grace, family, Issued>> /\ excused \subseteq excused'
    BY DEF Dropped, Lose, Adopt, storeVars, ghostVars, Issued
  <1>2. LedOn /\ CurrentOn BY <1>1, SameRegistry
  <1>3. TabsOK BY DEF TypeInv, RestOK
  <1> DEFINE p == t[1]
             k == tab[t].token
             n == tab[t].n
             late == k # 0 /\ n < adopted[p] /\ k # stored[p]
  <1>4. /\ p \in Profiles /\ adopted \in [Profiles -> 0 .. answers] /\ answers \in Nat
        /\ stored \in [Profiles -> 0 .. Issued] /\ Issued \in Nat
        /\ lost \in [Profiles -> 0 .. answers] /\ n \in 0 .. answers
        /\ k \in 0 .. Issued
    BY HolderTokens DEF TypeInv, RestOK, BrowsersOK
  <1>5. /\ tab'[t].at \in {"open", "closed"} /\ tab'[t].token = 0
        /\ \A u \in Tabs \ {t} : tab'[u] = tab[u] /\ (Answer(u)' <=> Answer(u))
        /\ ~Answer(t)'
    <2>1. CASE Adopt(t)
      <3>1. Shows(t, "open", 0, tab[t].session, 0, FALSE, 0) BY <1>3, <2>1, TabForms DEF Adopt
      <3> QED BY <3>1, AnswerTabs
    <2>2. CASE Dropped(t) \/ Lose(t)
      <3>1. Shows(t, "closed", 0, 0, 0, FALSE, 0) BY <1>3, <2>2, TabForms DEF Dropped, Lose
      <3> QED BY <3>1, AnswerTabs
    <2> QED BY <2>1, <2>2
  <1>6. \A u \in Tabs : tab'[u].at \in {"recovering", "joining", "entered"} => u # t BY <1>5
  <1>7. AnswersFrom BY <1>5 DEF AnswersFrom
  <1>8. CASE Dropped(t) \/ Lose(t)
    <2>1. /\ stored' = [stored EXCEPT ![p] = 0] \/ stored' = stored
          /\ adopted' = adopted /\ excused' = excused
      BY <1>8 DEF Dropped, Lose, browserVars, ghostVars
    <2>2. \A q \in Profiles : stored'[q] = 0 \/ stored'[q] = stored[q] BY <1>4, <2>1
    <2>3. HoldersFrom(p) BY <1>1, <1>5, <1>6, <2>2 DEF HoldersFrom, Holds
    <2>4. StoredFrom BY <2>1, <2>2 DEF StoredFrom
    <2>5. /\ \A q \in Profiles : lost'[q] \in Nat /\ lost'[q] >= lost[q]
          /\ Answer(t) => lost'[p] >= n
      <3>1. CASE Dropped(t)
        <4>1. lost' = lost /\ ~Answer(t) BY <3>1 DEF Dropped, ghostVars, Answer
        <4> QED BY <1>4, <4>1
      <3>2. CASE Lose(t)
        <4>1. lost' = [lost EXCEPT ![p] = IF @ < LostBy(t) THEN LostBy(t) ELSE @]
          BY <3>2 DEF Lose
        <4>2. LostBy(t) \in 0 .. answers /\ (Answer(t) => LostBy(t) = n)
          BY <1>4 DEF LostBy, Answer
        <4> QED BY <1>4, <4>1, <4>2
      <3> QED BY <1>8, <3>1, <3>2
    <2>6. MissedOn
      <3> SUFFICES ASSUME NEW q \in Profiles, NEW m \in 0 .. answers, Missed(q, m)
                   PROVE  Missed(q, m)'
        BY DEF MissedOn
      <3>1. CASE lost[q] > m BY <1>4, <2>5, <3>1 DEF Missed
      <3>2. ASSUME NEW u \in Tabs, u[1] = q, Answer(u), tab[u].n > m PROVE Missed(q, m)'
        <4>1. CASE u = t BY <1>4, <2>5, <3>2, <4>1 DEF Missed
        <4>2. CASE u # t BY <1>5, <3>2, <4>2 DEF Missed
        <4> QED BY <4>1, <4>2
      <3> QED BY <3>1, <3>2 DEF Missed
    <2>7. FamiliesStay BY <1>1, <2>1, SameRegistry
    <2> QED BY <1>2, <1>7, <2>3, <2>4, <2>6, <2>7, HoldsOn
  <1>9. CASE Adopt(t)
    <2>1. /\ stored' = IF k = 0 THEN stored ELSE [stored EXCEPT ![p] = k]
          /\ adopted' = IF k = 0 \/ late THEN adopted
                        ELSE [adopted EXCEPT ![p] = IF @ < n THEN n ELSE @]
          /\ excused' = IF late THEN excused \cup {family[k]} ELSE excused
          /\ lost' = lost /\ tab[t].at = "entered"
      BY <1>9 DEF Adopt
    <2>2. k # 0 => Answer(t) BY <2>1 DEF Answer
    <2>3. \A q \in Profiles : q # p => stored'[q] = stored[q] /\ adopted'[q] = adopted[q]
      BY <1>4, <2>1
    <2>4. \A q \in Profiles : adopted[q] <= adopted'[q] /\ adopted[q] \in Nat BY <1>4, <2>1
    <2>5. FamiliesStay BY <1>1, <2>4 DEF FamiliesStay
    <2>6. stored'[p] = stored[p] \/ stored'[p] = k BY <1>4, <2>1
    <2>7. HoldersFrom(p)
      <3> SUFFICES ASSUME NEW q \in Profiles, NEW j \in 1 .. Issued', Holds(q, j)'
                   PROVE  Holds(q, j)
        BY <1>1 DEF HoldersFrom
      <3>1. CASE stored'[q] = j
        <4>1. stored[q] = j \/ (q = p /\ j = k) BY <2>3, <2>6, <3>1
        <4>2. Holds(p, k) \/ k = 0 BY <2>2, HolderTokens
        <4> QED BY <4>1, <4>2 DEF Holds
      <3>2. ASSUME NEW u \in Tabs, u[1] = q, tab'[u].token = j,
                   tab'[u].at \in {"recovering", "joining", "entered"}
            PROVE  Holds(q, j)
        BY <1>5, <1>6, <3>2 DEF Holds
      <3> QED BY <3>1, <3>2 DEF Holds
    <2>8. StoredFrom
      <3> SUFFICES ASSUME NEW q \in Profiles, stored'[q] # 0, family'[stored'[q]] \notin excused'
                   PROVE  \/ stored'[q] = stored[q] /\ adopted'[q] = adopted[q]
                          \/ \E u \in Tabs : /\ u[1] = q /\ Answer(u) /\ stored'[q] = tab[u].token
                                             /\ adopted'[q] = tab[u].n /\ adopted[q] <= tab[u].n
        BY DEF StoredFrom
      <3>1. CASE q # p BY <2>3, <3>1
      <3>2. CASE q = p /\ k = 0 BY <2>1, <3>2
      <3>3. CASE q = p /\ k # 0 /\ n < adopted[p]
        <4>1. stored'[p] = k BY <1>4, <2>1, <3>3
        <4>2. ~late BY <1>1, <2>1, <3>3, <4>1
        <4>3. k = stored[p] /\ adopted'[p] = adopted[p] BY <1>4, <2>1, <3>3, <4>2
        <4> QED BY <3>3, <4>1, <4>3
      <3>4. CASE q = p /\ k # 0 /\ ~(n < adopted[p])
        <4>1. stored'[p] = k /\ adopted'[p] = n /\ adopted[p] <= n BY <1>4, <2>1, <3>4
        <4> QED BY <2>2, <3>4, <4>1
      <3> QED BY <3>1, <3>2, <3>3, <3>4
    <2>9. MissedOn
      <3> SUFFICES ASSUME NEW q \in Profiles, NEW m \in 0 .. answers, Missed(q, m)
                   PROVE  Missed(q, m)' \/ adopted'[q] > m
        BY DEF MissedOn
      <3>1. CASE lost[q] > m BY <2>1, <3>1 DEF Missed
      <3>2. ASSUME NEW u \in Tabs, u[1] = q, Answer(u), tab[u].n > m
            PROVE  Missed(q, m)' \/ adopted'[q] > m
        <4>1. CASE u = t
          <5>1. k # 0 BY <3>2, <4>1 DEF Answer
          <5>2. adopted'[p] >= n /\ adopted'[p] \in Nat BY <1>4, <2>1, <5>1
          <5> QED BY <1>4, <3>2, <4>1, <5>2
        <4>2. CASE u # t BY <1>5, <3>2, <4>2 DEF Missed
        <4> QED BY <4>1, <4>2
      <3> QED BY <3>1, <3>2 DEF Missed
    <2> QED BY <1>2, <1>7, <2>5, <2>7, <2>8, <2>9, HoldsOn
  <1> QED BY <1>8, <1>9

\* A token is replaced: the one replaced leads to the new one, and so do those before it.
LEMMA RotatesHold ==
  ASSUME TypeInv, NEW r \in ToSet(doc), Rotates(r, doc', family'), NEW g, NEW ns,
         Prune(doc', g, ns),
         g = RotateCachedTokens(r.current, Next1) \/ (g = grace /\ family[r.current] \in excused'),
         excused \subseteq excused', UNCHANGED adopted
  PROVE  /\ FamiliesStay /\ LedOn /\ family'[Next1] = family[r.current]
         /\ \A k \in 1 .. Issued :
               family[k] # family[r.current] /\ AllCurrent(k) => AllCurrent(k)'
         /\ \A k : k = Next1 => AllCurrent(k)'
PROOF
  <1> DEFINE old == r.current
             F == family[old]
  <1>1. /\ Issued' = Issued + 1 /\ Issued \in Nat /\ \A k \in 1 .. Issued : family'[k] = family[k]
        /\ family'[Next1] = F /\ old \in 1 .. Issued /\ Next1 = Issued + 1
    BY RotatesGrows DEF Issued, Next1
  <1>2. PICK retired :
          ToSet(doc') = (ToSet(doc) \ {r}) \cup {[current |-> Next1, retired |-> retired]}
    BY DEF Rotates
  <1>3. \A q, s \in ToSet(doc) : family[q.current] = family[s.current] => q = s
    BY DEF TypeInv, StoreOK, RegistryOK
  <1>4. ASSUME NEW q \in ToSet(doc')
        PROVE  \/ q.current = Next1 /\ family'[q.current] = F
               \/ /\ q \in ToSet(doc) /\ q # r /\ family'[q.current] = family[q.current]
                  /\ family[q.current] # F
    <2>1. CASE q \in ToSet(doc) \ {r}
      <3>1. q.current \in 1 .. Issued BY <2>1, EndFamilies
      <3> QED BY <1>1, <1>3, <2>1, <3>1
    <2>2. CASE q = [current |-> Next1, retired |-> retired] BY <1>1, <2>2
    <2> QED BY <1>2, <2>1, <2>2
  <1>5. FamiliesStay
    <2>1. \A p \in Profiles : adopted[p] <= adopted[p] BY HolderTokens
    <2> QED BY <1>1, <2>1 DEF FamiliesStay
  <1>6. grace' = {e \in g : e.token \in Currents(doc')} BY DEF Prune
  <1>7. Next1 \in Currents(doc')
    <2>1. [current |-> Next1, retired |-> retired] \in ToSet(doc') BY <1>2
    <2> QED BY <2>1, CurrentsOf
  <1>8. ASSUME NEW k \in 1 .. Issued, Led(k), family[k] \notin excused'
        PROVE  Led(k)'
    <2> SUFFICES ASSUME NEW q \in ToSet(doc'), family'[q.current] = family'[k], q.current # k
                 PROVE  \E e \in grace' : e.old = k
      BY DEF Led
    <2>0. family'[k] = family[k] BY <1>1
    <2>1. CASE q.current = Next1 /\ family'[q.current] = F
      <3>1. family[k] = F /\ g = RotateCachedTokens(old, Next1) BY <1>8, <2>0, <2>1
      <3>2. CASE old = k
        <4>1. [old |-> old, token |-> Next1] \in g BY <3>1 DEF RotateCachedTokens
        <4> QED BY <1>6, <1>7, <3>2, <4>1
      <3>3. CASE old # k
        <4>1. PICK e \in grace : e.old = k BY <1>8, <3>1, <3>3 DEF Led
        <4>2. /\ e.token \in Currents(doc) /\ family[e.token] = F
              /\ e \in [old : 1 .. Issued, token : 1 .. Issued]
          BY <3>1, <4>1 DEF TypeInv, StoreOK, GraceOK, Issued
        <4>3. PICK s \in ToSet(doc) : s.current = e.token BY <4>2, CurrentsOf
        <4>4. e.token = old BY <1>3, <4>2, <4>3
        <4>5. [e EXCEPT !.token = Next1] \in g BY <3>1, <4>4 DEF RotateCachedTokens
        <4>6. [e EXCEPT !.token = Next1].old = k /\ [e EXCEPT !.token = Next1].token = Next1
          BY <4>1, <4>2
        <4> QED BY <1>6, <1>7, <4>5, <4>6
      <3> QED BY <3>2, <3>3
    <2>2. CASE /\ q \in ToSet(doc) /\ q # r /\ family'[q.current] = family[q.current]
               /\ family[q.current] # F
      <3>1. PICK e \in grace : e.old = k BY <1>8, <2>0, <2>2 DEF Led
      <3>2. e.token \in Currents(doc) /\ family[e.token] = family[k]
        BY <3>1 DEF TypeInv, StoreOK, GraceOK
      <3>3. PICK s \in ToSet(doc) : s.current = e.token BY <3>2, CurrentsOf
      <3>4. s = q BY <1>3, <2>0, <2>2, <3>2, <3>3
      <3>5. e.token \in Currents(doc') BY <3>3, <3>4, CurrentsOf
      <3>6. e.token # old BY <2>0, <2>2, <3>2
      <3>7. e \in g BY <3>6 DEF RotateCachedTokens
      <3> QED BY <1>6, <3>1, <3>5, <3>7
    <2> QED BY <1>4, <2>1, <2>2
  <1>9. LedOn BY <1>8 DEF LedOn
  <1>10. ASSUME NEW k \in 1 .. Issued, family[k] # F, AllCurrent(k) PROVE AllCurrent(k)'
    <2>1. \A q \in ToSet(doc') : family'[q.current] = family'[k] => q.current = k
      BY <1>1, <1>4, <1>10 DEF AllCurrent
    <2> QED BY <2>1 DEF AllCurrent
  <1>11. ASSUME NEW k, k = Next1 PROVE AllCurrent(k)'
    <2>1. \A q \in ToSet(doc') : family'[q.current] = family'[k] => q.current = k
      BY <1>1, <1>4, <1>11
    <2> QED BY <2>1 DEF AllCurrent
  <1> QED BY <1>1, <1>5, <1>9, <1>10, <1>11

\* A recovery replaces the current token, and answers with its successor ...
LEMMA RecoverHolds ==
  ASSUME TypeInv, TypeInv', HoldInv, NEW t \in Tabs, Recover(t)
  PROVE  HoldInv'
PROOF
  <1>1. PICK r \in ToSet(doc) :
           /\ r.current = tab[t].token /\ Next1 \in 1 .. MaxTokens
           /\ UNCHANGED <<sessionVars, browserVars, adopted, lost>>
           /\ \/ /\ Rotates(r, doc', family')
                 /\ Prune(doc', RotateCachedTokens(r.current, Next1), RotateName(r.current, Next1))
                 /\ named' = NamedAfter(r.current) /\ answers' = answers + 1
                 /\ Shows(t, "joining", Next1, tab[t].session, NameOf(r.current), tab[t].fresh,
                          answers + 1)
                 /\ UNCHANGED <<excused, untied>>
              \/ /\ doc' = doc /\ UNCHANGED <<family, excused, untied, answers, named>>
                 /\ Prune(doc, grace, names) /\ Shows(t, "closed", 0, 0, 0, FALSE, 0)
              \/ /\ Rotates(r, doc', family')
                 /\ excused' = excused \cup {family[r.current]}
                 /\ untied' = untied \cup {family[r.current]}
                 /\ Prune(doc', grace, names) /\ Shows(t, "closed", 0, 0, 0, FALSE, 0)
                 /\ UNCHANGED <<answers, named>>
    BY RecoverFacts
  <1>2. UNCHANGED <<stored, adopted, lost>> BY <1>1 DEF browserVars
  <1>3. tab[t].at = "recovering" BY DEF Recover
  <1>4. ~Answer(t) BY <1>3 DEF Answer
  <1>5. /\ r.current \in 1 .. Issued /\ t[1] \in Profiles /\ Holds(t[1], r.current)
        /\ answers \in Nat
    BY <1>1, <1>3, EndFamilies, HolderTokens DEF Holds
  <1>6. CASE /\ Rotates(r, doc', family')
             /\ Prune(doc', RotateCachedTokens(r.current, Next1), RotateName(r.current, Next1))
             /\ Shows(t, "joining", Next1, tab[t].session, NameOf(r.current), tab[t].fresh,
                      answers + 1)
             /\ UNCHANGED <<excused, untied>>
    <2>1. /\ FamiliesStay /\ LedOn /\ family'[Next1] = family[r.current]
          /\ \A k \in 1 .. Issued :
                family[k] # family[r.current] /\ AllCurrent(k) => AllCurrent(k)'
          /\ \A k : k = Next1 => AllCurrent(k)'
      BY <1>2, <1>6, RotatesHold
    <2>2. tab'[t].n = answers + 1 /\ Answer(t)'
      <3>1. Next1 # 0 BY <1>1
      <3> QED BY <1>6, <3>1, AnswerTabs
    <2>3. CurrentOn
      <3> SUFFICES ASSUME NEW p \in Profiles, NEW k \in 1 .. Issued, Holds(p, k),
                          family[k] \notin excused', AllCurrent(k),
                          family[k] = family[r.current]
                   PROVE  \A n \in 0 .. answers : Missed(p, n)'
        BY <2>1 DEF CurrentOn
      <3>1. p = t[1] BY <1>5, <1>6 DEF HoldInv
      <3> QED BY <1>5, <2>2, <3>1 DEF Missed
    <2> QED BY <1>2, <1>4, <1>5, <1>6, <2>1, <2>3, SetsOutHolds
  <1>7. CASE /\ doc' = doc /\ UNCHANGED <<family, excused>>
             /\ Prune(doc, grace, names) /\ Shows(t, "closed", 0, 0, 0, FALSE, 0)
    <2>1. Drops({}) BY <1>7, NoneGo
    <2>2. FamiliesStay /\ LedOn /\ CurrentOn BY <1>2, <1>7, <2>1, DropsHold
    <2> QED BY <1>2, <1>4, <1>7, <2>2, QuietHolds
  <1>8. CASE /\ Rotates(r, doc', family')
             /\ excused' = excused \cup {family[r.current]}
             /\ Prune(doc', grace, names) /\ Shows(t, "closed", 0, 0, 0, FALSE, 0)
    <2>1. /\ FamiliesStay /\ LedOn
          /\ \A k \in 1 .. Issued :
                family[k] # family[r.current] /\ AllCurrent(k) => AllCurrent(k)'
      BY <1>2, <1>8, RotatesHold
    <2>2. CurrentOn BY <1>8, <2>1 DEF CurrentOn
    <2> QED BY <1>2, <1>4, <1>8, <2>1, <2>2, QuietHolds
  <1> QED BY <1>1, <1>6, <1>7, <1>8

\* ... or finds the successor by the token that it replaced.
LEMMA GraceHolds ==
  ASSUME TypeInv, TypeInv', HoldInv, NEW t \in Tabs, RecoverInGrace(t)
  PROVE  HoldInv'
PROOF
  <1>1. UNCHANGED <<doc, grace, stored, family, adopted, lost, excused>>
    BY GraceFacts DEF browserVars
  <1>2. PICK r \in ToSet(doc), e \in grace :
           /\ e.token = r.current /\ e.old = tab[t].token /\ family[e.old] = family[r.current]
           /\ Shows(t, "joining", r.current, tab[t].session, NameOf(r.current), tab[t].fresh,
                    answers + 1)
    BY GraceFacts
  <1>3. tab[t].at = "recovering" BY DEF RecoverInGrace
  <1>4. ~Answer(t) BY <1>3 DEF Answer
  <1>5. FamiliesStay /\ LedOn /\ CurrentOn BY <1>1, SameRegistry
  <1>6. \A k : k = r.current => AllCurrent(k)'
    <2>1. \A q \in ToSet(doc) : family[q.current] = family[r.current] => q = r
      BY DEF TypeInv, StoreOK, RegistryOK
    <2> QED BY <1>1, <2>1 DEF AllCurrent
  <1>7. \E l \in 1 .. Issued : Holds(t[1], l) /\ family[l] = family'[r.current]
    <2>1. e.old \in 1 .. Issued BY DEF TypeInv, StoreOK, GraceOK, Issued
    <2>2. Holds(t[1], e.old) BY <1>2, <1>3, <2>1 DEF Holds
    <2> QED BY <1>1, <1>2, <2>1, <2>2
  <1> QED BY <1>1, <1>2, <1>4, <1>5, <1>6, <1>7, SetsOutHolds

\* A registration goes, or a new one comes with a token of its own.
LEMMA StoreHolds ==
  ASSUME TypeInv, TypeInv', HoldInv, NEW t \in Tabs,
         TakenForCopy(t) \/ Forget(t) \/ Register(t)
  PROVE  HoldInv'
PROOF
  <1>1. UNCHANGED <<stored, adopted, lost, excused>>
    BY TakenFacts, ForgetFacts, RegisterFacts DEF browserVars
  <1>2. tab[t].at \in {"recovering", "signing", "registering"} BY DEF TakenForCopy, Forget, Register
  <1>3. ~Answer(t) BY <1>2 DEF Answer
  <1>4. ASSUME NEW gone, Drops(gone) PROVE FamiliesStay /\ LedOn /\ CurrentOn
    BY <1>1, <1>4, DropsHold
  <1>5. CASE TakenForCopy(t)
    <2>1. PICK r \in ToSet(doc) :
            /\ \/ /\ Drops({r})
                  /\ Shows(t, "revoking", r.current, tab[t].session, NameOf(r.current),
                           tab[t].fresh, tab[t].n)
               \/ /\ Drops({r}) \/ Drops({})
                  /\ Shows(t, "closed", 0, 0, 0, FALSE, 0)
      BY <1>5, TakenFacts
    <2>2. FamiliesStay /\ LedOn /\ CurrentOn BY <1>4, <2>1
    <2>3. CASE Shows(t, "revoking", r.current, tab[t].session, NameOf(r.current), tab[t].fresh,
                     tab[t].n)
      BY <1>1, <1>3, <2>2, <2>3, QuietHolds
    <2>4. CASE Shows(t, "closed", 0, 0, 0, FALSE, 0) BY <1>1, <1>3, <2>2, <2>4, QuietHolds
    <2> QED BY <2>1, <2>3, <2>4
  <1>6. CASE Forget(t)
    <2>1. /\ \E gone : Drops(gone)
          /\ \E at \in {"leaving", "open"} : \E k, m :
               Shows(t, at, k, tab[t].session, m, tab[t].fresh, tab[t].n)
      BY <1>6, ForgetFacts
    <2>2. FamiliesStay /\ LedOn /\ CurrentOn BY <1>4, <2>1
    <2> QED BY <1>1, <1>3, <2>1, <2>2, QuietHolds
  <1>7. CASE Register(t)
    <2>1. FamiliesStay /\ LedOn /\ CurrentOn BY <1>1, <1>4, <1>7, RegisterFacts, AddsHold
    <2>2. CASE Shows(t, "entered", 0, tab[t].session, tab[t].name, tab[t].fresh, answers + 1)
      BY <1>1, <1>3, <2>1, <2>2, QuietHolds
    <2>3. CASE /\ Adds
               /\ Shows(t, "entered", Next1, tab[t].session, tab[t].name, tab[t].fresh, answers + 1)
      <3>1. (\A k : k = Next1 => AllCurrent(k)') /\ family'[Next1] = Issued + 1
        BY <1>1, <2>3, AddsHold DEF Next1
      <3> QED BY <1>1, <1>3, <2>1, <2>3, <3>1, SetsOutHolds
    <2>4. CASE Shows(t, "closed", 0, 0, 0, FALSE, 0) BY <1>1, <1>3, <2>1, <2>4, QuietHolds
    <2> QED BY <1>7, <2>2, <2>3, <2>4, RegisterFacts
  <1> QED BY <1>5, <1>6, <1>7

\* Links, and the ends of sessions and registrations, concern no token.
LEMMA OutsideHolds ==
  ASSUME TypeInv, TypeInv', HoldInv,
         Reissue \/ SessionExpires \/ RegistrationExpires \/ UNCHANGED vars
  PROVE  HoldInv'
PROOF
  <1>1. UNCHANGED <<tab, family, stored, adopted, lost, excused, answers, Issued>>
    BY DEF Reissue, SessionExpires, RegistrationExpires, browserVars, ghostVars, vars, Issued
  <1>2. /\ \A me : HoldersFrom(me)
        /\ MissedOn /\ StoredFrom /\ AnswersFrom
    BY <1>1 DEF HoldersFrom, Holds, MissedOn, Missed, Answer, StoredFrom, AnswersFrom
  <1>3. FamiliesStay /\ LedOn /\ CurrentOn
    <2>1. CASE RegistrationExpires
      <3> DEFINE gone == ToSet(doc) \ ToSet(doc')
      <3>1. doc # << >> /\ doc' = Tail(doc) /\ Prune(doc', grace, names)
        BY <2>1 DEF RegistrationExpires
      <3>2. doc \in Seq(Registration) /\ Distinct(doc) BY DEF TypeInv, StoreOK, RegistryOK
      <3>3. ToSet(doc') \subseteq ToSet(doc) BY <3>1, <3>2, TailOne
      <3>4. RegistryOK(doc', family) BY <1>1 DEF TypeInv, StoreOK, RegistryOK, Remembers
      <3>5. Drops(gone) BY <1>1, <3>1, <3>3, <3>4 DEF Drops
      <3> QED BY <1>1, <3>5, DropsHold
    <2>2. CASE ~RegistrationExpires
      <3>1. UNCHANGED <<doc, grace>> BY <2>2 DEF Reissue, SessionExpires, storeVars, vars
      <3> QED BY <1>1, <3>1, SameRegistry
    <2> QED BY <2>1, <2>2
  <1> QED BY <1>2, <1>3, HoldsOn

\* A copied token is excused.
LEMMA CopyHolds ==
  ASSUME TypeInv, TypeInv', HoldInv, Copy
  PROVE  HoldInv'
PROOF
  <1>1. UNCHANGED <<doc, grace, tab, family, adopted, lost, answers, Issued>>
    BY DEF Copy, storeVars, Issued
  <1>2. PICK p \in Profiles, q \in Profiles :
          /\ stored[p] # 0 /\ stored' = [stored EXCEPT ![q] = stored[p]]
          /\ excused' = excused \cup {family[stored[p]]}
    BY DEF Copy
  <1>3. \A x \in Profiles : stored'[x] = stored[x] \/ family[stored'[x]] \in excused'
    BY <1>2 DEF TypeInv, RestOK, BrowsersOK
  <1>4. FamiliesStay /\ LedOn /\ CurrentOn BY <1>1, <1>2, SameRegistry
  <1>5. HoldersFrom(p) BY <1>1, <1>3 DEF HoldersFrom, Holds
  <1>6. StoredFrom BY <1>1, <1>3 DEF StoredFrom
  <1>7. MissedOn /\ AnswersFrom BY <1>1 DEF MissedOn, Missed, Answer, AnswersFrom
  <1> QED BY <1>4, <1>5, <1>6, <1>7, HoldsOn

\* A browser that is not owed a later token has the current one.
LEMMA OwedOrCurrent ==
  ASSUME TypeInv, HoldInv, NEW old, NEW gone, NEW p \in Profiles, stored[p] \in old,
         stored[p] # 0, family[stored[p]] \notin excused \cup Owed(old, gone),
         Missed(p, adopted[p]) => gone[p] > adopted[p]
  PROVE  AllCurrent(stored[p])
PROOF BY DEF HoldInv, Owed

\* The grace of a token ends: it leads no further, but nobody without an excuse holds it.
LEMMA GraceEndsHolds ==
  ASSUME TypeInv, TypeInv', HoldInv, GraceEnds
  PROVE  HoldInv'
PROOF
  <1>1. UNCHANGED <<doc, tab, family, stored, adopted, lost, answers, Issued>>
    BY DEF GraceEnds, browserVars, Issued
  <1>2. PICK e \in grace : /\ grace' = grace \ {e}
                           /\ excused' = excused \cup Owed({e.old}, lost)
    BY DEF GraceEnds
  <1>3. \A t \in Tabs : tab[t].at \in {"closed", "open"} BY DEF GraceEnds, Resting
  <1>4. FamiliesStay
    <2>1. \A p \in Profiles : adopted[p] <= adopted[p] BY HolderTokens
    <2> QED BY <1>1, <1>2, <2>1 DEF FamiliesStay
  <1>5. LedOn
    <2> SUFFICES ASSUME NEW p \in Profiles, NEW k \in 1 .. Issued, Holds(p, k),
                        family[k] \notin excused', Led(k)
                 PROVE  Led(k)'
      BY DEF LedOn
    <2>1. stored[p] = k BY <1>3 DEF Holds
    <2>2. CASE k = e.old
      <3>1. Missed(p, adopted[p]) => lost[p] > adopted[p] BY <1>3 DEF Missed, Answer
      <3>2. AllCurrent(stored[p]) BY <1>2, <2>1, <2>2, <3>1, OwedOrCurrent
      <3>3. \A r \in ToSet(doc') : family'[r.current] = family'[k] => r.current = k
        BY <1>1, <2>1, <3>2 DEF AllCurrent
      <3> QED BY <3>3 DEF Led
    <2>3. CASE k # e.old BY <1>1, <1>2, <2>3 DEF Led
    <2> QED BY <2>2, <2>3
  <1>6. CurrentOn BY <1>1 DEF CurrentOn, AllCurrent
  <1>7. /\ \A me : HoldersFrom(me)
        /\ MissedOn /\ StoredFrom /\ AnswersFrom
    BY <1>1 DEF HoldersFrom, Holds, MissedOn, Missed, Answer, StoredFrom, AnswersFrom
  <1> QED BY <1>4, <1>5, <1>6, <1>7, HoldsOn

\* A restart ends every grace, and loses the answers under way.
LEMMA RestartHolds ==
  ASSUME TypeInv, TypeInv', HoldInv, NEW moved \in BOOLEAN, Restart(moved)
  PROVE  HoldInv'
PROOF
  <1>1. /\ doc' = (IF moved THEN << >> ELSE doc) /\ grace' = {}
        /\ tab' = [t \in Tabs |-> IF tab[t].at = "open" THEN tab[t] ELSE Closed]
        /\ stored' = (IF moved THEN [p \in Profiles |-> 0] ELSE stored)
        /\ excused' = excused \cup Owed(1 .. MaxTokens, lost')
        /\ UNCHANGED <<family, answers, adopted>>
    BY DEF Restart
  <1>2. \A p \in Profiles : /\ lost'[p] \in 0 .. answers /\ lost'[p] >= lost[p]
                            /\ \A t \in Tabs : t[1] = p => lost'[p] >= LostBy(t)
    BY GoneIsLatest DEF Restart
  <1>3. \A t \in Tabs : tab'[t].at \in {"open", "closed"} BY <1>1 DEF Closed
  <1>4. \A p \in Profiles : stored'[p] = 0 \/ stored'[p] = stored[p] BY <1>1
  <1>5. ToSet(doc') \subseteq ToSet(doc) /\ UNCHANGED Issued BY <1>1 DEF ToSet, Issued
  <1>6. \A p \in Profiles : \A k : Holds(p, k)' => stored[p] = k /\ Holds(p, k)
    BY <1>3, <1>4 DEF Holds
  <1>7. \A p \in Profiles, n \in 0 .. answers : Missed(p, n) => lost'[p] > n
    <2> SUFFICES ASSUME NEW p \in Profiles, NEW n \in 0 .. answers, Missed(p, n)
                 PROVE  lost'[p] > n
      OBVIOUS
    <2>1. lost[p] \in 0 .. answers /\ answers \in Nat BY HolderTokens
    <2>2. ASSUME NEW t \in Tabs, t[1] = p, Answer(t), tab[t].n > n PROVE lost'[p] > n
      <3>1. LostBy(t) = tab[t].n BY <2>2 DEF LostBy, Answer
      <3>2. tab[t].n \in 0 .. answers BY HolderTokens
      <3> QED BY <1>2, <2>1, <2>2, <3>1, <3>2
    <2> QED BY <1>2, <2>1, <2>2 DEF Missed
  <1>8. FamiliesStay
    <2>1. \A p \in Profiles : adopted[p] <= adopted[p] BY HolderTokens
    <2> QED BY <1>1, <1>5, <2>1 DEF FamiliesStay
  <1>9. LedOn
    <2> SUFFICES ASSUME NEW p \in Profiles, NEW k \in 1 .. Issued, Holds(p, k)',
                        family[k] \notin excused'
                 PROVE  Led(k)'
      BY DEF LedOn
    <2>1. stored[p] = k /\ k # 0 BY <1>6 DEF Holds
    <2>2. k \in 1 .. MaxTokens BY Counted
    <2>3. Missed(p, adopted[p]) => lost'[p] > adopted[p] BY <1>7, HolderTokens
    <2>4. AllCurrent(stored[p])
          <3>1. family[stored[p]] \notin excused \cup Owed(1 .. MaxTokens, lost') BY <1>1, <2>1
      <3> QED BY <2>1, <2>2, <2>3, <3>1 DEF HoldInv, Owed
    <2>5. \A r \in ToSet(doc') : family'[r.current] = family'[k] => r.current = k
      BY <1>1, <1>5, <2>1, <2>4 DEF AllCurrent
    <2> QED BY <2>5 DEF Led
  <1>10. CurrentOn BY <1>1, <1>5 DEF CurrentOn, AllCurrent
  <1>11. MissedOn BY <1>7 DEF MissedOn, Missed
  <1>12. \A me : HoldersFrom(me) BY <1>5, <1>6 DEF HoldersFrom
  <1>13. StoredFrom BY <1>1, <1>4 DEF StoredFrom
  <1>14. AnswersFrom BY <1>3 DEF AnswersFrom, Answer
  <1> QED BY <1>8, <1>9, <1>10, <1>11, <1>12, <1>13, <1>14, HoldsOn

\* Every step keeps what browsers hold.
LEMMA NextHoldInv ==
  ASSUME TypeInv, TypeInv', HoldInv, [Next]_vars
  PROVE  HoldInv'
PROOF
  <1>1. ASSUME NEW t \in Tabs, Page(t) PROVE HoldInv'
    BY <1>1, PageHolds DEF Page
  <1>2. ASSUME NEW t \in Tabs, Engine(t) PROVE HoldInv'
    <2>1. CASE Refuse(t) \/ LinkUsed(t) \/ RevokeRegistration(t) \/ Leave(t) \/ Bootstrap(t)
      BY <2>1, PageHolds
    <2>2. CASE JoinOrIssue(t) BY <2>2, JoinHolds
    <2>3. CASE Recover(t) BY <2>3, RecoverHolds
    <2>4. CASE RecoverInGrace(t) BY <2>4, GraceHolds
    <2>5. CASE TakenForCopy(t) \/ Forget(t) \/ Register(t) BY <2>5, StoreHolds
    <2> QED BY <1>2, <2>1, <2>2, <2>3, <2>4, <2>5 DEF Engine
  <1>3. ASSUME NEW t \in Tabs, Arrives(t) PROVE HoldInv'
    BY <1>3, ArriveHolds DEF Arrives
  <1>4. CASE Reissue \/ SessionExpires \/ RegistrationExpires \/ UNCHANGED vars
    BY <1>4, OutsideHolds
  <1>5. CASE GraceEnds BY <1>5, GraceEndsHolds
  <1>6. CASE Copy BY <1>6, CopyHolds
  <1>7. ASSUME NEW moved \in BOOLEAN, Restart(moved) PROVE HoldInv'
    BY <1>7, RestartHolds
  <1> QED BY <1>1, <1>2, <1>3, <1>4, <1>5, <1>6, <1>7 DEF Next

\* At the start one profile has the only token, and it is current.
LEMMA InitHoldInv ==
  ASSUME NEW first \in Profiles, NEW bounds, EntranceInit(first, bounds)
  PROVE  HoldInv
PROOF
  <1> DEFINE r == [current |-> 1, retired |-> << >>]
  <1>1. /\ doc = <<r>> /\ tab = [t \in Tabs |-> Closed]
        /\ stored = [p \in Profiles |-> IF p = first THEN 1 ELSE 0]
    BY DEF EntranceInit
  <1>2. \A t \in Tabs : tab[t].at = "closed" BY <1>1 DEF Closed
  <1>3. \A s \in ToSet(doc) : s.current = 1 BY <1>1 DEF ToSet
  <1>4. \A p \in Profiles : stored[p] = 0 \/ (p = first /\ stored[p] = 1) BY <1>1
  <1>5. \A p \in Profiles : \A k : Holds(p, k) => p = first /\ k = 1 BY <1>2, <1>4 DEF Holds
  <1>6. AllCurrent(1) /\ Led(1) BY <1>3 DEF AllCurrent, Led
  <1>7. \A t \in Tabs : ~Answer(t) BY <1>2 DEF Answer
  <1> QED BY <1>4, <1>5, <1>6, <1>7 DEF HoldInv

\* What turns a recovery into a revocation.
LEMMA OnlyTaken ==
  ASSUME TypeInv, [Next]_vars, NEW t \in Tabs, tab[t].at = "recovering", tab'[t].at = "revoking"
  PROVE  TakenForCopy(t)
PROOF
  <1>1. TabsOK /\ tab \in [Tabs -> TabState(Issued, born, answers)]
    BY DEF TypeInv, RestOK, TabsOK
  <1>2. tab'[t] # tab[t] OBVIOUS
  <1>3. ASSUME NEW u \in Tabs, Page(u) \/ Engine(u) \/ Arrives(u), u # t PROVE tab'[t] = tab[t]
    <2>1. CASE Page(u) \/ Arrives(u)
      BY <1>1, <1>3, <2>1 DEF Page, Load, OpenLink, SignOut, Arrives, Adopt, Dropped, Lose, Presents,
         Goes
    <2>2. CASE Engine(u)
      BY <1>1, <1>3, <2>2 DEF Engine, Recover, RecoverInGrace, TakenForCopy, Refuse, JoinOrIssue,
         RevokeRegistration, Bootstrap, LinkUsed, Register, Forget, Leave, Enters, Accepted,
         Presents, Goes, Turns
    <2> QED BY <1>3, <2>1, <2>2
  <1>4. ~(Page(t) \/ Arrives(t))
    BY DEF Page, Load, OpenLink, SignOut, InSession, Arrives, Adopt, Dropped, Lose
  <1>5. ASSUME Engine(t) PROVE TakenForCopy(t)
    <2>1. Recover(t) \/ RecoverInGrace(t) \/ Refuse(t) \/ TakenForCopy(t)
      BY <1>5 DEF Engine, JoinOrIssue, RevokeRegistration, Bootstrap, LinkUsed, Register, Forget, Leave
    <2>2. ~Refuse(t)
      <3>1. ASSUME NEW tabs, tab \in [Tabs -> tabs], Refuse(t) PROVE tab'[t].at = "refused"
        <4>1. tab' = [tab EXCEPT ![t].at = "refused"] BY <3>1 DEF Refuse, Turns
        <4> QED BY <3>1, <4>1, <1>1 DEF TabState
      <3> QED BY <1>1, <3>1
    <2>3. ASSUME RecoverInGrace(t) PROVE FALSE
      <3>1. PICK e \in grace : Shows(t, "joining", e.token, tab[t].session, NameOf(e.token),
                                     tab[t].fresh, answers + 1)
        BY <2>3, GraceFacts
      <3>2. tab'[t].at = "joining" BY <3>1, AnswerTabs
      <3> QED BY <3>2
    <2>4. ASSUME Recover(t) PROVE FALSE
      <3>1. PICK r \in ToSet(doc) :
               \/ Shows(t, "joining", Next1, tab[t].session, NameOf(r.current), tab[t].fresh,
                        answers + 1)
               \/ Shows(t, "closed", 0, 0, 0, FALSE, 0)
        BY <2>4, RecoverFacts
      <3>2. tab'[t].at \in {"joining", "closed"} BY <3>1, AnswerTabs
      <3> QED BY <3>2
    <2> QED BY <2>1, <2>2, <2>3, <2>4
  <1>6. ~(Reissue \/ GraceEnds \/ SessionExpires \/ RegistrationExpires \/ Copy \/ UNCHANGED vars)
    BY DEF Reissue, GraceEnds, SessionExpires, RegistrationExpires, Copy, vars
  <1>7. \A moved \in BOOLEAN : ~Restart(moved)
    <2>1. \A moved \in BOOLEAN : Restart(moved) => tab'[t].at \in {"open", "closed"}
      BY DEF Restart, Closed
    <2> QED BY <2>1
  <1> QED BY <1>2, <1>3, <1>4, <1>5, <1>6, <1>7 DEF Next

\* A token taken for a copy leads nowhere: an honest holder of it has an excuse.
LEMMA TakenAreExcused ==
  ASSUME TypeInv, HoldInv, NEW t \in Tabs, TakenForCopy(t)
  PROVE  family[tab[t].token] \in excused
PROOF
  <1> DEFINE k == tab[t].token
  <1>1. PICK r \in ToSet(doc) : k \in ToSet(r.retired) /\ CurrentAt(k) = 0 /\ Recent(k) = {}
    BY TakenFacts
  <1>2. k \in 1 .. Issued /\ family[r.current] = family[k]
    BY <1>1 DEF TypeInv, StoreOK, RegistryOK, Remembers, Issued
  <1>3. k \notin Currents(doc)
    BY <1>1, CurrentAtFinds DEF TypeInv, StoreOK, RegistryOK
  <1>4. r.current # k BY <1>3, CurrentsOf
  <1>5. ~\E e \in grace : e.old = k BY <1>1 DEF Recent
  <1>6. ~Led(k) BY <1>2, <1>4, <1>5 DEF Led
  <1>7. t[1] \in Profiles /\ Holds(t[1], k) BY <1>2, HolderTokens DEF TakenForCopy, Holds
  <1> QED BY <1>2, <1>6, <1>7 DEF HoldInv

\* Store.Recover takes a browser for a copy only when it has a reason to: a token of its
\* registration was copied to another profile, an answer with a later token did not arrive
\* or arrived before an earlier one, or a document was saved that the engine took for
\* unsaved.  It holds for any number of browsers, tabs, registrations and restarts.
THEOREM CopiesOnly ==
  ASSUME NEW first \in Profiles, NEW bounds
  PROVE  EntranceSpec(first, bounds) => OnlyCopiesAreTaken
PROOF
  <1>1. EntranceInit(first, bounds) => TypeInv /\ HoldInv BY InitTypeInv, InitHoldInv
  <1>2. TypeInv /\ HoldInv /\ [Next]_vars => TypeInv' /\ HoldInv' BY NextTypeInv, NextHoldInv
  <1>3. TypeInv /\ HoldInv /\ [Next]_vars =>
          [\A t \in Tabs :
             tab[t].at = "recovering" /\ tab'[t].at = "revoking" =>
                 family[tab[t].token] \in excused]_vars
    BY OnlyTaken, TakenAreExcused
  <1> QED BY <1>1, <1>2, <1>3, PTL DEF EntranceSpec, OnlyCopiesAreTaken
=============================================================================
