--------------------------- MODULE SdkModelProofs ---------------------------
(***************************************************************************)
(* Every update of a readable registry gives a readable registry.          *)
(***************************************************************************)
EXTENDS SdkModel, WellFoundedInduction, TLAPS

(* A non-empty set of builds has a newest one: resolve_request's max_by     *)
(* over the matching installations is defined.                             *)
LEMMA NewestExists ==
    ASSUME NEW S \in SUBSET Id, S # {}
    PROVE  \E i \in S : \A j \in S : Rank[i] <= Rank[j]
<1> DEFINE T == {Rank[i] : i \in S}
           Less == {ss \in Nat \X Nat : ss[1] < ss[2]}
<1>1. T \subseteq Nat /\ T # {}
  BY SdkAssumption
<1>2. IsWellFoundedOn(Less, Nat)
  BY NatLessThanWellFounded DEF OpToRel
<1>3. \E x \in T : \A y \in T : ~ (<<y, x>> \in Less)
  <2> HIDE DEF T, Less
  <2> QED  BY <1>1, <1>2, WFMin
<1>4. PICK x \in T : \A y \in T : ~ (<<y, x>> \in Less)
  BY <1>3
<1>5. \A y \in T : x <= y
  <2>1. SUFFICES ASSUME NEW y \in T  PROVE x <= y
    OBVIOUS
  <2>2. x \in Nat /\ y \in Nat
    BY <1>1
  <2>3. ~ (y < x)
    BY <1>4, <2>1, <2>2
  <2> QED  BY <2>2, <2>3
<1> QED  BY <1>5

(* The newest build of a non-empty set is one of its members, and the only *)
(* one that no other precedes.                                             *)
LEMMA NewestIn ==
    ASSUME NEW S \in SUBSET Id, S # {}
    PROVE  Newest(S) \in S /\ \A j \in S : Rank[Newest(S)] <= Rank[j]
BY NewestExists DEF Newest

\* A build that matches and that no other matching one precedes is the newest.
LEMMA NewestOf ==
    ASSUME NEW S \in SUBSET Id, NEW i \in S, \A j \in S : Rank[i] <= Rank[j]
    PROVE  Newest(S) = i
<1>1. Newest(S) \in S /\ Rank[Newest(S)] <= Rank[i] /\ Rank[i] <= Rank[Newest(S)]
  BY NewestIn
<1> QED  BY <1>1, SdkAssumption

(* Removing another build does not change the newest one.                  *)
LEMMA NewestKept ==
    ASSUME NEW S \in SUBSET Id, NEW i, Newest(S) # i
    PROVE  Newest(S \ {i}) = Newest(S)
<1>1. CASE S = {}
  BY <1>1 DEF Newest
<1>2. CASE S # {}
  <2>1. Newest(S) \in S \ {i} /\ \A j \in S \ {i} : Rank[Newest(S)] <= Rank[j]
    BY <1>2, NewestIn
  <2> QED  BY <2>1, NewestOf
<1> QED  BY <1>1, <1>2

-----------------------------------------------------------------------------
(* resolve_request depends on the bindings and the matching builds only.   *)
LEMMA ResolveType ==
    ASSUME NEW reg \in Registry, Readable(reg), NEW r \in Req,
           ResolveRequest(reg, r) # NoId
    PROVE  ResolveRequest(reg, r) \in reg.installations \cap Accepts[r]
<1> DEFINE S == {i \in reg.installations : i \in Accepts[r]}
<1>1. S \in SUBSET Id
  BY DEF Registry
<1>2. CASE Selected(reg, r)
  <2>1. SelectionOf(reg, r) \in reg.selections /\ SelectionOf(reg, r).request = r
    BY <1>2 DEF Selected, SelectionOf
  <2> QED
    BY <1>2, <2>1 DEF ResolveRequest, Readable, SelectionsBound
<1>3. CASE ~ Selected(reg, r)
  <2>1. S # {}
    BY <1>3 DEF ResolveRequest, Newest
  <2> QED
    BY <1>1, <1>3, <2>1, NewestIn DEF ResolveRequest
<1> QED  BY <1>2, <1>3

(* A readable registry: a request is bound to the installation of any of   *)
(* its selections.                                                         *)
LEMMA SelectionOfIs ==
    ASSUME NEW reg, SelectionsUnique(reg), NEW s \in reg.selections
    PROVE  Selected(reg, s.request) /\ SelectionOf(reg, s.request) = s
BY DEF SelectionsUnique, Selected, SelectionOf

\* read() of a home without a registry returns the empty one, which is valid.
LEMMA EmptyReadable == EmptyRegistry \in Registry /\ Readable(EmptyRegistry)
<1>1. [k \in {} |-> NoId] \in [{} -> DefaultSelection]
  OBVIOUS
<1>2. [k \in {} |-> NoId] \in DefaultMap
  BY <1>1 DEF DefaultMap
<1>3. EmptyRegistry \in Registry
  BY <1>2 DEF EmptyRegistry, Registry
<1> QED
  BY <1>3 DEF EmptyRegistry, Readable, SelectionsBound, SelectionsUnique,
              DefaultsResolve

-----------------------------------------------------------------------------
(* A request resolves exactly when a matching build is installed: a stored *)
(* binding never hides that there is one.                                  *)
LEMMA Resolvable ==
    ASSUME NEW reg \in Registry, SelectionsBound(reg), NEW r \in Req
    PROVE  ResolveRequest(reg, r) # NoId
               <=> \E i \in reg.installations : i \in Accepts[r]
<1> DEFINE S == {i \in reg.installations : i \in Accepts[r]}
<1>1. S \in SUBSET Id /\ NoId \notin Id
  BY SdkAssumption DEF Registry
<1>2. CASE Selected(reg, r)
  <2>1. SelectionOf(reg, r) \in reg.selections /\ SelectionOf(reg, r).request = r
    BY <1>2 DEF Selected, SelectionOf
  <2>2. SelectionOf(reg, r).installation \in S
    BY <2>1 DEF SelectionsBound
  <2> QED  BY <1>1, <1>2, <2>2 DEF ResolveRequest
<1>3. CASE ~ Selected(reg, r)
  <2>1. ResolveRequest(reg, r) = Newest(S)
    BY <1>3 DEF ResolveRequest
  <2>2. CASE S = {}
    BY <2>1, <2>2 DEF Newest
  <2>3. CASE S # {}
    <3>1. Newest(S) \in S
      BY <1>1, <2>3, NewestIn
    <3> QED  BY <1>1, <2>1, <3>1
  <2> QED  BY <2>2, <2>3
<1> QED  BY <1>2, <1>3

(* Defaults go on resolving while installations are only added.            *)
LEMMA DefaultsMonotone ==
    ASSUME NEW reg \in Registry, NEW new \in Registry,
           SelectionsBound(reg), SelectionsBound(new),
           reg.installations \subseteq new.installations,
           new.defaults = reg.defaults,
           DefaultsResolve(reg)
    PROVE  DefaultsResolve(new)
<1>1. SUFFICES ASSUME NEW k \in DOMAIN reg.defaults
               PROVE  DefaultAtKey(new, k) # NoId
  BY DEF DefaultsResolve
<1> DEFINE d == reg.defaults[k]
<1>2. d \in DefaultSelection
  BY DEF Registry, DefaultMap
<1>3. d.request \in Req /\ NoId \notin Id
  BY <1>2, SdkAssumption DEF DefaultSelection
<1>4. KeyOf[d.request] = k /\ DefaultInstallation(reg, d) # NoId
  BY DEF DefaultsResolve, DefaultAtKey
<1>5. DefaultInstallation(new, d) # NoId
  <2>1. CASE d.id = NoId
    BY <1>3, <1>4, <2>1, Resolvable DEF DefaultInstallation
  <2>2. CASE d.id # NoId
    BY <1>4, <2>2 DEF DefaultInstallation
  <2> QED  BY <2>1, <2>2
<1> QED  BY <1>4, <1>5 DEF DefaultAtKey

(* bind: any installed build the request accepts.                          *)
LEMMA BindReadable ==
    ASSUME NEW reg \in Registry, Readable(reg), NEW r \in Req, NEW pin \in BOOLEAN,
           NEW i \in reg.installations, i \in Accepts[r]
    PROVE  Bind(reg, r, i, pin) \in Registry /\ Readable(Bind(reg, r, i, pin))
<1> DEFINE new == Bind(reg, r, i, pin)
           sel == [request |-> r, installation |-> i, pinned |-> pin]
<1>1. /\ new.selections = {s \in reg.selections : s.request # r} \cup {sel}
      /\ new.installations = reg.installations
      /\ new.defaults = reg.defaults
  BY DEF Bind, Registry
<1>2. sel \in Selection
  BY DEF Registry, Selection
<1>3. new \in Registry
  BY <1>2 DEF Bind, Registry
<1>4. SelectionsBound(new)
  BY <1>1 DEF SelectionsBound, Readable
<1>5. SelectionsUnique(new)
  BY <1>1 DEF SelectionsUnique, Readable
<1>6. DefaultsResolve(new)
  <2> HIDE DEF new
  <2> QED  BY <1>1, <1>3, <1>4, DefaultsMonotone DEF Readable
<1> QED  BY <1>3, <1>4, <1>5, <1>6 DEF Readable

(* A new record, before its selection is written.                          *)
LEMMA AddReadable ==
    ASSUME NEW reg \in Registry, Readable(reg), NEW i \in Id
    PROVE  /\ AddInstallation(reg, i) \in Registry
           /\ Readable(AddInstallation(reg, i))
           /\ i \in AddInstallation(reg, i).installations
<1> DEFINE new == AddInstallation(reg, i)
<1>1. /\ new.selections = reg.selections
      /\ new.installations = reg.installations \cup {i}
      /\ new.defaults = reg.defaults
  BY DEF AddInstallation, Registry
<1>2. new \in Registry
  BY DEF AddInstallation, Registry
<1>3. SelectionsBound(new) /\ SelectionsUnique(new)
  BY <1>1 DEF SelectionsBound, SelectionsUnique, Readable
<1>4. DefaultsResolve(new)
  <2> HIDE DEF new
  <2> QED  BY <1>1, <1>2, <1>3, DefaultsMonotone DEF Readable
<1> QED  BY <1>1, <1>2, <1>3, <1>4 DEF Readable

(* set_pin.                                                                *)
LEMMA SetPinnedReadable ==
    ASSUME NEW reg \in Registry, Readable(reg), NEW r \in Req, NEW b \in BOOLEAN
    PROVE  SetPinned(reg, r, b) \in Registry /\ Readable(SetPinned(reg, r, b))
<1> DEFINE new == SetPinned(reg, r, b)
           Pinned(s) == IF s.request = r THEN [s EXCEPT !.pinned = b] ELSE s
<1>1. /\ new.selections = {Pinned(s) : s \in reg.selections}
      /\ new.installations = reg.installations
      /\ new.defaults = reg.defaults
  BY DEF SetPinned, Registry
<1>2. \A s \in reg.selections : /\ Pinned(s) \in Selection
                                /\ Pinned(s).request = s.request
                                /\ Pinned(s).installation = s.installation
  BY DEF Registry, Selection
<1>3. new \in Registry
  BY <1>1, <1>2 DEF SetPinned, Registry
<1>4. SelectionsBound(new)
  BY <1>1, <1>2 DEF SelectionsBound, Readable
<1>5. SelectionsUnique(new)
  <2> HIDE DEF new, Pinned
  <2>1. SUFFICES ASSUME NEW s \in new.selections, NEW t \in new.selections,
                        s.request = t.request
                 PROVE  s = t
    BY DEF SelectionsUnique
  <2>2. PICK s0 \in reg.selections : s = Pinned(s0)
    BY <1>1
  <2>3. PICK t0 \in reg.selections : t = Pinned(t0)
    BY <1>1
  <2>4. s0.request = t0.request
    BY <1>2, <2>1, <2>2, <2>3
  <2>5. s0 = t0
    BY <2>4 DEF Readable, SelectionsUnique
  <2> QED  BY <2>2, <2>3, <2>5
<1>6. DefaultsResolve(new)
  <2> HIDE DEF new
  <2> QED  BY <1>1, <1>3, <1>4, DefaultsMonotone DEF Readable
<1> QED  BY <1>3, <1>4, <1>5, <1>6 DEF Readable

-----------------------------------------------------------------------------
(* set_default: the target resolves when it is stored.                     *)
LEMMA InsertDefaultReadable ==
    ASSUME NEW reg \in Registry, Readable(reg), NEW d \in DefaultSelection,
           DefaultInstallation(reg, d) # NoId
    PROVE  InsertDefault(reg, d) \in Registry /\ Readable(InsertDefault(reg, d))
<1> DEFINE new == InsertDefault(reg, d)
           key == KeyOf[d.request]
           D == DOMAIN reg.defaults \cup {key}
<1>1. /\ new.defaults = [k \in D |-> IF k = key THEN d ELSE reg.defaults[k]]
      /\ new.installations = reg.installations
      /\ new.selections = reg.selections
  BY DEF InsertDefault, Registry
<1>2. PICK K \in SUBSET Key : reg.defaults \in [K -> DefaultSelection]
  BY DEF Registry, DefaultMap
<1>3. D \in SUBSET Key /\ new.defaults \in [D -> DefaultSelection]
  BY <1>1, <1>2, SdkAssumption DEF DefaultSelection
<1>4. new.defaults \in DefaultMap
  BY <1>3 DEF DefaultMap
<1>5. new \in Registry
  BY <1>1, <1>4 DEF InsertDefault, Registry
<1>6. SelectionsBound(new) /\ SelectionsUnique(new)
  BY <1>1 DEF Readable, SelectionsBound, SelectionsUnique
<1>7. \A e : DefaultInstallation(new, e) = DefaultInstallation(reg, e)
  BY <1>1 DEF DefaultInstallation, ResolveRequest, Selected, SelectionOf
<1>8. \A k \in DOMAIN reg.defaults :
         KeyOf[reg.defaults[k].request] = k
            /\ DefaultInstallation(reg, reg.defaults[k]) # NoId
  BY DEF Readable, DefaultsResolve, DefaultAtKey
<1>9. DefaultsResolve(new)
  <2> HIDE DEF new
  <2> QED  BY <1>1, <1>7, <1>8 DEF DefaultsResolve, DefaultAtKey
<1> QED  BY <1>5, <1>6, <1>9 DEF Readable

(* clear_default.                                                          *)
LEMMA RemoveDefaultReadable ==
    ASSUME NEW reg \in Registry, Readable(reg), NEW key \in Key
    PROVE  RemoveDefault(reg, key) \in Registry /\ Readable(RemoveDefault(reg, key))
<1> DEFINE new == RemoveDefault(reg, key)
           D == DOMAIN reg.defaults \ {key}
<1>1. /\ new.defaults = [k \in D |-> reg.defaults[k]]
      /\ new.installations = reg.installations
      /\ new.selections = reg.selections
  BY DEF RemoveDefault, Registry
<1>2. PICK K \in SUBSET Key : reg.defaults \in [K -> DefaultSelection]
  BY DEF Registry, DefaultMap
<1>3. D \in SUBSET Key /\ new.defaults \in [D -> DefaultSelection]
  BY <1>1, <1>2
<1>4. new.defaults \in DefaultMap
  BY <1>3 DEF DefaultMap
<1>5. new \in Registry
  BY <1>1, <1>4 DEF RemoveDefault, Registry
<1>6. SelectionsBound(new) /\ SelectionsUnique(new)
  BY <1>1 DEF Readable, SelectionsBound, SelectionsUnique
<1>7. \A e : DefaultInstallation(new, e) = DefaultInstallation(reg, e)
  BY <1>1 DEF DefaultInstallation, ResolveRequest, Selected, SelectionOf
<1>8. DefaultsResolve(new)
  <2> HIDE DEF new
  <2> QED  BY <1>1, <1>7 DEF Readable, DefaultsResolve, DefaultAtKey
<1> QED  BY <1>5, <1>6, <1>8 DEF Readable

-----------------------------------------------------------------------------
(* uninstall: a request that resolves to another build keeps its build.    *)
LEMMA ForgetKeepsRequests ==
    ASSUME NEW reg \in Registry, Readable(reg), NEW i \in Id, NEW r \in Req,
           ResolveRequest(reg, r) # i
    PROVE  ResolveRequest(Forget(reg, i), r) = ResolveRequest(reg, r)
<1> DEFINE new == Forget(reg, i)
           S == {j \in reg.installations : j \in Accepts[r]}
<1>1. /\ new.selections = {s \in reg.selections : s.installation # i}
      /\ new.installations = reg.installations \ {i}
  BY DEF Forget, Registry
<1>2. CASE Selected(reg, r)
  <2>1. PICK s \in reg.selections : s.request = r
    BY <1>2 DEF Selected
  <2>2. SelectionOf(reg, r) = s
    BY <2>1, SelectionOfIs DEF Readable
  <2>3. s \in new.selections
    BY <1>1, <1>2, <2>2 DEF ResolveRequest
  <2>4. SelectionsUnique(new)
    BY <1>1 DEF Readable, SelectionsUnique
  <2>5. Selected(new, r) /\ SelectionOf(new, r) = s
    <3> HIDE DEF new
    <3> QED  BY <2>1, <2>3, <2>4, SelectionOfIs
  <2> QED  BY <1>2, <2>2, <2>5 DEF ResolveRequest
<1>3. CASE ~ Selected(reg, r)
  <2>1. ~ Selected(new, r)
    BY <1>1, <1>3 DEF Selected
  <2>2. S \in SUBSET Id
    BY DEF Registry
  <2>3. {j \in new.installations : j \in Accepts[r]} = S \ {i}
    BY <1>1
  <2>4. Newest(S) # i
    BY <1>3 DEF ResolveRequest
  <2>5. Newest(S \ {i}) = Newest(S)
    <3> HIDE DEF S
    <3> QED  BY <2>2, <2>4, NewestKept
  <2> QED  BY <1>3, <2>1, <2>3, <2>5 DEF ResolveRequest
<1> QED  BY <1>2, <1>3

(* ... and so does every default slot.                                     *)
LEMMA ForgetKeepsDefaults ==
    ASSUME NEW reg \in Registry, Readable(reg), NEW i \in Id,
           ~ IsDefault(reg, i), NEW k \in DOMAIN reg.defaults
    PROVE  DefaultAtKey(Forget(reg, i), k) = DefaultAtKey(reg, k)
<1> DEFINE d == reg.defaults[k]
<1>1. /\ Forget(reg, i).installations = reg.installations \ {i}
      /\ Forget(reg, i).defaults = reg.defaults
  BY DEF Forget, Registry
<1>2. d \in DefaultSelection
  BY DEF Registry, DefaultMap
<1>3. KeyOf[d.request] = k /\ DefaultInstallation(reg, d) # NoId
  BY DEF Readable, DefaultsResolve, DefaultAtKey
<1>4. DefaultInstallation(reg, d) # i
  BY <1>3 DEF IsDefault, DefaultAtKey
<1>5. DefaultInstallation(Forget(reg, i), d) = DefaultInstallation(reg, d)
  <2>1. CASE d.id = NoId
    BY <1>2, <1>4, <2>1, ForgetKeepsRequests DEF DefaultInstallation, DefaultSelection
  <2>2. CASE d.id # NoId
    BY <1>1, <1>3, <1>4, <2>2 DEF DefaultInstallation
  <2> QED  BY <2>1, <2>2
<1> QED  BY <1>1, <1>3, <1>5 DEF DefaultAtKey

\* uninstall: what is left is readable.
LEMMA ForgetReadable ==
    ASSUME NEW reg \in Registry, Readable(reg), NEW i \in Id, ~ IsDefault(reg, i)
    PROVE  Forget(reg, i) \in Registry /\ Readable(Forget(reg, i))
<1> DEFINE new == Forget(reg, i)
<1>1. /\ new.selections = {s \in reg.selections : s.installation # i}
      /\ new.installations = reg.installations \ {i}
      /\ new.defaults = reg.defaults
  BY DEF Forget, Registry
<1>2. new \in Registry
  BY <1>1 DEF Forget, Registry
<1>3. SelectionsBound(new) /\ SelectionsUnique(new)
  BY <1>1 DEF Readable, SelectionsBound, SelectionsUnique
<1>4. DefaultsResolve(new)
  BY <1>1, ForgetKeepsDefaults DEF Readable, DefaultsResolve
<1> QED  BY <1>2, <1>3, <1>4 DEF Readable

-----------------------------------------------------------------------------
(* One command: new is what a command of state.rs makes of old.            *)
Change(old, new) ==
    \/ \E r \in Req, b \in BOOLEAN :
            Selected(old, r) /\ new = SetPinned(old, r, b)
    \/ \E r \in Req, i \in Id, b \in BOOLEAN :
            i \in old.installations \cap Accepts[r] /\ new = Bind(old, r, i, b)
    \/ \E r \in Req, i \in Id, b \in BOOLEAN :
            /\ i \in Accepts[r]
            /\ i \notin Managed => b
            /\ new = Bind(AddInstallation(old, i), r, i, b)
    \/ \E d \in DefaultSelection :
            /\ DefaultInstallation(old, d) # NoId
            /\ d.id # NoId => d.request = ExactOf[d.id]
            /\ new = InsertDefault(old, d)
    \/ \E k \in Key : new = RemoveDefault(old, k)
    \/ \E i \in Id :
            i \in old.installations /\ ~ IsDefault(old, i) /\ new = Forget(old, i)

\* Every command of SdkManager takes a readable registry to a readable one.
LEMMA ChangeReadable ==
    ASSUME NEW old \in Registry, Readable(old), NEW new, Change(old, new)
    PROVE  new \in Registry /\ Readable(new)
<1>1. CASE \E r \in Req, b \in BOOLEAN :
              Selected(old, r) /\ new = SetPinned(old, r, b)
  BY <1>1, SetPinnedReadable
<1>2. CASE \E r \in Req, i \in Id, b \in BOOLEAN :
              i \in old.installations \cap Accepts[r] /\ new = Bind(old, r, i, b)
  BY <1>2, BindReadable
<1>3. ASSUME NEW r \in Req, NEW i \in Id, NEW b \in BOOLEAN, i \in Accepts[r],
             new = Bind(AddInstallation(old, i), r, i, b)
      PROVE  new \in Registry /\ Readable(new)
  <2> DEFINE added == AddInstallation(old, i)
  <2>1. added \in Registry /\ Readable(added) /\ i \in added.installations
    BY AddReadable
  <2> HIDE DEF added
  <2>2. Bind(added, r, i, b) \in Registry /\ Readable(Bind(added, r, i, b))
    BY <1>3, <2>1, BindReadable
  <2> QED  BY <1>3, <2>2 DEF added
<1>4. CASE \E d \in DefaultSelection :
              DefaultInstallation(old, d) # NoId /\ new = InsertDefault(old, d)
  BY <1>4, InsertDefaultReadable
<1>5. CASE \E k \in Key : new = RemoveDefault(old, k)
  BY <1>5, RemoveDefaultReadable
<1>6. CASE \E i \in Id : ~ IsDefault(old, i) /\ new = Forget(old, i)
  BY <1>6, ForgetReadable
<1> QED  BY <1>1, <1>2, <1>3, <1>4, <1>5, <1>6 DEF Change
=============================================================================
