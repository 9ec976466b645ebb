--------------------------- MODULE AppModelProofs ---------------------------
(***************************************************************************)
(* What every update of the application registry keeps.  As long as        *)
(* repositories do not change what they serve, a good registry stays good; *)
(* bindings and the owners of commands are kept whatever they serve.       *)
(***************************************************************************)
EXTENDS AppModel, TLAPS

\* Well typed, one binding per request, one selection per command, and every
\* binding names an installed release of the request's line.
Sound(reg) ==
    /\ reg \in AppStatus
    /\ SelectionsUnique(reg)
    /\ CommandsUnique(reg)
    /\ SelectionsBound(reg)

\* Sound, and every command resolves: what read() accepts.
Good(reg) ==
    /\ reg \in AppStatus
    /\ SelectionsUnique(reg)
    /\ CommandsUnique(reg)
    /\ Readable(reg)

\* install binds a request to a release that was served for it.
Binding(old, new) ==
    \E r \in Req, b \in BOOLEAN : \E i \in Served(r) :
        OwnsCommand(old, r) /\ new = BindRelease(old, r, i, b)

\* Every other command works on the releases that are installed.
Edit(old, new) ==
    \/ \E r \in Req, b \in BOOLEAN :
         \/ /\ FindRequest(old, r) # NoId
            /\ OwnsCommand(old, r)
            /\ new = Reselect(old, r, b)
         \/ Saved(old, r) /\ new = SetPinned(old, r, b)
    \/ \E t \in Target :
         \/ /\ Resolve(old, t) # NoId
            /\ OwnsCommand(old, IF t \in Req THEN t ELSE App[t])
            /\ new = SelectCommand(old, t)
         \/ /\ Resolve(old, t) # NoId
            /\ OwnsCommand(old, App[Resolve(old, t)])
            /\ new = DropCommand(old, Name(App[Resolve(old, t)]))
         \/ /\ UninstallTarget(old, t) # NoId
            /\ new = Forget(old, UninstallTarget(old, t))

\* One command of AppManager takes the registry from old to new.
Change(old, new) == Binding(old, new) \/ Edit(old, new)

\* No request is bound to another release.
BindingsKept(old, new) ==
    \A s \in old.selections, t \in new.selections :
        s.request = t.request => s.installation = t.installation

\* No command name goes to another product.
OwnersKept(old, new) ==
    \A c \in old.commands, d \in new.commands :
        Name(c.request) = Name(d.request) => SameProduct(c.request, d.request)

-----------------------------------------------------------------------------
(* What the queries return                                                 *)

(* The binding of a saved request is the one find() meets.                 *)
LEMMA FindSaved ==
    ASSUME NEW reg, SelectionsUnique(reg), NEW s \in reg.selections
    PROVE  SelectionOf(reg, s.request) = s /\ FindRequest(reg, s.request) = s.installation
<1>1. SelectionOf(reg, s.request) \in reg.selections
        /\ SelectionOf(reg, s.request).request = s.request
  BY DEF SelectionOf
<1>2. SelectionOf(reg, s.request) = s
  BY <1>1 DEF SelectionsUnique
<1> QED  BY <1>2 DEF FindRequest, Saved

(* Without a binding, an exact request finds its only release.             *)
LEMMA FindExact ==
    ASSUME ReleasesImmutable, NEW reg \in AppStatus, NEW r \in Req, ~ Saved(reg, r),
           NEW i \in reg.installations, App[i] = r
    PROVE  FindRequest(reg, r) = i
<1> DEFINE found == {j \in reg.installations : App[j] = r}
<1>1. found = {i}
  BY DEF ReleasesImmutable, AppStatus
<1> QED  BY <1>1 DEF FindRequest

(* And whatever it finds has that exact request.                           *)
LEMMA FoundExact ==
    ASSUME NEW reg, NEW r, ~ Saved(reg, r), FindRequest(reg, r) # NoId
    PROVE  FindRequest(reg, r) \in reg.installations /\ App[FindRequest(reg, r)] = r
<1> DEFINE found == {j \in reg.installations : App[j] = r}
<1>1. \E i \in found : found = {i}
  BY DEF FindRequest
<1>2. FindRequest(reg, r) = CHOOSE i \in found : TRUE
  BY <1>1 DEF FindRequest
<1> QED  BY <1>1, <1>2

(* find_request returns an installed release of the request's line.        *)
LEMMA FindType ==
    ASSUME NEW reg \in AppStatus, SelectionsBound(reg), NEW r \in Req,
           FindRequest(reg, r) # NoId
    PROVE  /\ FindRequest(reg, r) \in reg.installations
           /\ App[FindRequest(reg, r)].line = r.line
<1>1. CASE Saved(reg, r)
  <2>1. SelectionOf(reg, r) \in reg.selections /\ SelectionOf(reg, r).request = r
    BY <1>1 DEF Saved, SelectionOf
  <2> DEFINE i == SelectionOf(reg, r).installation
  <2>2. FindRequest(reg, r) = i
    BY <1>1 DEF FindRequest
  <2>3. i \in reg.installations /\ Exact(r, App[i].version) = App[i]
    BY <2>1 DEF SelectionsBound
  <2>4. Exact(r, App[i].version).line = r.line
    BY AppAssumption DEF Exact
  <2> QED  BY <2>2, <2>3, <2>4
<1>2. CASE ~ Saved(reg, r)
  BY <1>2, FoundExact
<1> QED  BY <1>1, <1>2

-----------------------------------------------------------------------------
(* Adding a command that resolves keeps a registry good.                   *)
LEMMA AddCommandGood ==
    ASSUME NEW reg, Good(reg), NEW r \in Req, FindRequest(reg, r) # NoId
    PROVE  Good(AddCommand(reg, r))
<1> DEFINE c == [request |-> r, installation |-> NoId]
           new == [reg EXCEPT !.commands = @ \cup {c}]
<1>1. CASE HasCommand(reg, Name(r))
  BY <1>1 DEF AddCommand
<1>2. CASE ~ HasCommand(reg, Name(r))
  <2>1. AddCommand(reg, r) = new
    BY <1>2 DEF AddCommand
  <2>2. c \in CommandSelection /\ c.request = r /\ c.installation = NoId
    BY DEF CommandSelection
  <2>3. /\ new \in AppStatus
        /\ new.installations = reg.installations
        /\ new.selections = reg.selections
        /\ new.commands = reg.commands \cup {c}
    BY <2>2 DEF Good, AppStatus
  <2>4. SelectionsUnique(new) /\ SelectionsBound(new)
    BY <2>3 DEF Good, SelectionsUnique, Readable, SelectionsBound
  <2>5. CommandsUnique(new)
    BY <1>2, <2>2, <2>3 DEF Good, CommandsUnique, HasCommand
  <2>6. \A q : FindRequest(new, q) = FindRequest(reg, q)
    BY <2>3 DEF FindRequest, Saved, SelectionOf
  <2>7. \A d \in reg.commands : CommandInstallation(new, d) = CommandInstallation(reg, d)
    BY <2>3, <2>6 DEF CommandInstallation
  <2>8. CommandInstallation(new, c) = FindRequest(reg, r)
    BY <2>2, <2>6 DEF CommandInstallation
  <2>9. Name(App[FindRequest(reg, r)]) = Name(r)
    BY FindType DEF Good, Readable, Name
  <2>10. CommandsResolve(new)
    <3> HIDE DEF new, c
    <3> QED  BY <2>2, <2>3, <2>7, <2>8, <2>9 DEF CommandsResolve, Good, Readable
  <2> QED
    <3> HIDE DEF new, c
    <3> QED  BY <2>1, <2>3, <2>4, <2>5, <2>10 DEF Good, Readable
<1> QED  BY <1>1, <1>2

(* Binding a request to a release that was served for it.                  *)
LEMMA BindReleaseGood ==
    ASSUME ReleasesImmutable, NEW reg, Good(reg), NEW r \in Req,
           NEW i \in Served(r), NEW pin \in BOOLEAN
    PROVE  /\ Good(BindRelease(reg, r, i, pin))
           /\ reg.commands \subseteq BindRelease(reg, r, i, pin).commands
           /\ \A c \in reg.commands :
                ~ (c.installation = NoId /\ c.request = r) =>
                    CommandInstallation(BindRelease(reg, r, i, pin), c)
                        = CommandInstallation(reg, c)
<1> DEFINE pinned == pin \/ (Saved(reg, r) /\ SelectionOf(reg, r).pinned)
           b == [request |-> r, installation |-> i, pinned |-> pinned]
           kept == {s \in reg.selections : s.request # r}
           new == [reg EXCEPT !.installations = @ \cup {i},
                              !.selections = {s \in @ : s.request # r} \cup {b}]
<1>1. BindRelease(reg, r, i, pin) = AddCommand(new, r)
  BY DEF BindRelease
<1>2. pinned \in BOOLEAN /\ i \in Release
  BY DEF Served
<1>3. b \in Selection /\ b.request = r /\ b.installation = i
  BY <1>2 DEF Selection
<1>4. /\ new \in AppStatus
      /\ new.installations = reg.installations \cup {i}
      /\ new.selections = kept \cup {b}
      /\ new.commands = reg.commands
  BY <1>2, <1>3 DEF Good, AppStatus
<1>5. /\ Exact(r, App[i].version) = App[i]
      /\ App[i].line = r.line
  BY AppAssumption DEF Served, Exact
<1> HIDE DEF new, b, kept
<1>6. \A s \in kept : s \in reg.selections /\ s.request # r
  BY DEF kept
<1>7. SelectionsUnique(new)
  BY <1>3, <1>4, <1>6 DEF SelectionsUnique, Good
<1>8. SelectionsBound(new)
  BY <1>3, <1>4, <1>5, <1>6 DEF SelectionsBound, Good, Readable
<1>9. FindRequest(new, r) = i
  BY <1>3, <1>4, <1>7, FindSaved
<1>10. ASSUME NEW q \in Req, q # r, FindRequest(reg, q) # NoId
       PROVE  FindRequest(new, q) = FindRequest(reg, q)
  <2>1. CASE Saved(reg, q)
    <3>1. PICK s \in reg.selections : s.request = q
      BY <2>1 DEF Saved
    <3>2. s \in new.selections
      BY <1>4, <1>10, <3>1 DEF kept
    <3> QED  BY <3>1, <3>2, <1>7, FindSaved DEF Good
  <2>2. CASE ~ Saved(reg, q)
    <3>1. ~ Saved(new, q)
      BY <1>3, <1>4, <1>6, <1>10, <2>2 DEF Saved
    <3>2. FindRequest(reg, q) \in reg.installations /\ App[FindRequest(reg, q)] = q
      BY <2>2, <1>10, FoundExact
    <3> QED  BY <1>4, <3>1, <3>2, FindExact
  <2> QED  BY <2>1, <2>2
<1>11. ASSUME NEW c \in reg.commands, ~ (c.installation = NoId /\ c.request = r)
       PROVE  CommandInstallation(new, c) = CommandInstallation(reg, c)
  <2>1. c \in CommandSelection
    BY DEF Good, AppStatus
  <2>2. c.request \in Req
    BY <2>1 DEF CommandSelection
  <2>3. CommandInstallation(reg, c) # NoId
    BY DEF Good, Readable, CommandsResolve
  <2>4. CASE c.installation = NoId
    BY <1>10, <1>11, <2>2, <2>3, <2>4 DEF CommandInstallation
  <2>5. CASE c.installation # NoId
    BY <1>4, <2>3, <2>5 DEF CommandInstallation
  <2> QED  BY <2>4, <2>5
<1>12. CommandsResolve(new)
  <2> SUFFICES ASSUME NEW c \in reg.commands
               PROVE  /\ CommandInstallation(new, c) # NoId
                      /\ Name(App[CommandInstallation(new, c)]) = Name(c.request)
    BY <1>4 DEF CommandsResolve
  <2>1. CASE c.installation = NoId /\ c.request = r
    <3>1. CommandInstallation(new, c) = i
      BY <1>9, <2>1 DEF CommandInstallation
    <3> QED  BY <1>2, <1>5, <2>1, <3>1, AppAssumption DEF Name
  <2>2. CASE ~ (c.installation = NoId /\ c.request = r)
    BY <1>11, <2>2 DEF Good, Readable, CommandsResolve
  <2> QED  BY <2>1, <2>2
<1>13. Good(new)
  BY <1>4, <1>7, <1>8, <1>12 DEF Good, Readable, CommandsUnique
<1>14. Good(AddCommand(new, r))
  BY <1>2, <1>9, <1>13, AddCommandGood, AppAssumption
<1>15. /\ AddCommand(new, r).installations = new.installations
       /\ AddCommand(new, r).selections = new.selections
       /\ new.commands \subseteq AddCommand(new, r).commands
  BY <1>4 DEF AddCommand, AppStatus
<1>16. \A c : CommandInstallation(AddCommand(new, r), c) = CommandInstallation(new, c)
  BY <1>15 DEF CommandInstallation, FindRequest, Saved, SelectionOf
<1> QED  BY <1>1, <1>4, <1>11, <1>14, <1>15, <1>16

(* Pinning changes no query: set_pin() and a repeated install --pin.       *)
LEMMA SetPinnedGood ==
    ASSUME NEW reg, Good(reg), NEW r \in Req, NEW b \in BOOLEAN
    PROVE  /\ Good(SetPinned(reg, r, b))
           /\ \A q \in Req : FindRequest(SetPinned(reg, r, b), q) = FindRequest(reg, q)
<1> DEFINE Pin(s) == IF s.request = r THEN [s EXCEPT !.pinned = b] ELSE s
           new == SetPinned(reg, r, b)
<1>1. /\ new \in AppStatus
      /\ new.installations = reg.installations
      /\ new.selections = {Pin(s) : s \in reg.selections}
      /\ new.commands = reg.commands
  <2>1. \A s \in Selection : Pin(s) \in Selection
    BY DEF Selection
  <2> QED  BY <2>1 DEF SetPinned, Good, AppStatus
<1>2. \A s \in reg.selections : /\ Pin(s).request = s.request
                                /\ Pin(s).installation = s.installation
  BY DEF Good, AppStatus, Selection
<1> HIDE DEF new, Pin
<1>3. SelectionsUnique(new)
  BY <1>1, <1>2 DEF Good, SelectionsUnique
<1>4. SelectionsBound(new)
  BY <1>1, <1>2 DEF Good, Readable, SelectionsBound
<1>5. ASSUME NEW q \in Req  PROVE FindRequest(new, q) = FindRequest(reg, q)
  <2>1. CASE Saved(reg, q)
    <3>1. PICK s \in reg.selections : s.request = q
      BY <2>1 DEF Saved
    <3>2. FindRequest(reg, q) = s.installation
      BY <3>1, FindSaved DEF Good
    <3>3. Pin(s) \in new.selections /\ Pin(s).request = q /\ Pin(s).installation = s.installation
      BY <1>1, <1>2, <3>1
    <3> QED  BY <1>3, <3>2, <3>3, FindSaved
  <2>2. CASE ~ Saved(reg, q)
    <3>1. ~ Saved(new, q)
      BY <1>1, <1>2, <2>2 DEF Saved
    <3> QED  BY <1>1, <2>2, <3>1 DEF FindRequest
  <2> QED  BY <2>1, <2>2
<1>6. CommandsResolve(new)
  <2>1. \A c \in reg.commands : c.request \in Req
    BY DEF Good, AppStatus, CommandSelection
  <2>2. \A c \in reg.commands : CommandInstallation(new, c) = CommandInstallation(reg, c)
    BY <1>1, <1>5, <2>1 DEF CommandInstallation
  <2> QED  BY <1>1, <2>2 DEF Good, Readable, CommandsResolve
<1>7. Good(new)
  BY <1>1, <1>3, <1>4, <1>6 DEF Good, Readable, CommandsUnique
<1> QED  BY <1>5, <1>7 DEF new

(* Dropping commands keeps a registry good.                                *)
LEMMA FewerCommandsGood ==
    ASSUME NEW reg, Good(reg), NEW C \in SUBSET reg.commands
    PROVE  /\ Good([reg EXCEPT !.commands = C])
           /\ \A q : FindRequest([reg EXCEPT !.commands = C], q) = FindRequest(reg, q)
<1> DEFINE new == [reg EXCEPT !.commands = C]
<1>1. /\ new \in AppStatus
      /\ new.installations = reg.installations
      /\ new.selections = reg.selections
      /\ new.commands = C
  BY DEF Good, AppStatus
<1> HIDE DEF new
<1>2. \A q : FindRequest(new, q) = FindRequest(reg, q)
  BY <1>1 DEF FindRequest, Saved, SelectionOf
<1>3. \A c : CommandInstallation(new, c) = CommandInstallation(reg, c)
  BY <1>1, <1>2 DEF CommandInstallation
<1>4. CommandsResolve(new) /\ CommandsUnique(new)
  BY <1>1, <1>3 DEF Good, Readable, CommandsResolve, CommandsUnique
<1>5. SelectionsBound(new) /\ SelectionsUnique(new)
  BY <1>1 DEF Good, Readable, SelectionsBound, SelectionsUnique
<1>6. Good(new)
  BY <1>1, <1>4, <1>5 DEF Good, Readable
<1> QED  BY <1>2, <1>6 DEF new

(* default: the new selection resolves because its target does.            *)
LEMMA SelectCommandGood ==
    ASSUME NEW reg, Good(reg), NEW t \in Target, Resolve(reg, t) # NoId
    PROVE  Good(SelectCommand(reg, t))
<1> DEFINE r == IF t \in Req THEN t ELSE App[t]
           c == [request |-> r, installation |-> IF t \in Req THEN NoId ELSE t]
           C == {d \in reg.commands : Name(d.request) # Name(r)}
           mid == [reg EXCEPT !.commands = C]
           new == SelectCommand(reg, t)
<1>1. r \in Req /\ c \in CommandSelection /\ c.request = r
  BY AppAssumption DEF Target, CommandSelection
<1>2. Good(mid) /\ \A q : FindRequest(mid, q) = FindRequest(reg, q)
  BY FewerCommandsGood
<1>3. /\ new \in AppStatus
      /\ new.installations = reg.installations
      /\ new.selections = reg.selections
      /\ new.commands = C \cup {c}
  <2>1. new = [mid EXCEPT !.commands = @ \cup {c}]
    BY DEF SelectCommand, DropCommand
  <2>2. /\ mid \in AppStatus
        /\ mid.installations = reg.installations
        /\ mid.selections = reg.selections
        /\ mid.commands = C
    BY DEF AppStatus, Good
  <2> HIDE DEF mid, new, c, C
  <2> QED  BY <1>1, <2>1, <2>2 DEF AppStatus
<1>4. \A q : FindRequest(new, q) = FindRequest(reg, q)
  <2> HIDE DEF new, c, C
  <2> QED  BY <1>3 DEF FindRequest, Saved, SelectionOf
<1>5. \A d : CommandInstallation(new, d) = CommandInstallation(reg, d)
  <2> HIDE DEF new, c, C
  <2> QED  BY <1>3, <1>4 DEF CommandInstallation
<1>6. CommandInstallation(reg, c) # NoId /\ Name(App[CommandInstallation(reg, c)]) = Name(r)
  <2>1. CASE t \in Req
    <3>1. CommandInstallation(reg, c) = FindRequest(reg, t) /\ r = t
      BY <2>1 DEF CommandInstallation
    <3>2. FindRequest(reg, t) # NoId
      BY <2>1 DEF Resolve
    <3>3. Name(App[FindRequest(reg, t)]) = Name(t)
      BY <2>1, <3>2, FindType DEF Name, Good, Readable
    <3> HIDE DEF c, r
    <3> QED  BY <3>1, <3>2, <3>3
  <2>2. CASE t \notin Req
    <3>1. t \in reg.installations /\ t # NoId
      BY <2>2 DEF Resolve
    <3>2. c.installation = t /\ r = App[t]
      BY <2>2
    <3>3. CommandInstallation(reg, c) = t
      BY <3>1, <3>2 DEF CommandInstallation
    <3> HIDE DEF c, r
    <3> QED  BY <3>1, <3>2, <3>3
  <2> QED  BY <2>1, <2>2
<1>7. CommandsUnique(new)
  <2> HIDE DEF new, c
  <2> QED  BY <1>1, <1>3 DEF CommandsUnique, Good
<1>8. CommandsResolve(new)
  <2> HIDE DEF new, c, r
  <2> QED  BY <1>1, <1>3, <1>5, <1>6 DEF CommandsResolve, Good, Readable
<1>9. SelectionsBound(new) /\ SelectionsUnique(new)
  <2> HIDE DEF new, c, C
  <2> QED  BY <1>3 DEF SelectionsBound, SelectionsUnique, Good, Readable
<1> QED  BY <1>3, <1>7, <1>8, <1>9 DEF Good, Readable

(* uninstall: every command that is kept resolves to the release it had.   *)
LEMMA ForgetGood ==
    ASSUME NEW reg, Good(reg), NEW i \in Release
    PROVE  /\ Good(Forget(reg, i))
           /\ \A c \in Forget(reg, i).commands :
                /\ c \in reg.commands
                /\ CommandInstallation(Forget(reg, i), c) = CommandInstallation(reg, c)
<1> DEFINE new == Forget(reg, i)
<1>1. /\ new \in AppStatus
      /\ new.installations = reg.installations \ {i}
      /\ new.selections = {s \in reg.selections : s.installation # i}
      /\ new.commands = {c \in reg.commands : CommandInstallation(reg, c) # i}
  BY DEF Forget, Good, AppStatus
<1> HIDE DEF new
<1>2. SelectionsUnique(new) /\ CommandsUnique(new) /\ SelectionsBound(new)
  BY <1>1 DEF Good, Readable, SelectionsUnique, CommandsUnique, SelectionsBound
<1>3. ASSUME NEW q \in Req, FindRequest(reg, q) # NoId, FindRequest(reg, q) # i
      PROVE  FindRequest(new, q) = FindRequest(reg, q)
  <2>1. CASE Saved(reg, q)
    <3>1. PICK s \in reg.selections : s.request = q
      BY <2>1 DEF Saved
    <3>2. FindRequest(reg, q) = s.installation
      BY <3>1, FindSaved DEF Good
    <3>3. s \in new.selections
      BY <1>1, <1>3, <3>1, <3>2
    <3> QED  BY <1>2, <3>1, <3>2, <3>3, FindSaved
  <2>2. CASE ~ Saved(reg, q)
    <3> DEFINE found == {j \in reg.installations : App[j] = q}
               left == {j \in new.installations : App[j] = q}
    <3>1. ~ Saved(new, q)
      BY <1>1, <2>2 DEF Saved
    <3>2. PICK j \in found : found = {j}
      BY <1>3, <2>2 DEF FindRequest
    <3>3. FindRequest(reg, q) = j
      BY <2>2, <3>2 DEF FindRequest
    <3>4. left = {j}
      BY <1>1, <1>3, <3>2, <3>3
    <3> QED  BY <3>1, <3>3, <3>4 DEF FindRequest
  <2> QED  BY <2>1, <2>2
<1>4. ASSUME NEW c \in new.commands
      PROVE  /\ c \in reg.commands
             /\ CommandInstallation(new, c) = CommandInstallation(reg, c)
  <2>1. /\ c \in reg.commands
        /\ CommandInstallation(reg, c) # i
        /\ CommandInstallation(reg, c) # NoId
    BY <1>1 DEF Good, Readable, CommandsResolve
  <2>2. c.request \in Req
    BY <2>1 DEF Good, AppStatus, CommandSelection
  <2>3. CASE c.installation = NoId
    BY <1>3, <2>1, <2>2, <2>3 DEF CommandInstallation
  <2>4. CASE c.installation # NoId
    BY <1>1, <2>1, <2>4 DEF CommandInstallation
  <2> QED  BY <2>1, <2>3, <2>4
<1>5. CommandsResolve(new)
  BY <1>4 DEF CommandsResolve, Good, Readable
<1>6. Good(new)
  BY <1>1, <1>2, <1>5 DEF Good, Readable
<1> QED  BY <1>4, <1>6 DEF new

-----------------------------------------------------------------------------
(* The registry before the first command.                                  *)
LEMMA EmptyGood == Good(EmptyStatus)
BY DEF EmptyStatus, Good, AppStatus, SelectionsUnique, CommandsUnique, Readable,
       SelectionsBound, CommandsResolve

(* A target names an installed release or nothing.                         *)
LEMMA TargetType ==
    ASSUME NEW reg \in AppStatus, SelectionsBound(reg), NEW t \in Target
    PROVE  /\ Resolve(reg, t) # NoId => Resolve(reg, t) \in reg.installations
           /\ UninstallTarget(reg, t) # NoId =>
                UninstallTarget(reg, t) \in reg.installations
BY FindType DEF Resolve, UninstallTarget

(* Every command of AppManager takes a good registry to a good one.        *)
LEMMA ChangeGood ==
    ASSUME ReleasesImmutable, NEW old, NEW new, Good(old), Change(old, new)
    PROVE  Good(new)
<1>1. CASE Binding(old, new)
  BY <1>1, BindReleaseGood DEF Binding
<1>2. ASSUME NEW r \in Req, NEW b \in BOOLEAN, FindRequest(old, r) # NoId,
             new = Reselect(old, r, b)
      PROVE  Good(new)
  <2>1. CASE b
    <3>1. Good(SetPinned(old, r, TRUE)) /\ FindRequest(SetPinned(old, r, TRUE), r) # NoId
      BY <1>2, SetPinnedGood
    <3>2. new = AddCommand(SetPinned(old, r, TRUE), r)
      BY <1>2, <2>1 DEF Reselect
    <3> QED  BY <3>1, <3>2, AddCommandGood
  <2>2. CASE ~ b
    BY <1>2, <2>2, AddCommandGood DEF Reselect
  <2> QED  BY <2>1, <2>2
<1>3. ASSUME NEW r \in Req, NEW b \in BOOLEAN, new = SetPinned(old, r, b)
      PROVE  Good(new)
  BY <1>3, SetPinnedGood
<1>4. ASSUME NEW t \in Target, Resolve(old, t) # NoId, new = SelectCommand(old, t)
      PROVE  Good(new)
  BY <1>4, SelectCommandGood
<1>5. ASSUME NEW name, new = DropCommand(old, name)  PROVE Good(new)
  BY <1>5, FewerCommandsGood DEF DropCommand
<1>6. ASSUME NEW t \in Target, UninstallTarget(old, t) # NoId,
             new = Forget(old, UninstallTarget(old, t))
      PROVE  Good(new)
  <2>1. UninstallTarget(old, t) \in Release
    BY <1>6, TargetType DEF Good, Readable, AppStatus
  <2> QED  BY <1>6, <2>1, ForgetGood
<1> QED  BY <1>1, <1>2, <1>3, <1>4, <1>5, <1>6 DEF Change, Edit

-----------------------------------------------------------------------------
(* What holds even if repositories change what they serve.                 *)

(* A command that is added had no owner before.                            *)
LEMMA AddCommandSound ==
    ASSUME NEW reg, Sound(reg), NEW r \in Req
    PROVE  /\ Sound(AddCommand(reg, r))
           /\ AddCommand(reg, r).installations = reg.installations
           /\ AddCommand(reg, r).selections = reg.selections
           /\ OwnersKept(reg, AddCommand(reg, r))
<1> DEFINE c == [request |-> r, installation |-> NoId]
           new == [reg EXCEPT !.commands = @ \cup {c}]
<1>1. CASE HasCommand(reg, Name(r))
  <2>1. OwnersKept(reg, reg)
    BY DEF Sound, CommandsUnique, OwnersKept, SameProduct
  <2> QED  BY <1>1, <2>1 DEF AddCommand
<1>2. CASE ~ HasCommand(reg, Name(r))
  <2>1. AddCommand(reg, r) = new
    BY <1>2 DEF AddCommand
  <2>2. c \in CommandSelection /\ c.request = r
    BY DEF CommandSelection
  <2>3. /\ new \in AppStatus
        /\ new.installations = reg.installations
        /\ new.selections = reg.selections
        /\ new.commands = reg.commands \cup {c}
    BY <2>2 DEF Sound, AppStatus
  <2> HIDE DEF new, c
  <2>4. SelectionsUnique(new) /\ SelectionsBound(new)
    BY <2>3 DEF Sound, SelectionsUnique, SelectionsBound
  <2>5. CommandsUnique(new) /\ OwnersKept(reg, new)
    BY <1>2, <2>2, <2>3 DEF Sound, CommandsUnique, OwnersKept, SameProduct, HasCommand
  <2> QED  BY <2>1, <2>3, <2>4, <2>5 DEF Sound
<1> QED  BY <1>1, <1>2

(* install moves the request it was given, which keeps its pin.            *)
LEMMA BindReleaseSound ==
    ASSUME NEW reg, Sound(reg), NEW r \in Req, NEW i \in Served(r), NEW pin \in BOOLEAN
    PROVE  LET new == BindRelease(reg, r, i, pin)
           IN  /\ Sound(new)
               /\ new.installations = reg.installations \cup {i}
               /\ OwnersKept(reg, new)
               /\ \A s \in reg.selections, t \in new.selections :
                    s.request = t.request =>
                        \/ s.installation = t.installation
                        \/ s.request = r /\ (s.pinned => t.pinned)
<1> DEFINE pinned == pin \/ (Saved(reg, r) /\ SelectionOf(reg, r).pinned)
           b == [request |-> r, installation |-> i, pinned |-> pinned]
           kept == {s \in reg.selections : s.request # r}
           mid == [reg EXCEPT !.installations = @ \cup {i},
                              !.selections = {s \in @ : s.request # r} \cup {b}]
           new == BindRelease(reg, r, i, pin)
<1>1. new = AddCommand(mid, r)
  BY DEF BindRelease
<1>2. pinned \in BOOLEAN /\ i \in Release
  BY DEF Served
<1>3. b \in Selection /\ b.request = r /\ b.installation = i /\ b.pinned = pinned
  BY <1>2 DEF Selection
<1>4. /\ mid \in AppStatus
      /\ mid.installations = reg.installations \cup {i}
      /\ mid.selections = kept \cup {b}
      /\ mid.commands = reg.commands
  BY <1>2, <1>3 DEF Sound, AppStatus
<1>5. Exact(r, App[i].version) = App[i]
  BY AppAssumption DEF Served, Exact
<1>6. \A s \in reg.selections : s.request = r => (s.pinned => pinned)
  BY FindSaved DEF Sound, Saved
<1> HIDE DEF new, mid, b, pinned
<1>7. Sound(mid)
  BY <1>3, <1>4, <1>5 DEF Sound, SelectionsUnique, SelectionsBound, CommandsUnique
<1>8. /\ Sound(new) /\ new.installations = mid.installations
      /\ new.selections = mid.selections /\ OwnersKept(mid, new)
  BY <1>1, <1>7, AddCommandSound
<1>9. OwnersKept(reg, new)
  BY <1>4, <1>8 DEF OwnersKept
<1>10. \A s \in reg.selections, t \in new.selections :
          s.request = t.request =>
              \/ s.installation = t.installation
              \/ s.request = r /\ (s.pinned => t.pinned)
  BY <1>3, <1>4, <1>6, <1>8 DEF Sound, SelectionsUnique
<1> QED  BY <1>4, <1>8, <1>9, <1>10 DEF new

(* Pinning moves no binding and no command.                                *)
LEMMA SetPinnedSound ==
    ASSUME NEW reg, Sound(reg), NEW r \in Req, NEW b \in BOOLEAN
    PROVE  /\ Sound(SetPinned(reg, r, b))
           /\ SetPinned(reg, r, b).installations = reg.installations
           /\ SetPinned(reg, r, b).commands = reg.commands
           /\ BindingsKept(reg, SetPinned(reg, r, b))
<1> DEFINE Pin(s) == IF s.request = r THEN [s EXCEPT !.pinned = b] ELSE s
           new == SetPinned(reg, r, b)
<1>1. /\ new \in AppStatus
      /\ new.installations = reg.installations
      /\ new.selections = {Pin(s) : s \in reg.selections}
      /\ new.commands = reg.commands
  <2>1. \A s \in Selection : Pin(s) \in Selection
    BY DEF Selection
  <2> QED  BY <2>1 DEF SetPinned, Sound, AppStatus
<1>2. \A s \in reg.selections : /\ Pin(s).request = s.request
                                /\ Pin(s).installation = s.installation
  BY DEF Sound, AppStatus, Selection
<1> HIDE DEF new, Pin
<1>3. SelectionsUnique(new) /\ BindingsKept(reg, new)
  BY <1>1, <1>2 DEF Sound, SelectionsUnique, BindingsKept
<1>4. SelectionsBound(new) /\ CommandsUnique(new)
  BY <1>1, <1>2 DEF Sound, SelectionsBound, CommandsUnique
<1> QED  BY <1>1, <1>3, <1>4 DEF new, Sound

(* So does dropping commands; default may then give the name to a request  *)
(* of the product that had it.                                             *)
LEMMA SelectCommandSound ==
    ASSUME NEW reg, Sound(reg), NEW t \in Target,
           OwnsCommand(reg, IF t \in Req THEN t ELSE App[t])
    PROVE  /\ Sound(SelectCommand(reg, t))
           /\ SelectCommand(reg, t).installations = reg.installations
           /\ BindingsKept(reg, SelectCommand(reg, t))
           /\ OwnersKept(reg, SelectCommand(reg, t))
<1> DEFINE r == IF t \in Req THEN t ELSE App[t]
           c == [request |-> r, installation |-> IF t \in Req THEN NoId ELSE t]
           C == {d \in reg.commands : Name(d.request) # Name(r)}
           new == SelectCommand(reg, t)
<1>1. r \in Req /\ c \in CommandSelection /\ c.request = r
  BY AppAssumption DEF Target, CommandSelection
<1>2. /\ new \in AppStatus
      /\ new.installations = reg.installations
      /\ new.selections = reg.selections
      /\ new.commands = C \cup {c}
  <2> DEFINE mid == DropCommand(reg, Name(r))
  <2>1. new = [mid EXCEPT !.commands = @ \cup {c}]
    BY DEF SelectCommand
  <2>2. /\ mid \in AppStatus
        /\ mid.installations = reg.installations
        /\ mid.selections = reg.selections
        /\ mid.commands = C
    BY DEF DropCommand, AppStatus, Sound
  <2> HIDE DEF mid, new, c, C
  <2> QED  BY <1>1, <2>1, <2>2 DEF AppStatus
<1>3. OwnsCommand(reg, r)
  OBVIOUS
<1> HIDE DEF new, c, r
<1>4. SelectionsUnique(new) /\ SelectionsBound(new) /\ BindingsKept(reg, new)
  BY <1>2 DEF Sound, SelectionsUnique, SelectionsBound, BindingsKept
<1>5. CommandsUnique(new) /\ OwnersKept(reg, new)
  BY <1>1, <1>2, <1>3 DEF Sound, CommandsUnique, OwnersKept, OwnsCommand, SameProduct
<1> QED  BY <1>2, <1>4, <1>5 DEF new, Sound

(* Taking entries away.                                                    *)
LEMMA FewerSound ==
    ASSUME NEW reg, Sound(reg), NEW new \in AppStatus,
           new.installations \subseteq reg.installations,
           new.selections \subseteq reg.selections,
           new.commands \subseteq reg.commands,
           \A s \in new.selections : s.installation \in new.installations
    PROVE  Sound(new) /\ BindingsKept(reg, new) /\ OwnersKept(reg, new)
<1>1. SelectionsUnique(new) /\ SelectionsBound(new) /\ CommandsUnique(new)
  BY DEF Sound, SelectionsUnique, SelectionsBound, CommandsUnique
<1>2. BindingsKept(reg, new) /\ OwnersKept(reg, new)
  BY DEF Sound, SelectionsUnique, CommandsUnique, BindingsKept, OwnersKept, SameProduct
<1> QED  BY <1>1, <1>2 DEF Sound

(* Everything but an install keeps bindings, owners and installations.     *)
LEMMA EditSound ==
    ASSUME NEW old, NEW new, Sound(old), Edit(old, new)
    PROVE  /\ Sound(new)
           /\ new.installations \subseteq old.installations
           /\ BindingsKept(old, new)
           /\ OwnersKept(old, new)
<1> DEFINE Kept == /\ Sound(new)
                   /\ new.installations \subseteq old.installations
                   /\ BindingsKept(old, new)
                   /\ OwnersKept(old, new)
<1>t. old \in AppStatus /\ SelectionsBound(old)
  BY DEF Sound
<1>s. BindingsKept(old, old) /\ OwnersKept(old, old)
  BY DEF Sound, SelectionsUnique, CommandsUnique, BindingsKept, OwnersKept, SameProduct
<1>1. ASSUME NEW r \in Req, NEW b \in BOOLEAN, new = SetPinned(old, r, b)  PROVE Kept
  BY <1>1, <1>s, SetPinnedSound DEF OwnersKept
<1>2. ASSUME NEW r \in Req, NEW b \in BOOLEAN, new = Reselect(old, r, b)  PROVE Kept
  <2> DEFINE mid == IF b THEN SetPinned(old, r, TRUE) ELSE old
  <2>1. /\ Sound(mid) /\ mid.installations = old.installations
        /\ mid.commands = old.commands /\ BindingsKept(old, mid)
    BY <1>s, SetPinnedSound
  <2>2. new = AddCommand(mid, r)
    BY <1>2 DEF Reselect
  <2> HIDE DEF mid
  <2>3. /\ Sound(new) /\ new.installations = mid.installations
        /\ new.selections = mid.selections /\ OwnersKept(mid, new)
    BY <2>1, <2>2, AddCommandSound
  <2> QED  BY <2>1, <2>3 DEF BindingsKept, OwnersKept
<1>3. ASSUME NEW t \in Target, OwnsCommand(old, IF t \in Req THEN t ELSE App[t]),
             new = SelectCommand(old, t)
      PROVE  Kept
  BY <1>3, SelectCommandSound
<1>4. ASSUME NEW name, new = DropCommand(old, name)  PROVE Kept
  <2>1. /\ new \in AppStatus /\ new.installations = old.installations
        /\ new.selections = old.selections /\ new.commands \subseteq old.commands
    BY <1>4, <1>t DEF DropCommand, AppStatus
  <2> QED  BY <1>t, <2>1, FewerSound DEF SelectionsBound
<1>5. ASSUME NEW i, new = Forget(old, i)  PROVE Kept
  <2>1. /\ new \in AppStatus /\ new.installations = old.installations \ {i}
        /\ new.selections = {s \in old.selections : s.installation # i}
        /\ new.commands \subseteq old.commands
    BY <1>5, <1>t DEF Forget, AppStatus
  <2> QED  BY <1>t, <2>1, FewerSound DEF SelectionsBound
<1> QED  BY <1>1, <1>2, <1>3, <1>4, <1>5 DEF Edit
=============================================================================
