---------------------------- MODULE SettingsPages ----------------------------
(* The settings of one process: Load (backend/internal/config), getSettings  *)
(* and putSettings (backend/internal/api/handler.go), and the browser tabs   *)
(* that show and change them.  Each tab holds two copies of all settings:    *)
(* the shell's, for the theme switch of the header (frontend App.tsx), and   *)
(* that of the form while the settings page is open (SettingsPage.tsx).      *)
(* Whichever is changed, the whole copy is sent.                             *)
(*                                                                           *)
(* The handlers take no lock.  An assignment is a step in which it begins    *)
(* and one in which it ends; what overlaps it reads or leaves, field by      *)
(* field, any of the values involved.                                        *)
EXTENDS Naturals, FiniteSets

CONSTANTS Tabs, Namespaces,
          Unset, Junk, Blank,  \* no variable, one that does not parse, an empty item
          SystemNamespaces,    \* what the default excludes
          Environments,        \* the variables the process may be started with
          Edits,               \* [field, value]: what users enter into the form
          None,
          MaxPending,          \* bound: requests under way at once
          MaxRequests,         \* bound: requests
          MaxFaults            \* bound: requests that fail

Themes == {"system", "light", "dark"}
Settings == [included : SUBSET Namespaces, excluded : SUBSET Namespaces,
             completed : BOOLEAN, internal : BOOLEAN, theme : Themes]
Fields == {"included", "excluded", "completed", "internal", "theme"}
Copies == Tabs \X {"shell", "form"}
Shell(t) == <<t, "shell">>
Form(t) == <<t, "form">>

VARIABLES settings, scanOpts,  \* of the handler
          req,     \* of each copy: the request it waits for
          copy,    \* the copies, None while there is none
          open,    \* the tabs that show the settings page
          edited,  \* of each tab: fields changed in the form and not saved
          intent,  \* what users have set, one after another
          unsure,  \* <<field, value>> set by a PUT whose answer was lost
          stale,   \* copies that another tab's PUT has overtaken
          blind,   \* a PUT was sent from such a copy, or while others were under way
          mixed,   \* the last PUT to end overlapped another
          requests, faults

server == <<settings, scanOpts, mixed>>
pages == <<copy, open, edited>>
history == <<intent, unsure, stale, blind>>
vars == <<server, req, pages, history, requests, faults>>

-----------------------------------------------------------------------------
(* The start of the process.                                                *)

DefaultSettings ==
  [included |-> {}, excluded |-> SystemNamespaces,
   completed |-> FALSE, internal |-> FALSE, theme |-> "system"]

SplitCSV(items) == items \ {Blank}
EnvBool(v, fallback) == IF v \in BOOLEAN THEN v ELSE fallback

Load(env) ==
  [included  |-> IF env.included = Unset THEN DefaultSettings.included ELSE SplitCSV(env.included),
   excluded  |-> IF env.excluded = Unset THEN DefaultSettings.excluded ELSE SplitCSV(env.excluded),
   completed |-> EnvBool(env.completed, FALSE),
   internal  |-> EnvBool(env.internal, FALSE),
   theme     |-> IF env.theme = Unset THEN DefaultSettings.theme ELSE env.theme]

ASSUME EnvironmentAssumption == \A env \in Environments : Load(env) \in Settings
ASSUME EditsAssumption ==
  \A e \in Edits : /\ e.field \in Fields
                   /\ \A s \in Settings : [s EXCEPT ![e.field] = e.value] \in Settings
ASSUME BoundAssumption == {MaxPending, MaxRequests, MaxFaults} \subseteq Nat
ASSUME NoneAssumption == None \notin Settings

ScanOptions == [included : SUBSET Namespaces, excluded : SUBSET Namespaces,
                skipCompleted : BOOLEAN, excludeInternal : BOOLEAN]

ScanOptionsFromSettings(s) ==
  [included |-> s.included, excluded |-> s.excluded,
   skipCompleted |-> ~s.completed, excludeInternal |-> s.internal]

NoRequest == [at |-> "idle", body |-> None, claims |-> {}, answer |-> None,
              alone |-> TRUE, raced |-> FALSE]
Positions == {"idle", "get", "loaded", "put", "assign", "derive", "encode", "saved"}

TypeOK ==
  /\ settings \in Settings /\ scanOpts \in ScanOptions
  /\ req \in [Copies -> [at : Positions, body : Settings \cup {None}, claims : SUBSET Fields,
                         answer : Settings \cup {None}, alone : BOOLEAN, raced : BOOLEAN]]
  /\ copy \in [Copies -> Settings \cup {None}]
  /\ open \subseteq Tabs
  /\ \A t \in Tabs : t \notin open => copy[Form(t)] = None /\ edited[t] = {}
  /\ edited \in [Tabs -> SUBSET Fields]
  /\ intent \in Settings
  /\ \A u \in unsure : [intent EXCEPT ![u[1]] = u[2]] \in Settings
  /\ stale \subseteq Copies
  /\ blind \in BOOLEAN /\ mixed \in BOOLEAN
  /\ requests \in 0..MaxRequests /\ faults \in 0..MaxFaults

Init ==
  /\ \E env \in Environments : settings = Load(env)
  /\ scanOpts = ScanOptionsFromSettings(settings)
  /\ req = [c \in Copies |-> NoRequest]
  /\ copy = [c \in Copies |-> None]
  /\ open = {}
  /\ edited = [t \in Tabs |-> {}]
  /\ intent = settings
  /\ unsure = {} /\ stale = {} /\ blind = FALSE /\ mixed = FALSE
  /\ requests = 0 /\ faults = 0

-----------------------------------------------------------------------------
(* The tabs.  Bound: a copy waits for one request at a time.                *)

At(c, p) == req[c].at = p
Putting(c) == req[c].at \in {"put", "assign", "derive", "encode", "saved"}
Others(c) == Copies \ {c}
Siblings(c) == {d \in Others(c) : d[1] = c[1]}
Sends(c) ==
  /\ At(c, "idle") /\ Cardinality({d \in Copies : ~At(d, "idle")}) < MaxPending
  /\ requests < MaxRequests
  /\ requests' = requests + 1

Get(c) ==
  /\ Sends(c)
  /\ req' = [req EXCEPT ![c].at = "get"]
  /\ blind' = (blind \/ \E d \in Siblings(c) : Putting(d))
  /\ UNCHANGED <<server, intent, unsure, stale, faults>>

(* When the tab is opened, and whenever the system's color scheme changes.  *)
LoadShell(t) == Get(Shell(t)) /\ UNCHANGED pages

OpenPage(t) ==
  /\ t \notin open
  /\ Get(Form(t))
  /\ open' = open \cup {t}
  /\ UNCHANGED <<copy, edited>>

ClosePage(t) ==
  /\ t \in open
  /\ open' = open \ {t}
  /\ copy' = [copy EXCEPT ![Form(t)] = None]
  /\ edited' = [edited EXCEPT ![t] = {}]
  /\ UNCHANGED <<server, req, history, requests, faults>>

Edit(t, e) ==
  /\ copy[Form(t)] # None
  /\ copy' = [copy EXCEPT ![Form(t)][e.field] = e.value]
  /\ edited' = [edited EXCEPT ![t] = @ \cup {e.field}]
  /\ UNCHANGED <<server, req, open, history, requests, faults>>

(* A copy is sent, with its claimed fields as the user wants them.          *)
Put(c, value, claims) ==
  /\ Sends(c)
  /\ req' = [req EXCEPT ![c] = [NoRequest EXCEPT !.at = "put", !.body = value, !.claims = claims]]
  /\ blind' = (\/ blind \/ c \in stale
               \/ \E d \in Others(c) : Putting(d)
               \/ \E d \in Siblings(c) : ~At(d, "idle"))
  /\ UNCHANGED <<server, pages, intent, unsure, stale, faults>>

HandleSave(t) ==
  /\ copy[Form(t)] # None
  /\ Put(Form(t), copy[Form(t)], edited[t])

(* To light or dark, by which of the two is shown.                          *)
ToggleTheme(t) ==
  /\ copy[Shell(t)] # None
  /\ \E theme \in {"light", "dark"} :
       Put(Shell(t), [copy[Shell(t)] EXCEPT !.theme = theme], {"theme"})

(* The answer to a GET replaces the one copy that asked.                    *)
Loaded(c) ==
  /\ At(c, "loaded")
  /\ IF c[2] = "form" /\ c[1] \notin open THEN UNCHANGED <<copy, edited>>
     ELSE /\ copy' = [copy EXCEPT ![c] = req[c].answer]
          /\ edited' = [edited EXCEPT ![c[1]] = IF c[2] = "form" THEN {} ELSE @]
  /\ req' = [req EXCEPT ![c] = NoRequest]
  /\ stale' = IF req[c].alone THEN stale \ {c} ELSE stale
  /\ UNCHANGED <<server, open, intent, unsure, blind, requests, faults>>

(* Mutant: the copy that was saved is replaced, and no event is dispatched. *)
SettingsSavedUnannounced(c) ==
  /\ copy' = [copy EXCEPT ![c] = IF c[2] = "form" /\ c[1] \notin open THEN @ ELSE req[c].answer]
  /\ edited' = [edited EXCEPT ![c[1]] = IF c[2] = "form" THEN {} ELSE @]

(* Mutant: the settings page goes on listening after it is left.            *)
SettingsSavedUnmounted(c) ==
  /\ copy' = [d \in Copies |-> IF d[1] = c[1] THEN req[c].answer ELSE copy[d]]
  /\ edited' = [edited EXCEPT ![c[1]] = {}]

(* That to a PUT replaces, by SETTINGS_SAVED_EVENT, both copies of the tab, *)
(* and what was edited in the form meanwhile.                               *)
SettingsSaved(c) ==
  /\ copy' = [d \in Copies |-> IF d[1] = c[1] /\ (d[2] = "shell" \/ c[1] \in open)
                                 THEN req[c].answer ELSE copy[d]]
  /\ edited' = [edited EXCEPT ![c[1]] = {}]

Saved(c) ==
  /\ At(c, "saved")
  /\ SettingsSaved(c)
  /\ req' = [req EXCEPT ![c] = NoRequest]
  /\ intent' = [f \in Fields |-> IF f \in req[c].claims THEN req[c].body[f] ELSE intent[f]]
  /\ unsure' = {u \in unsure : u[1] \notin req[c].claims}
  /\ stale' = LET mine == {c} \cup Siblings(c)
              IN IF req[c].alone THEN stale \ mine ELSE stale \cup mine
  /\ UNCHANGED <<server, open, blind, requests, faults>>

-----------------------------------------------------------------------------
(* The handlers.                                                            *)

Mixtures(vs) ==
  [included : {v.included : v \in vs}, excluded : {v.excluded : v \in vs},
   completed : {v.completed : v \in vs}, internal : {v.internal : v \in vs},
   theme : {v.theme : v \in vs}]
OptionMixtures(os) ==
  [included : {o.included : o \in os}, excluded : {o.excluded : o \in os},
   skipCompleted : {o.skipCompleted : o \in os}, excludeInternal : {o.excludeInternal : o \in os}]

Bodies(p, cs) == {req[c].body : c \in {d \in cs : At(d, p)}}
Readable == Mixtures({settings} \cup Bodies("assign", Copies))

GetSettings(c) ==
  /\ At(c, "get")
  /\ \E answer \in Readable :
       req' = [req EXCEPT ![c].at = "loaded", ![c].answer = answer,
                          ![c].alone = Bodies("assign", Copies) = {}]
  /\ UNCHANGED <<server, pages, history, requests, faults>>

(* putSettings has decoded the body and begins to assign it.                *)
PutSettings(c) ==
  /\ At(c, "put")
  /\ LET busy(d) == req[d].at \in {"assign", "derive"}
         answered(d) == req[d].at \in {"loaded", "encode", "saved"}
     IN req' = [d \in Copies |->
          IF d = c THEN [req[c] EXCEPT !.at = "assign", !.alone = \A b \in Copies : ~busy(b)]
          ELSE IF busy(d) \/ answered(d) THEN [req[d] EXCEPT !.alone = FALSE] ELSE req[d]]
  /\ stale' = stale \cup {d \in Copies : d[1] # c[1]}
  /\ UNCHANGED <<server, pages, intent, unsure, blind, requests, faults>>

(* When the assignment of c at p ends: what is being written there, and     *)
(* what was, if another one has ended since this one began.                 *)
Written(c, p) == {req[c].body} \cup Bodies(p, Others(c))
Before(c, old) == IF req[c].raced THEN {old} ELSE {}

Advance(c, p, q) ==
  req' = [d \in Copies |-> IF d = c THEN [req[c] EXCEPT !.at = q, !.raced = FALSE]
                           ELSE IF At(d, p) THEN [req[d] EXCEPT !.raced = TRUE] ELSE req[d]]

(* *h.settings = next                                                       *)
Assigned(c) ==
  /\ At(c, "assign")
  /\ settings' \in Mixtures(Written(c, "assign") \cup Before(c, settings))
  /\ Advance(c, "assign", "derive")
  /\ UNCHANGED <<scanOpts, mixed, pages, history, requests, faults>>

(* Mutant: an empty list of namespaces leaves the one before it in place.   *)
DerivedMerged(c) ==
  /\ At(c, "derive")
  /\ scanOpts' \in OptionMixtures(
       {[ScanOptionsFromSettings(b) EXCEPT
           !.included = IF b.included = {} THEN scanOpts.included ELSE b.included] :
         b \in Written(c, "derive")} \cup Before(c, scanOpts))
  /\ Advance(c, "derive", "encode")
  /\ mixed' = ~req[c].alone
  /\ UNCHANGED <<settings, pages, history, requests, faults>>

(* h.scanOpts = scanOptionsFromSettings(next)                               *)
Derived(c) ==
  /\ At(c, "derive")
  /\ scanOpts' \in OptionMixtures({ScanOptionsFromSettings(b) : b \in Written(c, "derive")}
                                  \cup Before(c, scanOpts))
  /\ Advance(c, "derive", "encode")
  /\ mixed' = ~req[c].alone
  /\ UNCHANGED <<settings, pages, history, requests, faults>>

(* The answer is encoded from the handler's settings, not from the body.    *)
Encode(c) ==
  /\ At(c, "encode")
  /\ \E answer \in Readable : req' = [req EXCEPT ![c].at = "saved", ![c].answer = answer]
  /\ UNCHANGED <<server, pages, history, requests, faults>>

(* A request fails before the handler runs, or its answer does not arrive:  *)
(* the page keeps its copies.                                               *)
Fails(c) ==
  /\ req[c].at \in {"get", "loaded", "put", "saved"}
  /\ faults < MaxFaults
  /\ faults' = faults + 1
  /\ req' = [req EXCEPT ![c] = NoRequest]
  /\ unsure' = IF At(c, "saved") THEN unsure \cup {<<f, req[c].body[f]>> : f \in req[c].claims}
               ELSE unsure
  /\ UNCHANGED <<server, pages, intent, stale, blind, requests>>

Page(t) ==
  \/ LoadShell(t) \/ OpenPage(t) \/ ClosePage(t)
  \/ \E e \in Edits : Edit(t, e)
  \/ HandleSave(t) \/ ToggleTheme(t)

Request(c) ==
  \/ GetSettings(c) \/ Loaded(c)
  \/ PutSettings(c) \/ Assigned(c) \/ Derived(c) \/ Encode(c) \/ Saved(c)
  \/ Fails(c)

Next == (\E t \in Tabs : Page(t)) \/ (\E c \in Copies : Request(c))

Spec == Init /\ [][Next]_vars

-----------------------------------------------------------------------------
(* Properties.                                                              *)

(* "Manual scans use the handler's current scanOpts, which are updated by   *)
(* PUT /api/v1/settings" (Development.md): whenever no PUT is between its   *)
(* assignments, the scan options are those of the settings GET /settings    *)
(* shows, unless the last PUT to end overlapped another; one that ran by    *)
(* itself clears whatever mixture was left before it, and is answered with  *)
(* its own body.                                                            *)
OptionsFollowSettings ==
  /\ (\A c \in Copies : req[c].at \notin {"assign", "derive"}) /\ ~mixed =>
       /\ scanOpts.included = settings.included
       /\ scanOpts.excluded = settings.excluded
       /\ scanOpts.skipCompleted # settings.completed
       /\ scanOpts.excludeInternal = settings.internal
  /\ \A c \in Copies : At(c, "saved") /\ req[c].alone => req[c].answer = req[c].body

(* The header and the settings page take nothing back from each other: as   *)
(* long as every PUT is sent from a copy no other tab has overtaken, with   *)
(* no request beside it that it could cross, the settings are what users    *)
(* have set one after another, through either copy of any tab, with pages   *)
(* opened, closed and reloaded and with requests failing in between; only a *)
(* lost answer leaves open whether its change was made (handleSave,         *)
(* toggleTheme and the listeners of SETTINGS_SAVED_EVENT).                  *)
NothingLost ==
  ~blind /\ (\A c \in Copies : ~Putting(c)) =>
    \A f \in Fields : settings[f] = intent[f] \/ <<f, settings[f]>> \in unsure
=============================================================================
