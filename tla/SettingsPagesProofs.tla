------------------------- MODULE SettingsPagesProofs -------------------------
(* Proofs about SettingsPages, for any tabs, namespaces, environments and    *)
(* edits, and any number of requests under way.                              *)
EXTENDS SettingsPages, TLAPS

Busy(c) == req[c].at \in {"assign", "derive"}
Past(c) == req[c].at \in {"derive", "encode", "saved"}

RequestRecord == [at : Positions, body : Settings \cup {None}, claims : SUBSET Fields,
             answer : Settings \cup {None}, alone : BOOLEAN, raced : BOOLEAN]

(* What is sent and what is answered are settings.                          *)
Messages ==
  /\ \A c \in Copies : Putting(c) => req[c].body \in Settings
  /\ \A c \in Copies : req[c].at \in {"loaded", "saved"} => req[c].answer \in Settings
  /\ \A u \in unsure : u[1] \in Fields

(* Only an assignment under way can have been raced, and a PUT that is      *)
(* alone has no other between its assignments until it has answered.        *)
Alone ==
  /\ \A c \in Copies : ~Busy(c) => ~req[c].raced
  /\ \A c \in Copies : req[c].alone /\ (Busy(c) \/ Past(c)) =>
       ~req[c].raced /\ \A d \in Others(c) : ~Busy(d)

(* From its first assignment on, the settings are its body.                 *)
Effect ==
  /\ \A c \in Copies : req[c].alone /\ Past(c) => settings = req[c].body
  /\ \A c \in Copies : req[c].alone /\ At(c, "saved") => req[c].answer = req[c].body
  /\ (\A c \in Copies : ~Busy(c)) /\ ~mixed => scanOpts = ScanOptionsFromSettings(settings)

Inv == TypeOK /\ Messages /\ Alone /\ Effect

-----------------------------------------------------------------------------
(* Settings as records of their fields.                                     *)

LEMMA FieldFits ==
  ASSUME NEW s \in Settings, NEW t \in Settings, NEW f \in Fields, NEW v,
         [s EXCEPT ![f] = v] \in Settings
  PROVE  [t EXCEPT ![f] = v] \in Settings
<1>1. CASE f = "included"
  BY <1>1 DEF Settings
<1>2. CASE f = "excluded"
  BY <1>2 DEF Settings
<1>3. CASE f = "completed"
  BY <1>3 DEF Settings
<1>4. CASE f = "internal"
  BY <1>4 DEF Settings
<1>5. CASE f = "theme"
  BY <1>5 DEF Settings
<1> QED BY <1>1, <1>2, <1>3, <1>4, <1>5 DEF Fields

LEMMA FieldOfSettings ==
  ASSUME NEW s \in Settings, NEW t \in Settings, NEW f \in Fields
  PROVE  [t EXCEPT ![f] = s[f]] \in Settings
<1>1. CASE f = "included"
  BY <1>1 DEF Settings
<1>2. CASE f = "excluded"
  BY <1>2 DEF Settings
<1>3. CASE f = "completed"
  BY <1>3 DEF Settings
<1>4. CASE f = "internal"
  BY <1>4 DEF Settings
<1>5. CASE f = "theme"
  BY <1>5 DEF Settings
<1> QED BY <1>1, <1>2, <1>3, <1>4, <1>5 DEF Fields

LEMMA ClaimedFields ==
  ASSUME NEW s \in Settings, NEW t \in Settings, NEW claims
  PROVE  [f \in Fields |-> IF f \in claims THEN s[f] ELSE t[f]] \in Settings
BY DEF Settings, Fields

LEMMA MixtureType ==
  ASSUME NEW vs \in SUBSET Settings, NEW s \in Mixtures(vs)
  PROVE  s \in Settings
BY DEF Settings, Mixtures

LEMMA MixtureOfOne ==
  ASSUME NEW b \in Settings, NEW s \in Mixtures({b})
  PROVE  s = b
BY DEF Settings, Mixtures

LEMMA OptionsType ==
  ASSUME NEW s \in Settings
  PROVE  ScanOptionsFromSettings(s) \in ScanOptions
BY DEF Settings, ScanOptions, ScanOptionsFromSettings

LEMMA OptionMixtureType ==
  ASSUME NEW os \in SUBSET ScanOptions, NEW o \in OptionMixtures(os)
  PROVE  o \in ScanOptions
BY DEF ScanOptions, OptionMixtures

LEMMA OptionMixtureOfOne ==
  ASSUME NEW b \in ScanOptions, NEW o \in OptionMixtures({b})
  PROVE  o = b
BY DEF ScanOptions, OptionMixtures

(* A PUT that is alone writes its body, whole.                              *)
LEMMA WrittenAlone ==
  ASSUME Inv, NEW c \in Copies, NEW p \in {"assign", "derive"}, At(c, p), NEW old
  PROVE  /\ Written(c, p) \subseteq Settings /\ Written(c, p) # {}
         /\ req[c].alone => Written(c, p) = {req[c].body} /\ Before(c, old) = {}
<1>1. \A d \in Copies : At(d, p) => req[d].body \in Settings
  BY DEF Inv, Messages, At, Putting
<1>2. Written(c, p) \subseteq Settings /\ Written(c, p) # {}
  BY <1>1 DEF Written, Bodies, Others
<1>3. ASSUME req[c].alone PROVE Written(c, p) = {req[c].body} /\ Before(c, old) = {}
  <2>1. ~req[c].raced /\ \A d \in Others(c) : ~At(d, p)
    BY <1>3 DEF Inv, Alone, Busy, At
  <2>2. Bodies(p, Others(c)) = {}
    BY <2>1 DEF Bodies
  <2> QED BY <2>1, <2>2 DEF Written, Before
<1> QED BY <1>2, <1>3

LEMMA ReadableType ==
  ASSUME Inv, NEW s \in Readable
  PROVE  /\ s \in Settings
         /\ (\A c \in Copies : ~Busy(c)) => s = settings
<1>1. {settings} \cup Bodies("assign", Copies) \in SUBSET Settings
  BY DEF Inv, TypeOK, Messages, Bodies, At, Putting
<1>2. s \in Settings
  BY <1>1, MixtureType DEF Readable
<1>3. (\A c \in Copies : ~Busy(c)) => Bodies("assign", Copies) = {}
  BY DEF Bodies, At, Busy
<1>4. (\A c \in Copies : ~Busy(c)) => s \in Mixtures({settings})
  BY <1>3 DEF Readable
<1> QED BY <1>2, <1>4, MixtureOfOne DEF Inv, TypeOK

-----------------------------------------------------------------------------
(* The initial states.                                                      *)

LEMMA InitInv == Init => Inv
<1> SUFFICES ASSUME Init PROVE Inv
  OBVIOUS
<1>1. settings \in Settings
  BY EnvironmentAssumption DEF Init
<1>2. \A c \in Copies : req[c] = NoRequest
  BY DEF Init
<1>3. TypeOK
  <2>1. req \in [Copies -> RequestRecord]
    BY DEF Init, RequestRecord, NoRequest, Positions
  <2>2. requests \in 0..MaxRequests /\ faults \in 0..MaxFaults
    BY BoundAssumption DEF Init
  <2>3. \A t \in Tabs : Form(t) \in Copies
    BY DEF Form, Copies
  <2>4. scanOpts \in ScanOptions
    BY <1>1, OptionsType DEF Init
  <2> QED BY <1>1, <2>1, <2>2, <2>3, <2>4 DEF Init, TypeOK, RequestRecord
<1>4. Messages /\ Alone
  BY <1>2 DEF Init, Messages, Alone, NoRequest, Putting, Busy, Past
<1>5. Effect
  BY <1>2 DEF Init, Effect, NoRequest, Past, At
<1> QED BY <1>3, <1>4, <1>5 DEF Inv

-----------------------------------------------------------------------------
(* The steps of a page.                                                     *)

(* What a step leaves as it is when it concerns one copy that is no PUT     *)
(* between its assignments, and changes neither server.                     *)
LEMMA OtherCopies ==
  ASSUME Inv, NEW c \in Copies, ~Busy(c), UNCHANGED server,
         \A u \in unsure' : u[1] \in Fields,
         NEW r \in RequestRecord, req' = [req EXCEPT ![c] = r],
         ~r.raced, r.at \in {"idle", "get", "loaded", "put", "saved"},
         r.at = "put" => r.body \in Settings,
         r.at = "loaded" => r.answer \in Settings,
         r.at = "saved" => /\ At(c, "encode") /\ r.body = req[c].body /\ r.alone = req[c].alone
                           /\ r.answer \in Readable
  PROVE  Messages' /\ Alone' /\ Effect' /\ req' \in [Copies -> RequestRecord]
<1> USE DEF server
<1>1. req \in [Copies -> RequestRecord]
  BY DEF Inv, TypeOK, RequestRecord
<1>2. req' \in [Copies -> RequestRecord] /\ req'[c] = r /\ \A d \in Others(c) : req'[d] = req[d]
  BY <1>1 DEF Others
<1>3. r.at = "saved" => r.answer \in Settings /\ r.body \in Settings
  BY ReadableType DEF Inv, Messages, At, Putting
<1>4. Messages'
  BY <1>2, <1>3 DEF Inv, Messages, Putting, Others
<1>5. ~Busy(c)' /\ \A d \in Others(c) : Busy(d)' <=> Busy(d)
  BY <1>2 DEF Busy
<1>6. Past(c)' => At(c, "encode") /\ Past(c)
  BY <1>2 DEF Past, At
<1>7. Alone'
  BY <1>2, <1>5, <1>6 DEF Inv, Alone, Past, Others, Busy
<1>8. Effect'
  <2>1. (\A d \in Copies : ~Busy(d)') => \A d \in Copies : ~Busy(d)
    BY <1>5 DEF Others
  <2>2. ASSUME req'[c].alone, r.at = "saved" PROVE settings = r.body /\ r.answer = r.body
    <3>1. settings = req[c].body
      BY <1>2, <2>2 DEF Inv, Effect, Past, At
    <3>2. \A d \in Copies : ~Busy(d)
      BY <1>2, <2>2 DEF Inv, Alone, Past, At, Others
    <3> QED BY <3>1, <3>2, <2>2, ReadableType
  <2>3. \A d \in Copies : (req[d].alone /\ Past(d))' => settings = req'[d].body
    BY <1>2, <2>2 DEF Inv, Effect, Past, Others
  <2>4. \A d \in Copies : (req[d].alone /\ At(d, "saved"))' => req'[d].answer = req'[d].body
    BY <1>2, <2>2 DEF Inv, Effect, At, Others
  <2>5. (\A d \in Copies : ~Busy(d)') /\ ~mixed' => scanOpts' = ScanOptionsFromSettings(settings')
    BY <2>1 DEF Inv, Effect
  <2> QED BY <2>3, <2>4, <2>5 DEF Effect, Busy
<1> QED BY <1>2, <1>4, <1>7, <1>8

LEMMA GetStep ==
  ASSUME Inv, NEW c \in Copies, Get(c)
  PROVE  /\ Messages' /\ Alone' /\ Effect'
         /\ req' \in [Copies -> RequestRecord] /\ requests' \in 0..MaxRequests
<1> DEFINE r == [req[c] EXCEPT !.at = "get"]
<1>1. req[c] \in RequestRecord /\ ~Busy(c) /\ ~req[c].raced
  BY DEF Inv, TypeOK, RequestRecord, Get, Sends, At, Busy, Alone
<1>2. r \in RequestRecord /\ ~r.raced /\ r.at = "get"
  BY <1>1 DEF RequestRecord, Positions
<1>3. req' = [req EXCEPT ![c] = r]
  BY DEF Get, Inv, TypeOK
<1>4. UNCHANGED server /\ \A u \in unsure' : u[1] \in Fields
  BY DEF Get, Inv, Messages
<1>5. requests' \in 0..MaxRequests
  BY BoundAssumption DEF Get, Sends, Inv, TypeOK
<1> HIDE DEF r
<1> QED BY <1>1, <1>2, <1>3, <1>4, <1>5, OtherCopies

LEMMA PutStep ==
  ASSUME Inv, NEW c \in Copies, NEW value \in Settings, NEW claims \in SUBSET Fields,
         Put(c, value, claims)
  PROVE  /\ Messages' /\ Alone' /\ Effect'
         /\ req' \in [Copies -> RequestRecord] /\ requests' \in 0..MaxRequests
<1> DEFINE r == [NoRequest EXCEPT !.at = "put", !.body = value, !.claims = claims]
<1>1. ~Busy(c)
  BY DEF Put, Sends, At, Busy
<1>2. r \in RequestRecord /\ ~r.raced /\ r.at = "put" /\ r.body \in Settings
  BY DEF RequestRecord, Positions, NoRequest
<1>3. req' = [req EXCEPT ![c] = r]
  BY DEF Put
<1>4. UNCHANGED server /\ \A u \in unsure' : u[1] \in Fields
  BY DEF Put, Inv, Messages
<1>5. requests' \in 0..MaxRequests
  BY BoundAssumption DEF Put, Sends, Inv, TypeOK
<1> HIDE DEF r
<1> QED BY <1>1, <1>2, <1>3, <1>4, <1>5, OtherCopies

LEMMA PageStep ==
  ASSUME Inv, NEW t \in Tabs, Page(t)
  PROVE  Inv'
<1>1. Form(t) \in Copies /\ Shell(t) \in Copies
  BY DEF Form, Shell, Copies
<1>2. CASE LoadShell(t)
  <2>1. Get(Shell(t)) /\ UNCHANGED <<pages, server, intent, unsure, faults>> /\ stale' = stale
    BY <1>2 DEF LoadShell, Get
  <2>2. blind' \in BOOLEAN
    BY <1>2 DEF LoadShell, Get, Inv, TypeOK
  <2>3. TypeOK'
    BY <1>1, <2>1, <2>2, GetStep DEF Inv, TypeOK, pages, server, RequestRecord
  <2> QED BY <1>1, <2>1, <2>3, GetStep DEF Inv
<1>3. CASE OpenPage(t)
  <2>1. Get(Form(t)) /\ UNCHANGED <<copy, edited, server, intent, unsure, faults>> /\ stale' = stale
    BY <1>3 DEF OpenPage, Get
  <2>2. blind' \in BOOLEAN /\ open' \subseteq Tabs /\ open \subseteq open'
    BY <1>3 DEF OpenPage, Get, Inv, TypeOK
  <2>3. TypeOK'
    BY <1>1, <2>1, <2>2, GetStep DEF Inv, TypeOK, server, RequestRecord
  <2> QED BY <1>1, <2>1, <2>3, GetStep DEF Inv
<1>4. CASE ClosePage(t)
  <2>1. Messages' /\ Alone' /\ Effect'
    BY <1>4 DEF ClosePage, Inv, Messages, Alone, Effect, Putting, Busy, Past, At, server, history
  <2>2. \A u \in Tabs : Form(u) \in Copies /\ (u # t => Form(u) # Form(t))
    BY DEF Form, Copies
  <2>3. /\ copy' \in [Copies -> Settings \cup {None}] /\ edited' \in [Tabs -> SUBSET Fields]
        /\ open' \subseteq Tabs
    BY <1>4 DEF ClosePage, Inv, TypeOK
  <2>4. \A u \in Tabs : u \notin open' => copy'[Form(u)] = None /\ edited'[u] = {}
    BY <1>1, <1>4, <2>2 DEF ClosePage, Inv, TypeOK
  <2>5. TypeOK'
    BY <1>4, <2>3, <2>4 DEF ClosePage, Inv, TypeOK, server, history
  <2> QED BY <2>1, <2>5 DEF Inv
<1>5. ASSUME NEW e \in Edits, Edit(t, e) PROVE Inv'
  <2>1. Messages' /\ Alone' /\ Effect'
    BY <1>5 DEF Edit, Inv, Messages, Alone, Effect, Putting, Busy, Past, At, server, history
  <2>2. \A u \in Tabs : Form(u) \in Copies /\ (u # t => Form(u) # Form(t))
    BY DEF Form, Copies
  <2>3. copy[Form(t)] \in Settings /\ t \in open
    BY <1>1, <1>5 DEF Edit, Inv, TypeOK
  <2>4. [copy[Form(t)] EXCEPT ![e.field] = e.value] \in Settings /\ e.field \in Fields
    BY <2>3, EditsAssumption
  <2>5. copy' = [copy EXCEPT ![Form(t)] = [copy[Form(t)] EXCEPT ![e.field] = e.value]]
    BY <1>5 DEF Edit
  <2>6. copy' \in [Copies -> Settings \cup {None}] /\ edited' \in [Tabs -> SUBSET Fields]
    BY <1>5, <2>4, <2>5 DEF Edit, Inv, TypeOK
  <2>7. \A u \in Tabs : u \notin open' => copy'[Form(u)] = None /\ edited'[u] = {}
    BY <1>1, <1>5, <2>2, <2>3, <2>5 DEF Edit, Inv, TypeOK
  <2>8. TypeOK'
    BY <1>5, <2>6, <2>7 DEF Edit, Inv, TypeOK, server, history
  <2> QED BY <2>1, <2>8 DEF Inv
<1>6. ASSUME NEW c \in Copies, NEW value \in Settings, NEW claims \in SUBSET Fields,
             Put(c, value, claims)
      PROVE  Inv'
  <2>1. blind' \in BOOLEAN /\ UNCHANGED <<server, pages, intent, unsure, stale, faults>>
    BY <1>6 DEF Put, Inv, TypeOK
  <2>2. TypeOK'
    BY <1>6, <2>1, PutStep DEF Inv, TypeOK, server, pages, RequestRecord
  <2> QED BY <1>6, <2>2, PutStep DEF Inv
<1>7. CASE HandleSave(t)
  <2>1. copy[Form(t)] \in Settings /\ edited[t] \in SUBSET Fields
    BY <1>1, <1>7 DEF HandleSave, Inv, TypeOK
  <2> QED BY <1>1, <1>6, <1>7, <2>1 DEF HandleSave
<1>8. CASE ToggleTheme(t)
  <2>1. PICK theme \in {"light", "dark"} :
          Put(Shell(t), [copy[Shell(t)] EXCEPT !.theme = theme], {"theme"})
    BY <1>8 DEF ToggleTheme
  <2>2. copy[Shell(t)] \in Settings
    BY <1>1, <1>8 DEF ToggleTheme, Inv, TypeOK
  <2>3. [copy[Shell(t)] EXCEPT !.theme = theme] \in Settings
    BY <2>2 DEF Settings, Themes
  <2> QED BY <1>1, <1>6, <2>1, <2>3 DEF Fields
<1> QED BY <1>2, <1>3, <1>4, <1>5, <1>7, <1>8 DEF Page

-----------------------------------------------------------------------------
(* The steps of a request outside the assignments.                          *)

LEMMA GetSettingsStep ==
  ASSUME Inv, NEW c \in Copies, GetSettings(c)
  PROVE  Inv'
<1>1. PICK answer \in Readable :
        req' = [req EXCEPT ![c].at = "loaded", ![c].answer = answer,
                           ![c].alone = Bodies("assign", Copies) = {}]
  BY DEF GetSettings
<1> DEFINE r == [req[c] EXCEPT !.at = "loaded", !.answer = answer,
                               !.alone = Bodies("assign", Copies) = {}]
<1>2. req[c] \in RequestRecord /\ ~Busy(c) /\ ~req[c].raced
  BY DEF Inv, TypeOK, RequestRecord, GetSettings, At, Busy, Alone
<1>3. answer \in Settings
  BY ReadableType
<1>4. r \in RequestRecord /\ ~r.raced /\ r.at = "loaded" /\ r.answer \in Settings
  BY <1>2, <1>3 DEF RequestRecord, Positions
<1>5. req' = [req EXCEPT ![c] = r]
  BY <1>1 DEF Inv, TypeOK
<1>6. UNCHANGED <<server, pages, history, requests, faults>>
  BY DEF GetSettings
<1> HIDE DEF r
<1>7. Messages' /\ Alone' /\ Effect' /\ req' \in [Copies -> RequestRecord]
  BY <1>2, <1>4, <1>5, <1>6, OtherCopies DEF history, Inv, Messages
<1>8. TypeOK'
  BY <1>6, <1>7 DEF Inv, TypeOK, server, pages, history, RequestRecord
<1> QED BY <1>7, <1>8 DEF Inv

LEMMA EncodeStep ==
  ASSUME Inv, NEW c \in Copies, Encode(c)
  PROVE  Inv'
<1>1. PICK answer \in Readable :
        req' = [req EXCEPT ![c].at = "saved", ![c].answer = answer]
  BY DEF Encode
<1> DEFINE r == [req[c] EXCEPT !.at = "saved", !.answer = answer]
<1>2. req[c] \in RequestRecord /\ ~Busy(c) /\ ~req[c].raced /\ At(c, "encode")
  BY DEF Inv, TypeOK, RequestRecord, Encode, At, Busy, Alone
<1>3. answer \in Settings
  BY ReadableType
<1>4. /\ r \in RequestRecord /\ ~r.raced /\ r.at = "saved" /\ r.answer \in Readable
      /\ r.body = req[c].body /\ r.alone = req[c].alone
  BY <1>2, <1>3 DEF RequestRecord, Positions
<1>5. req' = [req EXCEPT ![c] = r]
  BY <1>1 DEF Inv, TypeOK
<1>6. UNCHANGED <<server, pages, history, requests, faults>>
  BY DEF Encode
<1> HIDE DEF r
<1>7. Messages' /\ Alone' /\ Effect' /\ req' \in [Copies -> RequestRecord]
  BY <1>2, <1>4, <1>5, <1>6, OtherCopies DEF history, Inv, Messages
<1>8. TypeOK'
  BY <1>6, <1>7 DEF Inv, TypeOK, server, pages, history, RequestRecord
<1> QED BY <1>7, <1>8 DEF Inv

(* A request that ends, with or without its answer.                         *)
LEMMA Ended ==
  ASSUME Inv, NEW c \in Copies, ~Busy(c), UNCHANGED server,
         \A u \in unsure' : u[1] \in Fields,
         req' = [req EXCEPT ![c] = NoRequest]
  PROVE  Messages' /\ Alone' /\ Effect' /\ req' \in [Copies -> RequestRecord]
<1>1. NoRequest \in RequestRecord /\ ~NoRequest.raced /\ NoRequest.at = "idle"
  BY DEF NoRequest, RequestRecord, Positions
<1> QED BY <1>1, OtherCopies

LEMMA LoadedStep ==
  ASSUME Inv, NEW c \in Copies, Loaded(c)
  PROVE  Inv'
<1>1. /\ ~Busy(c) /\ req[c].answer \in Settings
      /\ UNCHANGED <<server, open, intent, unsure, blind, requests, faults>>
      /\ req' = [req EXCEPT ![c] = NoRequest]
  BY DEF Loaded, Busy, At, Inv, Messages
<1>2. Messages' /\ Alone' /\ Effect' /\ req' \in [Copies -> RequestRecord]
  BY <1>1, Ended DEF Inv, Messages
<1>3. \A t \in Tabs : Form(t) \in Copies /\ Form(t)[1] = t /\ Form(t)[2] = "form"
  BY DEF Form, Copies
<1>4. c[1] \in Tabs /\ c = <<c[1], c[2]>>
  BY DEF Copies
<1>5. copy' \in [Copies -> Settings \cup {None}] /\ edited' \in [Tabs -> SUBSET Fields]
  <2>1. copy \in [Copies -> Settings \cup {None}] /\ edited \in [Tabs -> SUBSET Fields]
    BY DEF Inv, TypeOK
  <2>2. copy' = copy \/ copy' = [copy EXCEPT ![c] = req[c].answer]
    BY DEF Loaded
  <2>3. \/ edited' = edited
        \/ edited' = [edited EXCEPT ![c[1]] = {}]
        \/ edited' = [edited EXCEPT ![c[1]] = edited[c[1]]]
    BY DEF Loaded
  <2> QED BY <1>1, <1>4, <2>1, <2>2, <2>3
<1>6. \A t \in Tabs : t \notin open' => copy'[Form(t)] = None /\ edited'[t] = {}
  <2> SUFFICES ASSUME NEW t \in Tabs, t \notin open
               PROVE  copy'[Form(t)] = None /\ edited'[t] = {}
    BY <1>1
  <2>1. copy[Form(t)] = None /\ edited[t] = {}
    BY DEF Inv, TypeOK
  <2>2. CASE c[2] = "form" /\ c[1] \notin open
    BY <2>1, <2>2 DEF Loaded
  <2>3. CASE ~(c[2] = "form" /\ c[1] \notin open)
    <3>1. Form(t) # c
      BY <1>3, <2>3
    <3>2. copy' = [copy EXCEPT ![c] = req[c].answer]
      BY <2>3 DEF Loaded
    <3>3. edited' = [edited EXCEPT ![c[1]] = IF c[2] = "form" THEN {} ELSE edited[c[1]]]
      BY <2>3 DEF Loaded
    <3>4. copy'[Form(t)] = None
      BY <1>3, <2>1, <3>1, <3>2 DEF Inv, TypeOK
    <3> QED BY <1>4, <2>1, <3>3, <3>4 DEF Inv, TypeOK
  <2> QED BY <2>2, <2>3
<1>7. stale' \subseteq Copies
  BY DEF Loaded, Inv, TypeOK
<1>8. TypeOK'
  BY <1>1, <1>2, <1>5, <1>6, <1>7 DEF Inv, TypeOK, server, RequestRecord
<1> QED BY <1>2, <1>8 DEF Inv

LEMMA SavedStep ==
  ASSUME Inv, NEW c \in Copies, Saved(c)
  PROVE  Inv'
<1>1. /\ ~Busy(c) /\ req[c].answer \in Settings /\ req[c].body \in Settings
      /\ UNCHANGED <<server, open, blind, requests, faults>>
      /\ req' = [req EXCEPT ![c] = NoRequest]
      /\ unsure' \subseteq unsure
  BY DEF Saved, Busy, At, Putting, Inv, Messages
<1>2. Messages' /\ Alone' /\ Effect' /\ req' \in [Copies -> RequestRecord]
  BY <1>1, Ended DEF Inv, Messages
<1>3. c[1] \in Tabs
  BY DEF Copies
<1>4. copy' \in [Copies -> Settings \cup {None}] /\ edited' \in [Tabs -> SUBSET Fields]
  BY <1>1, <1>3 DEF Saved, SettingsSaved, Inv, TypeOK
<1>5. \A t \in Tabs : t \notin open' => copy'[Form(t)] = None /\ edited'[t] = {}
  <2>1. \A t \in Tabs : Form(t) \in Copies /\ Form(t)[1] = t /\ Form(t)[2] = "form"
    BY DEF Form, Copies
  <2> QED BY <1>1, <1>3, <2>1 DEF Saved, SettingsSaved, Inv, TypeOK
<1>6. intent' \in Settings
  <2>1. intent \in Settings
    BY DEF Inv, TypeOK
  <2>2. intent' = [f \in Fields |-> IF f \in req[c].claims THEN req[c].body[f] ELSE intent[f]]
    BY DEF Saved
  <2> QED BY <1>1, <2>1, <2>2, ClaimedFields
<1>7. \A u \in unsure' : [intent' EXCEPT ![u[1]] = u[2]] \in Settings
  BY <1>1, <1>6, FieldFits DEF Inv, TypeOK, Messages
<1>8. stale' \subseteq Copies
  BY DEF Saved, Siblings, Others, Inv, TypeOK
<1>9. TypeOK'
  BY <1>1, <1>2, <1>4, <1>5, <1>6, <1>7, <1>8 DEF Inv, TypeOK, server, RequestRecord
<1> QED BY <1>2, <1>9 DEF Inv

LEMMA FailsStep ==
  ASSUME Inv, NEW c \in Copies, Fails(c)
  PROVE  Inv'
<1>1. /\ ~Busy(c)
      /\ UNCHANGED <<server, pages, intent, stale, blind, requests>>
      /\ req' = [req EXCEPT ![c] = NoRequest]
  BY DEF Fails, Busy
<1>2. \A u \in unsure' : u[1] \in Fields /\ [intent' EXCEPT ![u[1]] = u[2]] \in Settings
  <2>1. \A u \in unsure : u[1] \in Fields /\ [intent EXCEPT ![u[1]] = u[2]] \in Settings
    BY DEF Inv, TypeOK, Messages
  <2>2. CASE At(c, "saved")
    <3>1. req[c].body \in Settings /\ req[c].claims \subseteq Fields /\ intent \in Settings
      BY <2>2 DEF At, Putting, Inv, TypeOK, Messages
    <3>2. \A f \in req[c].claims : [intent EXCEPT ![f] = req[c].body[f]] \in Settings
      BY <3>1, FieldOfSettings
    <3>3. unsure' = unsure \cup {<<f, req[c].body[f]>> : f \in req[c].claims}
      BY <2>2 DEF Fails
    <3> QED BY <1>1, <2>1, <3>1, <3>2, <3>3
  <2>3. CASE ~At(c, "saved")
    BY <1>1, <2>1, <2>3 DEF Fails
  <2> QED BY <2>2, <2>3
<1>3. Messages' /\ Alone' /\ Effect' /\ req' \in [Copies -> RequestRecord]
  BY <1>1, <1>2, Ended
<1>4. faults' \in 0..MaxFaults
  BY BoundAssumption DEF Fails, Inv, TypeOK
<1>5. TypeOK'
  BY <1>1, <1>2, <1>3, <1>4 DEF Inv, TypeOK, server, pages, RequestRecord
<1> QED BY <1>3, <1>5 DEF Inv

-----------------------------------------------------------------------------
(* The steps of an assignment.                                              *)

LEMMA PutSettingsStep ==
  ASSUME Inv, NEW c \in Copies, PutSettings(c)
  PROVE  Inv'
<1> DEFINE answered(d) == req[d].at \in {"loaded", "encode", "saved"}
<1>1. req' = [d \in Copies |->
        IF d = c THEN [req[c] EXCEPT !.at = "assign", !.alone = \A b \in Copies : ~Busy(b)]
        ELSE IF Busy(d) \/ answered(d) THEN [req[d] EXCEPT !.alone = FALSE] ELSE req[d]]
  BY DEF PutSettings, Busy
<1>2. req \in [Copies -> RequestRecord] /\ At(c, "put") /\ ~Busy(c)
  BY DEF Inv, TypeOK, RequestRecord, PutSettings, At, Busy
<1>3. req' \in [Copies -> RequestRecord]
  <2> DEFINE lone == \A b \in Copies : ~Busy(b)
  <2>1. lone \in BOOLEAN
    OBVIOUS
  <2> HIDE DEF lone
  <2>2. \A d \in Copies :
          /\ [req[d] EXCEPT !.at = "assign", !.alone = lone] \in RequestRecord
          /\ [req[d] EXCEPT !.alone = FALSE] \in RequestRecord
    BY <1>2, <2>1 DEF RequestRecord, Positions
  <2> QED BY <1>1, <1>2, <2>2 DEF lone
<1>4. /\ req'[c].at = "assign" /\ req'[c].body = req[c].body /\ req'[c].raced = req[c].raced
      /\ req'[c].alone => \A b \in Copies : ~Busy(b)
  BY <1>1, <1>2 DEF RequestRecord
<1>5. \A d \in Others(c) :
        /\ req'[d].at = req[d].at /\ req'[d].body = req[d].body
        /\ req'[d].answer = req[d].answer /\ req'[d].raced = req[d].raced
        /\ Busy(d) \/ Past(d) => ~req'[d].alone
  BY <1>1, <1>2 DEF RequestRecord, Others, Past, Busy
<1> HIDE DEF answered
<1>6. UNCHANGED <<server, pages, intent, unsure, blind, requests, faults>>
  BY DEF PutSettings
<1>7. Messages'
  BY <1>2, <1>4, <1>5, <1>6 DEF Inv, Messages, Putting, At, Others
<1>8. \A d \in Others(c) : (Busy(d)' <=> Busy(d)) /\ (Past(d)' <=> Past(d))
  BY <1>5 DEF Busy, Past
<1>9. Alone'
  <2>1. \A d \in Copies : ~Busy(d)' => ~req'[d].raced
    BY <1>4, <1>5, <1>8 DEF Inv, Alone, Busy, Others
  <2>2. req'[c].alone => ~req'[c].raced /\ \A d \in Others(c) : ~Busy(d)'
    BY <1>2, <1>4, <1>8 DEF Inv, Alone, Others
  <2>3. \A d \in Others(c) : ~(req'[d].alone /\ (Busy(d)' \/ Past(d)'))
    BY <1>5, <1>8
  <2> QED BY <2>1, <2>2, <2>3 DEF Alone, Busy, Past, Others
<1>10. Effect'
  <2>1. ~Past(c)' /\ Busy(c)' /\ ~At(c, "saved")'
    BY <1>4 DEF Past, Busy, At
  <2>2. \A d \in Others(c) : ~(req'[d].alone /\ Past(d)')
    BY <1>5, <1>8
  <2>3. \A d \in Copies : ~(req'[d].alone /\ Past(d)')
    BY <2>1, <2>2 DEF Others
  <2>4. \A d \in Copies : At(d, "saved")' => Past(d)'
    BY DEF At, Past
  <2> QED BY <2>1, <2>3, <2>4 DEF Effect, Busy, Past, At
<1>11. stale' \subseteq Copies
  BY DEF PutSettings, Inv, TypeOK
<1>12. TypeOK'
  BY <1>3, <1>6, <1>11 DEF Inv, TypeOK, server, pages, RequestRecord
<1> QED BY <1>7, <1>9, <1>10, <1>12 DEF Inv

(* What Advance does to the requests.                                       *)
LEMMA Advanced ==
  ASSUME Inv, NEW c \in Copies,
         NEW p \in {"assign", "derive"}, NEW q \in {"derive", "encode"},
         p = "assign" <=> q = "derive",
         At(c, p), Advance(c, p, q), UNCHANGED unsure
  PROVE  /\ req' \in [Copies -> RequestRecord] /\ Messages' /\ Alone'
         /\ req'[c].at = q /\ req'[c].body = req[c].body /\ req'[c].alone = req[c].alone
         /\ \A d \in Others(c) :
              /\ req'[d].at = req[d].at /\ req'[d].body = req[d].body
              /\ req'[d].answer = req[d].answer /\ req'[d].alone = req[d].alone
<1>1. req \in [Copies -> RequestRecord]
  BY DEF Inv, TypeOK, RequestRecord
<1>2. req' = [d \in Copies |-> IF d = c THEN [req[c] EXCEPT !.at = q, !.raced = FALSE]
                               ELSE IF req[d].at = p THEN [req[d] EXCEPT !.raced = TRUE]
                               ELSE req[d]]
  BY DEF Advance, At
<1>3. req' \in [Copies -> RequestRecord]
  <2>1. \A d \in Copies :
          /\ [req[d] EXCEPT !.at = q, !.raced = FALSE] \in RequestRecord
          /\ [req[d] EXCEPT !.raced = TRUE] \in RequestRecord
    BY <1>1 DEF RequestRecord, Positions
  <2> QED BY <1>1, <1>2, <2>1
<1>4. /\ req'[c].at = q /\ req'[c].body = req[c].body /\ req'[c].alone = req[c].alone
      /\ ~req'[c].raced
  BY <1>1, <1>2 DEF RequestRecord
<1>5. \A d \in Others(c) :
        /\ req'[d].at = req[d].at /\ req'[d].body = req[d].body
        /\ req'[d].answer = req[d].answer /\ req'[d].alone = req[d].alone
        /\ req[d].at # p => req'[d].raced = req[d].raced
  BY <1>1, <1>2 DEF RequestRecord, Others
<1>6. Messages'
  BY <1>4, <1>5 DEF Inv, Messages, Putting, At, Others
<1>7. Busy(c) /\ \A d \in Others(c) : (Busy(d)' <=> Busy(d)) /\ (Past(d)' <=> Past(d))
  BY <1>5 DEF Busy, Past, At
<1>8. Alone'
  <2>1. \A d \in Copies : ~Busy(d)' => ~req'[d].raced
    BY <1>4, <1>5, <1>7 DEF Inv, Alone, Busy, Others
  <2>2. req'[c].alone => ~req'[c].raced /\ \A d \in Others(c) : ~Busy(d)'
    BY <1>4, <1>7 DEF Inv, Alone, Others
  <2>3. \A d \in Others(c) : ~(req[d].alone /\ (Busy(d) \/ Past(d)))
    BY <1>7 DEF Inv, Alone, Others
  <2>4. \A d \in Others(c) : ~(req'[d].alone /\ (Busy(d)' \/ Past(d)'))
    BY <1>5, <1>7, <2>3
  <2> QED BY <2>1, <2>2, <2>4 DEF Alone, Busy, Past, Others
<1> QED BY <1>3, <1>4, <1>5, <1>6, <1>8

(* No other PUT counts as alone while one is between its assignments.       *)
LEMMA NoOtherAlone ==
  ASSUME Inv, NEW c \in Copies, Busy(c), NEW d \in Others(c)
  PROVE  ~(req[d].alone /\ Past(d))
BY DEF Inv, Alone, Others

LEMMA AssignedStep ==
  ASSUME Inv, NEW c \in Copies, Assigned(c)
  PROVE  Inv'
<1>1. /\ At(c, "assign") /\ Busy(c) /\ Advance(c, "assign", "derive")
      /\ settings' \in Mixtures(Written(c, "assign") \cup Before(c, settings))
      /\ UNCHANGED <<scanOpts, mixed, pages, history, requests, faults>>
  BY DEF Assigned, At, Busy
<1>2. /\ req' \in [Copies -> RequestRecord] /\ Messages' /\ Alone'
      /\ req'[c].at = "derive" /\ req'[c].body = req[c].body /\ req'[c].alone = req[c].alone
      /\ \A d \in Others(c) :
           /\ req'[d].at = req[d].at /\ req'[d].body = req[d].body
           /\ req'[d].answer = req[d].answer /\ req'[d].alone = req[d].alone
  BY <1>1, Advanced DEF history
<1>3. settings' \in Settings
  BY <1>1, WrittenAlone, MixtureType DEF Before, Inv, TypeOK
<1>4. ASSUME req[c].alone PROVE settings' = req[c].body
  <2>1. Written(c, "assign") \cup Before(c, settings) = {req[c].body}
    BY <1>1, <1>4, WrittenAlone
  <2>2. req[c].body \in Settings
    BY <1>1 DEF At, Putting, Inv, Messages
  <2> QED BY <1>1, <2>1, <2>2, MixtureOfOne
<1>5. Effect'
  <2>1. \A d \in Others(c) : ~(req'[d].alone /\ Past(d)')
    BY <1>1, <1>2, NoOtherAlone DEF Past
  <2>2. Busy(c)' /\ ~At(c, "saved")'
    BY <1>2 DEF Busy, At
  <2>3. \A d \in Copies : At(d, "saved")' => Past(d)'
    BY DEF At, Past
  <2>4. \A d \in Copies : (req[d].alone /\ Past(d))' => d = c
    BY <2>1 DEF Others
  <2> QED BY <1>2, <1>4, <2>2, <2>3, <2>4 DEF Effect, Busy, Past, At
<1>6. TypeOK'
  BY <1>1, <1>2, <1>3 DEF Inv, TypeOK, pages, history, RequestRecord
<1> QED BY <1>2, <1>5, <1>6 DEF Inv

LEMMA DerivedStep ==
  ASSUME Inv, NEW c \in Copies, Derived(c)
  PROVE  Inv'
<1> DEFINE options == {ScanOptionsFromSettings(b) : b \in Written(c, "derive")}
                        \cup Before(c, scanOpts)
<1>1. /\ At(c, "derive") /\ Busy(c) /\ Past(c) /\ Advance(c, "derive", "encode")
      /\ scanOpts' \in OptionMixtures(options)
      /\ mixed' = ~req[c].alone
      /\ UNCHANGED <<settings, pages, history, requests, faults>>
  BY DEF Derived, At, Busy, Past
<1>2. /\ req' \in [Copies -> RequestRecord] /\ Messages' /\ Alone'
      /\ req'[c].at = "encode" /\ req'[c].body = req[c].body /\ req'[c].alone = req[c].alone
      /\ \A d \in Others(c) :
           /\ req'[d].at = req[d].at /\ req'[d].body = req[d].body
           /\ req'[d].answer = req[d].answer /\ req'[d].alone = req[d].alone
  BY <1>1, Advanced DEF history
<1>3. options \in SUBSET ScanOptions
  BY <1>1, WrittenAlone, OptionsType DEF Before, Inv, TypeOK
<1>4. scanOpts' \in ScanOptions
  BY <1>1, <1>3, OptionMixtureType
<1>5. ASSUME req[c].alone PROVE scanOpts' = ScanOptionsFromSettings(settings)
  <2>1. Written(c, "derive") = {req[c].body} /\ Before(c, scanOpts) = {}
    BY <1>1, <1>5, WrittenAlone
  <2>2. settings = req[c].body /\ settings \in Settings
    BY <1>1, <1>5 DEF Inv, Effect, TypeOK
  <2>3. options = {ScanOptionsFromSettings(settings)}
    BY <2>1, <2>2
  <2> HIDE DEF options
  <2> QED BY <1>1, <2>2, <2>3, OptionsType, OptionMixtureOfOne
<1>6. Effect'
  <2>1. \A d \in Others(c) : ~(req'[d].alone /\ Past(d)')
    BY <1>1, <1>2, NoOtherAlone DEF Past
  <2>2. ~At(c, "saved")' /\ (req[c].alone => settings' = req[c].body)
    BY <1>1, <1>2 DEF At, Inv, Effect
  <2>3. \A d \in Copies : At(d, "saved")' => Past(d)'
    BY DEF At, Past
  <2>4. \A d \in Copies : (req[d].alone /\ Past(d))' => d = c
    BY <2>1 DEF Others
  <2>5. ~mixed' => scanOpts' = ScanOptionsFromSettings(settings')
    BY <1>1, <1>5, <1>2 DEF Inv, TypeOK
  <2> QED BY <1>2, <2>2, <2>3, <2>4, <2>5 DEF Effect, Busy, Past, At
<1>7. mixed' \in BOOLEAN
  BY <1>1
<1>8. TypeOK'
  BY <1>1, <1>2, <1>4, <1>7 DEF Inv, TypeOK, pages, history, RequestRecord
<1> QED BY <1>2, <1>6, <1>8 DEF Inv

-----------------------------------------------------------------------------
(* The theorems.                                                            *)

LEMMA NextInv == Inv /\ [Next]_vars => Inv'
<1> SUFFICES ASSUME Inv, [Next]_vars PROVE Inv'
  OBVIOUS
<1>1. ASSUME NEW t \in Tabs, Page(t) PROVE Inv'
  BY <1>1, PageStep
<1>2. ASSUME NEW c \in Copies, Request(c) PROVE Inv'
  BY <1>2, GetSettingsStep, LoadedStep, PutSettingsStep, AssignedStep, DerivedStep,
     EncodeStep, SavedStep, FailsStep DEF Request
<1>3. CASE UNCHANGED vars
  BY <1>3 DEF vars, server, pages, history, Inv, TypeOK, Messages, Alone, Effect,
              Putting, Busy, Past, At
<1> QED BY <1>1, <1>2, <1>3 DEF Next

(* The settings, the scan options, every copy and every message are what    *)
(* they are meant to be (Load, getSettings, putSettings and the pages).     *)
THEOREM SettingsTypes == Spec => []TypeOK
<1>1. Inv => TypeOK
  BY DEF Inv
<1> QED BY InitInv, NextInv, <1>1, PTL DEF Spec

(* Whenever no PUT is between its assignments and the last one to end       *)
(* overlapped no other, manual scans run with the options of the settings   *)
(* shown; a PUT that overlaps none is answered with its own body            *)
(* (putSettings, which takes no lock).                                      *)
THEOREM OptionsAreThoseShown == Spec => []OptionsFollowSettings
<1>1. Inv => OptionsFollowSettings
  <2> SUFFICES ASSUME Inv PROVE OptionsFollowSettings
    OBVIOUS
  <2>1. ASSUME \A c \in Copies : req[c].at \notin {"assign", "derive"}, ~mixed
        PROVE  /\ scanOpts.included = settings.included
               /\ scanOpts.excluded = settings.excluded
               /\ scanOpts.skipCompleted # settings.completed
               /\ scanOpts.excludeInternal = settings.internal
    <3>1. scanOpts = ScanOptionsFromSettings(settings)
      BY <2>1 DEF Inv, Effect, Busy
    <3>2. settings \in Settings
      BY DEF Inv, TypeOK
    <3> QED BY <3>1, <3>2 DEF ScanOptionsFromSettings, Settings
  <2>2. \A c \in Copies : At(c, "saved") /\ req[c].alone => req[c].answer = req[c].body
    BY DEF Inv, Effect
  <2> QED BY <2>1, <2>2 DEF OptionsFollowSettings
<1> QED BY InitInv, NextInv, <1>1, PTL DEF Spec

(* What a manual scan may read when it begins while PUTs cross.             *)
Sent(P) == \A c \in Copies : Putting(c) => req[c].body \in P
MixtureOf(P) == scanOpts \in OptionMixtures({ScanOptionsFromSettings(s) : s \in P})

LEMMA MixtureNext ==
  ASSUME NEW P, Inv, Sent(P), MixtureOf(P), [Next]_vars
  PROVE  MixtureOf(P)'
<1> DEFINE Q == {ScanOptionsFromSettings(s) : s \in P}
<1>1. ASSUME NEW c \in Copies, Derived(c) PROVE MixtureOf(P)'
  <2> DEFINE O == {ScanOptionsFromSettings(b) : b \in Written(c, "derive")}
                    \cup Before(c, scanOpts)
  <2>1. Written(c, "derive") \subseteq P
    <3>1. \A d \in Copies : At(d, "derive") => req[d].body \in P
      BY DEF Sent, At, Putting
    <3> QED BY <1>1, <3>1 DEF Derived, Written, Bodies, Others
  <2>2. O \subseteq Q \cup {scanOpts}
    BY <2>1 DEF Before
  <2>3. scanOpts \in OptionMixtures(Q) /\ scanOpts' \in OptionMixtures(O)
    BY <1>1 DEF Derived, MixtureOf
  <2> HIDE DEF O, Q
  <2>4. \A o \in O : o \in Q \/ o = scanOpts
    BY <2>2
  <2>5. scanOpts' \in OptionMixtures(Q)
    BY <2>3, <2>4 DEF OptionMixtures
  <2> QED BY <2>5 DEF MixtureOf, Q
<1>2. CASE UNCHANGED scanOpts
  BY <1>2 DEF MixtureOf
<1>3. ASSUME NEW c \in Copies, Request(c), ~Derived(c) PROVE UNCHANGED scanOpts
  BY <1>3 DEF Request, GetSettings, Loaded, PutSettings, Assigned, Encode, Saved, Fails, server
<1>4. ASSUME NEW t \in Tabs, Page(t) PROVE UNCHANGED scanOpts
  BY <1>4 DEF Page, LoadShell, OpenPage, ClosePage, Edit, HandleSave, ToggleTheme,
              Get, Put, server
<1>5. CASE UNCHANGED vars
  BY <1>2, <1>5 DEF vars, server
<1> QED BY <1>1, <1>2, <1>3, <1>4, <1>5 DEF Next

(* What a scan that begins may find in scanOpts, also while it is written.  *)
ReadableOptions ==
  OptionMixtures({scanOpts} \cup {ScanOptionsFromSettings(b) : b \in Bodies("derive", Copies)})

(* However PUTs overlap each other and the scans that begin, a manual scan  *)
(* reads each of its options from the settings of the start or from those   *)
(* of some PUT that was sent, and no other (putSettings, postScan).  So it  *)
(* runs with one of the ScanOpts of module ScanLifecycle.                   *)
THEOREM OptionsAreMixtures ==
  ASSUME NEW P \in SUBSET Settings
  PROVE  Spec /\ settings \in P /\ []Sent(P) =>
           [](\A o \in ReadableOptions :
                \E v, w \in P : o.included = v.included /\ o.excluded = w.excluded)
<1>1. Init /\ settings \in P => MixtureOf(P)
  BY DEF Init, MixtureOf, OptionMixtures, ScanOptionsFromSettings
<1>2. Inv /\ Sent(P) /\ MixtureOf(P) /\ [Next]_vars => MixtureOf(P)'
  BY MixtureNext
<1>3. Sent(P) /\ MixtureOf(P) =>
        \A o \in ReadableOptions :
          \E v, w \in P : o.included = v.included /\ o.excluded = w.excluded
  <2> SUFFICES ASSUME Sent(P), MixtureOf(P), NEW o \in ReadableOptions
               PROVE  \E v, w \in P : o.included = v.included /\ o.excluded = w.excluded
    OBVIOUS
  <2>1. Bodies("derive", Copies) \subseteq P
    BY DEF Sent, Bodies, At, Putting
  <2>2. /\ \E v \in P : scanOpts.included = v.included
        /\ \E w \in P : scanOpts.excluded = w.excluded
    BY DEF MixtureOf, OptionMixtures, ScanOptionsFromSettings
  <2>3. /\ o.included = scanOpts.included \/ \E b \in P : o.included = b.included
        /\ o.excluded = scanOpts.excluded \/ \E b \in P : o.excluded = b.excluded
    BY <2>1 DEF ReadableOptions, OptionMixtures, ScanOptionsFromSettings
  <2> QED BY <2>2, <2>3
<1> QED BY InitInv, NextInv, <1>1, <1>2, <1>3, PTL DEF Spec

-----------------------------------------------------------------------------
(* Why nothing is lost.                                                     *)

Begun(c) == req[c].at \in {"assign", "derive", "encode", "saved"}

Vouched(v, X) == \A f \in Fields \ X : v[f] = intent[f] \/ <<f, v[f]>> \in unsure
Agrees(v, b, X) == \A f \in Fields \ X : v[f] = b[f]

(* A value held by tab t: that of the PUT another tab has under way if that *)
(* one has made its assignment, and otherwise what users have set.          *)
Trusted(v, t, X) ==
  /\ \A c \in Copies : Begun(c) /\ c[1] # t => Past(c) /\ Agrees(v, req[c].body, X)
  /\ (\A c \in Copies : Past(c) => c[1] = t) => Vouched(v, X)

Edited(d) == IF d[2] = "form" THEN edited[d[1]] ELSE {}

OnePut ==
  \A c \in Copies : Putting(c) =>
    /\ Begun(c) => req[c].alone
    /\ \A d \in Others(c) : ~Putting(d) /\ (d[1] = c[1] => At(d, "idle"))

(* A copy that misses a PUT, or waits for an answer that may, is stale.     *)
Overtaken ==
  \A d \in Copies : d \notin stale =>
    /\ \A c \in Copies : At(c, "assign") => c[1] = d[1]
    /\ At(d, "loaded") => req[d].alone

Keeps ==
  /\ OnePut /\ Overtaken
  /\ (\A c \in Copies : ~Past(c)) => Vouched(settings, {})
  /\ \A c \in Copies : Putting(c) => Vouched(req[c].body, req[c].claims)
  /\ \A d \in Copies : d \notin stale /\ copy[d] # None => Trusted(copy[d], d[1], Edited(d))
  /\ \A d \in Copies : At(d, "loaded") /\ req[d].alone => Trusted(req[d].answer, d[1], {})

LEMMA FieldKept ==
  ASSUME NEW s \in Settings, NEW f \in Fields, NEW g \in Fields, f # g, NEW v
  PROVE  [s EXCEPT ![g] = v][f] = s[f]
<1>1. CASE f = "included"
  BY <1>1 DEF Settings
<1>2. CASE f = "excluded"
  BY <1>2 DEF Settings
<1>3. CASE f = "completed"
  BY <1>3 DEF Settings
<1>4. CASE f = "internal"
  BY <1>4 DEF Settings
<1>5. CASE f = "theme"
  BY <1>5 DEF Settings
<1> QED BY <1>1, <1>2, <1>3, <1>4, <1>5 DEF Fields

LEMMA ThemeAside ==
  ASSUME NEW s \in Settings, NEW theme, NEW f \in Fields \ {"theme"}
  PROVE  [s EXCEPT !.theme = theme][f] = s[f]
<1>1. CASE f = "included"
  BY <1>1 DEF Settings
<1>2. CASE f = "excluded"
  BY <1>2 DEF Settings
<1>3. CASE f = "completed"
  BY <1>3 DEF Settings
<1>4. CASE f = "internal"
  BY <1>4 DEF Settings
<1> QED BY <1>1, <1>2, <1>3, <1>4 DEF Fields

(* What a step must leave alone so that values stay trusted.                *)
SamePuts ==
  /\ \A c \in Copies : /\ (Begun(c)' <=> Begun(c)) /\ (Past(c)' <=> Past(c))
                       /\ Begun(c) => req'[c].body = req[c].body
  /\ UNCHANGED <<settings, intent, unsure>>

LEMMA TrustKept ==
  ASSUME SamePuts, NEW v, NEW t, NEW X, Trusted(v, t, X)
  PROVE  Trusted(v, t, X)'
BY DEF SamePuts, Trusted, Vouched, Agrees

LEMMA GetKeeps ==
  ASSUME Inv, Keeps, NEW c \in Copies, Get(c), ~blind', UNCHANGED copy,
         \A d \in Copies : copy[d] # None => Edited(d)' = Edited(d)
  PROVE  Keeps'
<1>1. /\ At(c, "idle") /\ req' = [req EXCEPT ![c].at = "get"]
      /\ \A d \in Siblings(c) : ~Putting(d)
      /\ UNCHANGED <<settings, intent, unsure, stale>>
  BY DEF Get, Sends, server
<1>2. req \in [Copies -> RequestRecord]
  BY DEF Inv, TypeOK, RequestRecord
<1>3. /\ req'[c].at = "get"
      /\ \A d \in Others(c) : req'[d] = req[d]
  BY <1>1, <1>2 DEF Others, RequestRecord
<1>4. ~Putting(c) /\ ~Putting(c)' /\ ~Begun(c) /\ ~Begun(c)' /\ ~Past(c) /\ ~Past(c)'
  BY <1>1, <1>3 DEF At, Putting, Begun, Past
<1>5. SamePuts
  BY <1>1, <1>3, <1>4 DEF SamePuts, Begun, Past, Others
<1>6. OnePut'
  BY <1>1, <1>3, <1>4 DEF Keeps, OnePut, Others, Siblings, Putting, Begun, At
<1>7. (\A d \in Copies : ~Past(d)') => Vouched(settings, {})'
  BY <1>5 DEF Keeps, SamePuts, Vouched
<1>8. \A d \in Copies : Putting(d)' => Vouched(req[d].body, req[d].claims)'
  BY <1>1, <1>3, <1>4 DEF Keeps, Vouched, Others, Putting
<1>9. \A d \in Copies : d \notin stale' /\ copy'[d] # None => Trusted(copy[d], d[1], Edited(d))'
  BY <1>1, <1>5 DEF Keeps, Trusted, SamePuts, Vouched, Agrees
<1>10. \A d \in Copies : At(d, "loaded")' /\ req'[d].alone => Trusted(req[d].answer, d[1], {})'
  BY <1>3, <1>5 DEF Keeps, Trusted, SamePuts, Vouched, Agrees, At, Others
<1>11. Overtaken'
  BY <1>1, <1>3 DEF Keeps, Overtaken, Others, At
<1> QED BY <1>6, <1>7, <1>8, <1>9, <1>10, <1>11 DEF Keeps

LEMMA PutKeeps ==
  ASSUME Inv, Keeps, NEW c \in Copies, NEW value, NEW claims,
         Put(c, value, claims), ~blind', c \notin stale => Vouched(value, claims)
  PROVE  Keeps'
<1>1. /\ At(c, "idle") /\ c \notin stale
      /\ req' = [req EXCEPT ![c] = [NoRequest EXCEPT !.at = "put", !.body = value,
                                                     !.claims = claims]]
      /\ \A d \in Others(c) : ~Putting(d)
      /\ \A d \in Siblings(c) : At(d, "idle")
      /\ UNCHANGED <<settings, pages, intent, unsure, stale>>
  BY DEF Put, Sends, server
<1>2. req \in [Copies -> RequestRecord]
  BY DEF Inv, TypeOK, RequestRecord
<1>3. /\ req'[c].at = "put" /\ req'[c].body = value /\ req'[c].claims = claims
      /\ \A d \in Others(c) : req'[d] = req[d]
  BY <1>1, <1>2 DEF Others, RequestRecord, NoRequest
<1>4. ~Begun(c) /\ ~Begun(c)' /\ ~Past(c) /\ ~Past(c)'
  BY <1>1, <1>3 DEF At, Begun, Past
<1>5. SamePuts
  BY <1>1, <1>3, <1>4 DEF SamePuts, Begun, Past, Others
<1>6. OnePut'
  BY <1>1, <1>3, <1>4 DEF Keeps, OnePut, Others, Siblings, Putting, Begun, At
<1>7. (\A d \in Copies : ~Past(d)') => Vouched(settings, {})'
  BY <1>5 DEF Keeps, SamePuts, Vouched
<1>8. \A d \in Copies : Putting(d)' => Vouched(req[d].body, req[d].claims)'
  BY <1>1, <1>3 DEF Keeps, Vouched, Others, Putting
<1>9. \A d \in Copies : d \notin stale' /\ copy'[d] # None => Trusted(copy[d], d[1], Edited(d))'
  BY <1>1, <1>5 DEF Keeps, Trusted, SamePuts, Vouched, Agrees, pages, Edited
<1>10. \A d \in Copies : At(d, "loaded")' /\ req'[d].alone => Trusted(req[d].answer, d[1], {})'
  BY <1>3, <1>5 DEF Keeps, Trusted, SamePuts, Vouched, Agrees, At, Others
<1>11. Overtaken'
  BY <1>1, <1>3 DEF Keeps, Overtaken, Others, At
<1> QED BY <1>6, <1>7, <1>8, <1>9, <1>10, <1>11 DEF Keeps

(* With no PUT but its own tab's under way, a tab holds what users have set.*)
LEMMA CopyVouched ==
  ASSUME Keeps, NEW d \in Copies, d \notin stale, copy[d] # None,
         \A c \in Copies : Past(c) => c[1] = d[1]
  PROVE  Vouched(copy[d], Edited(d))
BY DEF Keeps, Trusted

LEMMA PageKeeps ==
  ASSUME Inv, Keeps, NEW t \in Tabs, Page(t), ~blind'
  PROVE  Keeps'
<1>1. /\ Form(t) \in Copies /\ Shell(t) \in Copies
      /\ Form(t)[2] = "form" /\ Form(t)[1] = t /\ Shell(t)[2] = "shell" /\ Shell(t)[1] = t
      /\ \A d \in Copies : d[2] = "form" /\ d[1] = t => d = Form(t)
  BY DEF Form, Shell, Copies
<1>2. CASE LoadShell(t)
  <2>1. Get(Shell(t)) /\ UNCHANGED copy /\ \A d \in Copies : Edited(d)' = Edited(d)
    BY <1>2 DEF LoadShell, pages, Edited
  <2> QED BY <1>1, <2>1, GetKeeps
<1>3. CASE OpenPage(t)
  <2>1. Get(Form(t)) /\ UNCHANGED copy /\ \A d \in Copies : Edited(d)' = Edited(d)
    BY <1>3 DEF OpenPage, Edited
  <2> QED BY <1>1, <2>1, GetKeeps
<1>4. CASE ClosePage(t)
  <2>1. UNCHANGED <<req, settings, intent, unsure, stale>>
    BY <1>4 DEF ClosePage, server, history
  <2>2. \A d \in Copies : copy'[d] # None => copy'[d] = copy[d] /\ Edited(d)' = Edited(d)
    BY <1>1, <1>4 DEF ClosePage, Inv, TypeOK, Edited
  <2>3. SamePuts
    BY <2>1 DEF SamePuts, Begun, Past
  <2>4. \A d \in Copies : d \notin stale' /\ copy'[d] # None => Trusted(copy[d], d[1], Edited(d))'
    BY <2>1, <2>2, <2>3 DEF Keeps, Trusted, SamePuts, Vouched, Agrees
  <2> QED BY <2>1, <2>4 DEF Keeps, OnePut, Overtaken, Putting, Begun, Past, At, Vouched, Trusted, Agrees
<1>5. ASSUME NEW e \in Edits, Edit(t, e) PROVE Keeps'
  <2>1. /\ UNCHANGED <<req, settings, intent, unsure, stale>>
        /\ copy' = [copy EXCEPT ![Form(t)] = [copy[Form(t)] EXCEPT ![e.field] = e.value]]
        /\ edited' = [edited EXCEPT ![t] = @ \cup {e.field}]
    BY <1>5 DEF Edit, server, history
  <2>2. copy[Form(t)] \in Settings /\ e.field \in Fields
    BY <1>1, <1>5, EditsAssumption DEF Edit, Inv, TypeOK
  <2>3. \A d \in Copies : d # Form(t) => copy'[d] = copy[d] /\ Edited(d)' = Edited(d)
    BY <1>1, <2>1 DEF Inv, TypeOK, Edited
  <2>4. /\ Edited(Form(t))' = Edited(Form(t)) \cup {e.field}
        /\ copy[Form(t)] # None
        /\ copy'[Form(t)] = [copy[Form(t)] EXCEPT ![e.field] = e.value]
    BY <1>1, <1>5, <2>1 DEF Inv, TypeOK, Edited, Edit
  <2>5. \A f \in Fields \ Edited(Form(t))' : copy'[Form(t)][f] = copy[Form(t)][f]
    BY <2>2, <2>4, FieldKept
  <2>6. SamePuts
    BY <2>1 DEF SamePuts, Begun, Past
  <2>7. Form(t) \notin stale => Trusted(copy[Form(t)], Form(t)[1], Edited(Form(t)))'
    BY <1>1, <2>1, <2>4, <2>5, <2>6 DEF Keeps, Trusted, SamePuts, Vouched, Agrees
  <2>8. \A d \in Copies : d \notin stale' /\ copy'[d] # None => Trusted(copy[d], d[1], Edited(d))'
    BY <2>1, <2>3, <2>6, <2>7 DEF Keeps, Trusted, SamePuts, Vouched, Agrees
  <2> QED BY <2>1, <2>8 DEF Keeps, OnePut, Overtaken, Putting, Begun, Past, At, Vouched, Trusted, Agrees
<1>6. CASE HandleSave(t)
  <2>1. /\ copy[Form(t)] # None /\ Put(Form(t), copy[Form(t)], edited[t])
        /\ Edited(Form(t)) = edited[t]
    BY <1>1, <1>6 DEF HandleSave, Edited
  <2>2. \A d \in Copies : ~Past(d)
    BY <1>1, <2>1 DEF Put, Past, Putting, Others, Sends, At
  <2> QED BY <1>1, <2>1, <2>2, CopyVouched, PutKeeps
<1>7. CASE ToggleTheme(t)
  <2>1. PICK theme \in {"light", "dark"} :
          Put(Shell(t), [copy[Shell(t)] EXCEPT !.theme = theme], {"theme"})
    BY <1>7 DEF ToggleTheme
  <2> DEFINE value == [copy[Shell(t)] EXCEPT !.theme = theme]
  <2>2. copy[Shell(t)] \in Settings /\ copy[Shell(t)] # None /\ Edited(Shell(t)) = {}
    BY <1>1, <1>7 DEF ToggleTheme, Inv, TypeOK, Edited
  <2>3. \A d \in Copies : ~Past(d)
    BY <1>1, <2>1 DEF Put, Past, Putting, Others, Sends, At
  <2>4. Shell(t) \notin stale => Vouched(copy[Shell(t)], {})
    BY <1>1, <2>2, <2>3, CopyVouched
  <2>5. \A f \in Fields \ {"theme"} : value[f] = copy[Shell(t)][f]
    BY <2>2, ThemeAside
  <2>6. Shell(t) \notin stale => Vouched(value, {"theme"})
    BY <2>4, <2>5 DEF Vouched
  <2> HIDE DEF value
  <2>7. Put(Shell(t), value, {"theme"})
    BY <2>1 DEF value
  <2> QED BY <1>1, <2>6, <2>7, PutKeeps
<1> QED BY <1>2, <1>3, <1>4, <1>5, <1>6, <1>7 DEF Page

LEMMA GetSettingsKeeps ==
  ASSUME Inv, Keeps, NEW c \in Copies, GetSettings(c)
  PROVE  Keeps'
<1>1. PICK answer \in Readable :
        req' = [req EXCEPT ![c].at = "loaded", ![c].answer = answer,
                           ![c].alone = Bodies("assign", Copies) = {}]
  BY DEF GetSettings
<1>2. At(c, "get") /\ UNCHANGED <<settings, intent, unsure, stale, copy, edited>>
  BY DEF GetSettings, server, pages, history
<1>3. req \in [Copies -> RequestRecord]
  BY DEF Inv, TypeOK, RequestRecord
<1>4. /\ req'[c].at = "loaded" /\ req'[c].answer = answer
      /\ req'[c].alone = (Bodies("assign", Copies) = {})
      /\ \A d \in Others(c) : req'[d] = req[d]
  BY <1>1, <1>3 DEF Others, RequestRecord
<1>5. ~Putting(c) /\ ~Putting(c)' /\ ~Begun(c) /\ ~Begun(c)' /\ ~Past(c) /\ ~Past(c)'
  BY <1>2, <1>4 DEF At, Putting, Begun, Past
<1>6. SamePuts
  BY <1>2, <1>4, <1>5 DEF SamePuts, Begun, Past, Others
<1>7. OnePut'
  BY <1>2, <1>4, <1>5 DEF Keeps, OnePut, Others, Putting, Begun, At
<1>8. (\A d \in Copies : ~Past(d)') => Vouched(settings, {})'
  BY <1>6 DEF Keeps, SamePuts, Vouched
<1>9. \A d \in Copies : Putting(d)' => Vouched(req[d].body, req[d].claims)'
  BY <1>2, <1>4, <1>5 DEF Keeps, Vouched, Others, Putting
<1>10. \A d \in Copies : d \notin stale' /\ copy'[d] # None => Trusted(copy[d], d[1], Edited(d))'
  BY <1>2, <1>6 DEF Keeps, Trusted, SamePuts, Vouched, Agrees, Edited
<1>11. ASSUME req'[c].alone PROVE Trusted(answer, c[1], {})
  <2>1. \A d \in Copies : ~At(d, "assign")
    BY <1>4, <1>11 DEF Bodies
  <2>2. answer = settings
    <3>1. answer \in Mixtures({settings})
      BY <1>4, <1>11 DEF Readable
    <3> QED BY <3>1, MixtureOfOne DEF Inv, TypeOK
  <2>3. \A d \in Copies : Past(d) => settings = req[d].body /\ d[1] # c[1]
    BY <1>2 DEF Past, Putting, Begun, At, Inv, Effect, Keeps, OnePut, Others
  <2>4. \A d \in Copies : Begun(d) => Past(d)
    BY <2>1 DEF Begun, Past, At
  <2> QED BY <2>2, <2>3, <2>4 DEF Trusted, Agrees, Keeps
<1>12. \A d \in Copies : At(d, "loaded")' /\ req'[d].alone => Trusted(req[d].answer, d[1], {})'
  BY <1>4, <1>6, <1>11 DEF Keeps, Trusted, SamePuts, Vouched, Agrees, At, Others
<1>13. Overtaken'
  <2>1. \A d \in Copies : At(d, "assign")' <=> At(d, "assign")
    BY <1>2, <1>4 DEF At, Others
  <2>2. c \notin stale => req'[c].alone
    <3>1. \A d \in Copies : At(d, "assign") => d[1] # c[1]
      BY <1>2 DEF Keeps, OnePut, Putting, Others, At
    <3>2. c \notin stale => Bodies("assign", Copies) = {}
      BY <3>1 DEF Keeps, Overtaken, Bodies
    <3> QED BY <1>4, <3>2
  <2>3. \A d \in Others(c) : d \notin stale /\ At(d, "loaded")' => req'[d].alone
    BY <1>4 DEF Keeps, Overtaken, Others, At
  <2> QED BY <1>2, <2>1, <2>2, <2>3 DEF Keeps, Overtaken, Others
<1> QED BY <1>7, <1>8, <1>9, <1>10, <1>12, <1>13 DEF Keeps

LEMMA EncodeKeeps ==
  ASSUME Inv, Keeps, NEW c \in Copies, Encode(c)
  PROVE  Keeps'
<1>1. PICK answer \in Readable :
        req' = [req EXCEPT ![c].at = "saved", ![c].answer = answer]
  BY DEF Encode
<1>2. At(c, "encode") /\ UNCHANGED <<settings, intent, unsure, stale, copy, edited>>
  BY DEF Encode, server, pages, history
<1>3. req \in [Copies -> RequestRecord]
  BY DEF Inv, TypeOK, RequestRecord
<1>4. /\ req'[c].at = "saved" /\ req'[c].body = req[c].body /\ req'[c].claims = req[c].claims
      /\ req'[c].alone = req[c].alone
      /\ \A d \in Others(c) : req'[d] = req[d]
  BY <1>1, <1>3 DEF Others, RequestRecord
<1>5. Putting(c) /\ Putting(c)' /\ Begun(c) /\ Begun(c)' /\ Past(c) /\ Past(c)'
  BY <1>2, <1>4 DEF At, Putting, Begun, Past
<1>6. SamePuts
  BY <1>2, <1>4, <1>5 DEF SamePuts, Begun, Past, Others
<1>7. OnePut'
  BY <1>2, <1>4, <1>5 DEF Keeps, OnePut, Others, Putting, Begun, At
<1>8. (\A d \in Copies : ~Past(d)') => Vouched(settings, {})'
  BY <1>6 DEF Keeps, SamePuts, Vouched
<1>9. \A d \in Copies : Putting(d)' => Vouched(req[d].body, req[d].claims)'
  BY <1>2, <1>4, <1>5 DEF Keeps, Vouched, Others, Putting
<1>10. \A d \in Copies : d \notin stale' /\ copy'[d] # None => Trusted(copy[d], d[1], Edited(d))'
  BY <1>2, <1>6 DEF Keeps, Trusted, SamePuts, Vouched, Agrees, Edited
<1>11. \A d \in Copies : At(d, "loaded")' /\ req'[d].alone => Trusted(req[d].answer, d[1], {})'
  BY <1>4, <1>6 DEF Keeps, Trusted, SamePuts, Vouched, Agrees, At, Others
<1>12. Overtaken'
  BY <1>2, <1>4 DEF Keeps, Overtaken, Others, At
<1> QED BY <1>7, <1>8, <1>9, <1>10, <1>11, <1>12 DEF Keeps

LEMMA PutSettingsKeeps ==
  ASSUME Inv, Keeps, NEW c \in Copies, PutSettings(c)
  PROVE  Keeps'
<1>1. req' = [d \in Copies |->
        IF d = c THEN [req[c] EXCEPT !.at = "assign", !.alone = \A b \in Copies : ~Busy(b)]
        ELSE IF Busy(d) \/ req[d].at \in {"loaded", "encode", "saved"}
          THEN [req[d] EXCEPT !.alone = FALSE] ELSE req[d]]
  BY DEF PutSettings, Busy
<1>2. /\ At(c, "put") /\ UNCHANGED <<settings, intent, unsure, copy, edited>>
      /\ stale' = stale \cup {d \in Copies : d[1] # c[1]}
  BY DEF PutSettings, server, pages
<1>3. req \in [Copies -> RequestRecord]
  BY DEF Inv, TypeOK, RequestRecord
<1>4. /\ req'[c].at = "assign" /\ req'[c].body = req[c].body /\ req'[c].claims = req[c].claims
      /\ req'[c].alone = (\A b \in Copies : ~Busy(b))
      /\ \A d \in Others(c) : req'[d].at = req[d].at /\ (At(d, "loaded") => ~req'[d].alone)
  BY <1>1, <1>3 DEF Others, RequestRecord, At
<1>5. Putting(c) /\ \A d \in Others(c) : ~Putting(d) /\ (d[1] = c[1] => At(d, "idle"))
  BY <1>2 DEF At, Putting, Keeps, OnePut
<1>6. \A d \in Copies : ~Past(d) /\ ~Past(d)' /\ ~Busy(d) /\ (d # c => ~Begun(d)')
  BY <1>2, <1>4, <1>5 DEF At, Putting, Past, Busy, Begun, Others
<1>7. OnePut'
  <2>1. req'[c].alone
    BY <1>4, <1>6
  <2>2. \A d \in Others(c) : ~Putting(d)' /\ (d[1] = c[1] => At(d, "idle")')
    BY <1>4, <1>5 DEF Putting, At
  <2> QED BY <2>1, <2>2 DEF OnePut, Others
<1>8. Vouched(settings, {})'
  BY <1>2, <1>6 DEF Keeps, Vouched
<1>9. \A d \in Copies : Putting(d)' => Vouched(req[d].body, req[d].claims)'
  BY <1>2, <1>4, <1>5 DEF Keeps, Vouched, Others, Putting
<1>10. \A d \in Copies : d \notin stale' /\ copy'[d] # None => Trusted(copy[d], d[1], Edited(d))'
  <2> SUFFICES ASSUME NEW d \in Copies, d \notin stale', copy'[d] # None
               PROVE  Trusted(copy[d], d[1], Edited(d))'
    OBVIOUS
  <2>1. d[1] = c[1] /\ Vouched(copy[d], Edited(d))
    BY <1>2, <1>6, CopyVouched
  <2> QED BY <1>2, <1>6, <2>1 DEF Trusted, Vouched, Edited
<1>11. \A d \in Copies : At(d, "loaded")' => ~req'[d].alone
  BY <1>4 DEF At, Others
<1>12. Overtaken'
  BY <1>2, <1>4, <1>5 DEF Overtaken, Others, At, Putting
<1> QED BY <1>7, <1>8, <1>9, <1>10, <1>11, <1>12 DEF Keeps

LEMMA AssignedKeeps ==
  ASSUME Inv, Keeps, NEW c \in Copies, Assigned(c)
  PROVE  Keeps'
<1>1. /\ At(c, "assign") /\ Advance(c, "assign", "derive")
      /\ UNCHANGED <<intent, unsure, stale, copy, edited>>
  BY DEF Assigned, pages, history
<1>2. /\ req'[c].at = "derive" /\ req'[c].body = req[c].body /\ req'[c].alone = req[c].alone
      /\ \A d \in Others(c) :
           /\ req'[d].at = req[d].at /\ req'[d].body = req[d].body
           /\ req'[d].answer = req[d].answer /\ req'[d].alone = req[d].alone
  BY <1>1, Advanced DEF Assigned, history
<1>3. req'[c].claims = req[c].claims
  BY <1>1 DEF Advance, Inv, TypeOK
<1>4. Putting(c) /\ Begun(c) /\ ~Past(c) /\ req[c].alone
      /\ \A d \in Others(c) : ~Putting(d) /\ (d[1] = c[1] => At(d, "idle"))
  BY <1>1 DEF At, Putting, Begun, Past, Keeps, OnePut
<1>5. /\ Past(c)' /\ Begun(c)'
      /\ \A d \in Others(c) : ~Putting(d)' /\ ~Begun(d) /\ ~Begun(d)' /\ ~Past(d) /\ ~Past(d)'
  BY <1>2, <1>4 DEF Putting, Begun, Past
<1>6. OnePut'
  <2>1. req'[c].alone /\ \A d \in Others(c) : ~Putting(d)' /\ (d[1] = c[1] => At(d, "idle")')
    BY <1>2, <1>4, <1>5 DEF At
  <2> QED BY <2>1 DEF OnePut, Others
<1>7. \A d \in Copies : Putting(d)' => Vouched(req[d].body, req[d].claims)'
  BY <1>1, <1>2, <1>3, <1>4, <1>5 DEF Keeps, Vouched, Others
<1>8. \A d \in Copies : d \notin stale /\ copy[d] # None =>
        d[1] = c[1] /\ Vouched(copy[d], Edited(d))
  BY <1>4, <1>5 DEF Keeps, Trusted, Others
<1>9. \A d \in Copies : d \notin stale' /\ copy'[d] # None => Trusted(copy[d], d[1], Edited(d))'
  <2> SUFFICES ASSUME NEW d \in Copies, d \notin stale', copy'[d] # None
               PROVE  Trusted(copy[d], d[1], Edited(d))'
    OBVIOUS
  <2>1. d[1] = c[1] /\ Vouched(copy[d], Edited(d))'
    BY <1>1, <1>8 DEF Vouched, Edited
  <2>2. \A b \in Copies : Begun(b)' => b = c
    BY <1>5 DEF Others
  <2> QED BY <2>1, <2>2 DEF Trusted
<1>10. \A d \in Copies : ~(At(d, "loaded")' /\ req'[d].alone)
  <2> SUFFICES ASSUME NEW d \in Copies, At(d, "loaded")', req'[d].alone PROVE FALSE
    OBVIOUS
  <2>1. d \in Others(c) /\ At(d, "loaded") /\ req[d].alone
    BY <1>2 DEF At, Others
  <2>2. d[1] = c[1]
    BY <1>4, <2>1 DEF Keeps, Trusted
  <2> QED BY <1>4, <2>1, <2>2 DEF At
<1>11. Overtaken'
  BY <1>1, <1>2 DEF Keeps, Overtaken, Others, At
<1> QED BY <1>5, <1>6, <1>7, <1>9, <1>10, <1>11 DEF Keeps

LEMMA DerivedKeeps ==
  ASSUME Inv, Keeps, NEW c \in Copies, Derived(c)
  PROVE  Keeps'
<1>1. /\ At(c, "derive") /\ Advance(c, "derive", "encode")
      /\ UNCHANGED <<settings, intent, unsure, stale, copy, edited>>
  BY DEF Derived, pages, history
<1>2. /\ req'[c].at = "encode" /\ req'[c].body = req[c].body /\ req'[c].alone = req[c].alone
      /\ \A d \in Others(c) :
           /\ req'[d].at = req[d].at /\ req'[d].body = req[d].body
           /\ req'[d].answer = req[d].answer /\ req'[d].alone = req[d].alone
  BY <1>1, Advanced DEF Derived, history
<1>3. \A d \in Copies : req'[d].claims = req[d].claims
  BY <1>1 DEF Advance, Inv, TypeOK
<1>4. Putting(c) /\ Putting(c)' /\ Begun(c) /\ Begun(c)' /\ Past(c) /\ Past(c)'
  BY <1>1, <1>2 DEF At, Putting, Begun, Past
<1>5. SamePuts
  BY <1>1, <1>2, <1>4 DEF SamePuts, Begun, Past, Others
<1>6. OnePut'
  BY <1>1, <1>2, <1>4 DEF Keeps, OnePut, Others, Putting, Begun, At
<1>7. \A d \in Copies : Putting(d)' => Vouched(req[d].body, req[d].claims)'
  BY <1>1, <1>2, <1>3, <1>4 DEF Keeps, Vouched, Others, Putting
<1>8. \A d \in Copies : d \notin stale' /\ copy'[d] # None => Trusted(copy[d], d[1], Edited(d))'
  BY <1>1, <1>5 DEF Keeps, Trusted, SamePuts, Vouched, Agrees, Edited
<1>9. \A d \in Copies : At(d, "loaded")' /\ req'[d].alone => Trusted(req[d].answer, d[1], {})'
  BY <1>2, <1>5 DEF Keeps, Trusted, SamePuts, Vouched, Agrees, At, Others
<1>10. Overtaken'
  BY <1>1, <1>2 DEF Keeps, Overtaken, Others, At
<1> QED BY <1>4, <1>6, <1>7, <1>8, <1>9, <1>10 DEF Keeps

LEMMA LoadedKeeps ==
  ASSUME Inv, Keeps, NEW c \in Copies, Loaded(c)
  PROVE  Keeps'
<1>1. /\ At(c, "loaded") /\ req' = [req EXCEPT ![c] = NoRequest]
      /\ UNCHANGED <<settings, intent, unsure>>
      /\ stale' = IF req[c].alone THEN stale \ {c} ELSE stale
  BY DEF Loaded, server
<1>2. /\ req'[c] = NoRequest /\ NoRequest.at = "idle"
      /\ \A d \in Others(c) : req'[d] = req[d]
  BY <1>1 DEF Others, Inv, TypeOK, NoRequest
<1>3. ~Putting(c) /\ ~Putting(c)' /\ ~Begun(c) /\ ~Begun(c)' /\ ~Past(c) /\ ~Past(c)'
  BY <1>1, <1>2 DEF At, Putting, Begun, Past
<1>4. SamePuts
  BY <1>1, <1>2, <1>3 DEF SamePuts, Begun, Past, Others
<1>5. OnePut'
  BY <1>1, <1>2, <1>3 DEF Keeps, OnePut, Others, Putting, Begun, At
<1>6. Overtaken'
  <2>1. ~At(c, "assign")' /\ ~At(c, "loaded")'
    BY <1>2 DEF At
  <2>2. c \notin stale' => \A d \in Copies : At(d, "assign") => d[1] = c[1]
    <3>1. CASE req[c].alone
      BY <1>1, <3>1 DEF Keeps, Trusted, Begun, Past, At
    <3>2. CASE ~req[c].alone
      BY <1>1, <3>2 DEF Keeps, Overtaken
    <3> QED BY <3>1, <3>2
  <2> QED BY <1>1, <1>2, <2>1, <2>2 DEF Keeps, Overtaken, Others, At
<1>7. (\A d \in Copies : ~Past(d)') => Vouched(settings, {})'
  BY <1>4 DEF Keeps, SamePuts, Vouched
<1>8. \A d \in Copies : Putting(d)' => Vouched(req[d].body, req[d].claims)'
  BY <1>1, <1>2, <1>3 DEF Keeps, Vouched, Others, Putting
<1>9. \A d \in Copies : d \notin stale' /\ copy'[d] # None => Trusted(copy[d], d[1], Edited(d))'
  <2>1. CASE c[2] = "form" /\ c[1] \notin open
    <3>1. UNCHANGED <<copy, edited>>
      BY <2>1 DEF Loaded
    <3>2. c = Form(c[1]) /\ c[1] \in Tabs
      BY <2>1 DEF Form, Copies
    <3>3. copy[c] = None
      BY <2>1, <3>2 DEF Inv, TypeOK
    <3> QED BY <1>1, <1>4, <3>1, <3>3
            DEF Keeps, Trusted, SamePuts, Vouched, Agrees, Edited
  <2>2. CASE ~(c[2] = "form" /\ c[1] \notin open)
    <3>1. /\ copy' = [copy EXCEPT ![c] = req[c].answer]
          /\ edited' = [edited EXCEPT ![c[1]] = IF c[2] = "form" THEN {} ELSE @]
      BY <2>2 DEF Loaded
    <3>2. copy'[c] = req[c].answer /\ Edited(c)' = {}
      BY <3>1 DEF Inv, TypeOK, Edited, Copies
    <3>3. \A d \in Others(c) : copy'[d] = copy[d] /\ Edited(d)' = Edited(d)
      BY <3>1 DEF Inv, TypeOK, Edited, Copies, Others
    <3>4. c \notin stale' => Trusted(req[c].answer, c[1], {})
      BY <1>1 DEF Keeps, Overtaken
    <3>5. c \notin stale' => Trusted(copy[c], c[1], Edited(c))'
      BY <1>4, <3>2, <3>4 DEF Trusted, SamePuts, Vouched, Agrees
    <3>6. \A d \in Others(c) :
            d \notin stale' /\ copy'[d] # None => Trusted(copy[d], d[1], Edited(d))'
      BY <1>1, <1>4, <3>3 DEF Keeps, Trusted, SamePuts, Vouched, Agrees, Others
    <3> QED BY <3>5, <3>6 DEF Others
  <2> QED BY <2>1, <2>2
<1>10. \A d \in Copies : At(d, "loaded")' /\ req'[d].alone => Trusted(req[d].answer, d[1], {})'
  BY <1>2, <1>4 DEF Keeps, Trusted, SamePuts, Vouched, Agrees, At, Others
<1> QED BY <1>5, <1>6, <1>7, <1>8, <1>9, <1>10 DEF Keeps

(* The one PUT under way ends, its answer received or lost.                 *)
LEMMA PutEnds ==
  ASSUME Inv, Keeps, NEW c \in Copies, At(c, "saved"),
         req' = [req EXCEPT ![c] = NoRequest]
  PROVE  /\ req[c].alone /\ Past(c) /\ Begun(c) /\ settings = req[c].body
         /\ req[c].body \in Settings /\ req[c].answer = req[c].body
         /\ Vouched(req[c].body, req[c].claims)
         /\ \A d \in Copies : ~Putting(d)' /\ ~Begun(d)' /\ ~Past(d)' /\ (Past(d) => d = c)
         /\ req'[c].at = "idle"
         /\ \A d \in Others(c) : req'[d] = req[d] /\ (d[1] = c[1] => At(d, "idle"))
<1>1. /\ req'[c].at = "idle" /\ \A d \in Others(c) : req'[d] = req[d]
  BY DEF Others, Inv, TypeOK, NoRequest
<1>2. Putting(c) /\ Begun(c) /\ Past(c)
  BY DEF At, Putting, Begun, Past
<1>3. req[c].alone /\ \A d \in Others(c) : ~Putting(d) /\ (d[1] = c[1] => At(d, "idle"))
  BY <1>2 DEF Keeps, OnePut
<1>4. settings = req[c].body /\ req[c].answer = req[c].body /\ req[c].body \in Settings
  BY <1>2, <1>3 DEF Inv, Effect, TypeOK
<1>5. \A d \in Copies : ~Putting(d)' /\ ~Begun(d)' /\ ~Past(d)' /\ (Past(d) => d = c)
  BY <1>1, <1>3 DEF Putting, Begun, Past, Others
<1> QED BY <1>1, <1>2, <1>3, <1>4, <1>5 DEF Keeps

LEMMA SavedKeeps ==
  ASSUME Inv, Keeps, NEW c \in Copies, Saved(c)
  PROVE  Keeps'
<1> DEFINE body == req[c].body
           claims == req[c].claims
<1>1. /\ At(c, "saved") /\ req' = [req EXCEPT ![c] = NoRequest] /\ UNCHANGED settings
      /\ copy' = [d \in Copies |-> IF d[1] = c[1] /\ (d[2] = "shell" \/ c[1] \in open)
                                     THEN req[c].answer ELSE copy[d]]
      /\ edited' = [edited EXCEPT ![c[1]] = {}]
      /\ intent' = [f \in Fields |-> IF f \in claims THEN body[f] ELSE intent[f]]
      /\ unsure' = {u \in unsure : u[1] \notin claims}
      /\ stale' = LET mine == {c} \cup Siblings(c)
                  IN IF req[c].alone THEN stale \ mine ELSE stale \cup mine
  BY DEF Saved, SettingsSaved, server
<1>2. /\ req[c].alone /\ settings = body /\ req[c].answer = body
      /\ Past(c) /\ Begun(c) /\ Vouched(body, claims)
      /\ \A d \in Copies : ~Putting(d)' /\ ~Begun(d)' /\ ~Past(d)' /\ (Past(d) => d = c)
      /\ req'[c].at = "idle"
      /\ \A d \in Others(c) : req'[d] = req[d] /\ (d[1] = c[1] => At(d, "idle"))
  BY <1>1, PutEnds
<1>3. \A f \in Fields : body[f] = intent'[f] \/ <<f, body[f]>> \in unsure'
  BY <1>1, <1>2 DEF Vouched
<1>4. \A v, X : (\A f \in Fields \ X : v[f] = body[f]) =>
        \A f \in Fields \ X : v[f] = intent'[f] \/ <<f, v[f]>> \in unsure'
  BY <1>3
<1> HIDE DEF body, claims
<1>5. OnePut'
  BY <1>2 DEF OnePut
<1>6. Vouched(settings, {})'
  BY <1>1, <1>2, <1>3 DEF Vouched
<1>7. \A d \in Copies : d[1] = c[1] => ~At(d, "loaded")' /\ ~At(d, "assign")'
  BY <1>2 DEF At, Others
<1>8. \A d \in Copies : ~At(d, "assign")'
  BY <1>2 DEF At, Putting
<1>9. \A d \in Copies : d[1] # c[1] => req'[d] = req[d] /\ (d \notin stale' <=> d \notin stale)
  BY <1>1, <1>2 DEF Others, Siblings
<1>10. Overtaken'
  BY <1>7, <1>8, <1>9 DEF Keeps, Overtaken, At
<1>11. \A d \in Copies : d \notin stale' /\ copy'[d] # None => Trusted(copy[d], d[1], Edited(d))'
  <2> SUFFICES ASSUME NEW d \in Copies, d \notin stale', copy'[d] # None
               PROVE  Vouched(copy[d], Edited(d))'
    BY <1>2 DEF Trusted
  <2>1. CASE d[1] = c[1]
    <3>1. copy'[d] = body
      <4>1. CASE d[2] = "shell" \/ c[1] \in open
        BY <1>1, <1>2, <2>1, <4>1
      <4>2. CASE ~(d[2] = "shell" \/ c[1] \in open)
        <5>1. d = Form(c[1]) /\ c[1] \in Tabs
          BY <2>1, <4>2 DEF Form, Copies
        <5>2. copy[d] = None /\ copy'[d] = copy[d]
          BY <1>1, <4>2, <5>1 DEF Inv, TypeOK
        <5> QED BY <5>2
      <4> QED BY <4>1, <4>2
    <3> QED BY <1>3, <3>1 DEF Vouched
  <2>2. CASE d[1] # c[1]
    <3>1. copy'[d] = copy[d] /\ Edited(d)' = Edited(d)
      BY <1>1, <2>2 DEF Inv, TypeOK, Edited, Copies
    <3>2. Agrees(copy[d], body, Edited(d))
      BY <1>2, <1>9, <2>2, <3>1 DEF Keeps, Trusted, body
    <3> QED BY <1>4, <3>1, <3>2 DEF Agrees, Vouched
  <2> QED BY <2>1, <2>2
<1>12. \A d \in Copies : At(d, "loaded")' /\ req'[d].alone => Trusted(req[d].answer, d[1], {})'
  <2> SUFFICES ASSUME NEW d \in Copies, At(d, "loaded")', req'[d].alone
               PROVE  Vouched(req[d].answer, {})'
    BY <1>2 DEF Trusted
  <2>1. d[1] # c[1] /\ req'[d] = req[d]
    BY <1>7, <1>9
  <2>2. Agrees(req[d].answer, body, {})
    BY <1>2, <2>1 DEF Keeps, Trusted, At, body
  <2> QED BY <1>4, <2>1, <2>2 DEF Agrees, Vouched
<1> QED BY <1>2, <1>5, <1>6, <1>10, <1>11, <1>12 DEF Keeps

LEMMA FailsKeeps ==
  ASSUME Inv, Keeps, NEW c \in Copies, Fails(c)
  PROVE  Keeps'
<1>1. /\ req' = [req EXCEPT ![c] = NoRequest]
      /\ UNCHANGED <<settings, copy, edited, intent, stale>>
  BY DEF Fails, server, pages
<1>2. /\ req'[c] = NoRequest /\ NoRequest.at = "idle"
      /\ \A d \in Others(c) : req'[d] = req[d]
  BY <1>1 DEF Others, Inv, TypeOK, NoRequest
<1>3. CASE At(c, "saved")
  <2> DEFINE body == req[c].body
             claims == req[c].claims
  <2>1. unsure' = unsure \cup {<<f, body[f]>> : f \in claims}
    BY <1>3 DEF Fails
  <2>2. /\ settings = body /\ Past(c) /\ Begun(c) /\ Vouched(body, claims)
        /\ \A d \in Copies : ~Putting(d)' /\ ~Begun(d)' /\ ~Past(d)' /\ (Past(d) => d = c)
    BY <1>1, <1>3, PutEnds
  <2>3. \A f \in Fields : body[f] = intent'[f] \/ <<f, body[f]>> \in unsure'
    BY <1>1, <2>1, <2>2 DEF Vouched
  <2> HIDE DEF body, claims
  <2>4. \A v, t, X : Trusted(v, t, X) =>
          \A f \in Fields \ X : v[f] = intent'[f] \/ <<f, v[f]>> \in unsure'
    <3> SUFFICES ASSUME NEW v, NEW t, NEW X, Trusted(v, t, X), NEW f \in Fields \ X
                 PROVE  v[f] = intent'[f] \/ <<f, v[f]>> \in unsure'
      OBVIOUS
    <3>1. CASE c[1] # t
      BY <2>2, <2>3, <3>1 DEF Trusted, Agrees, body
    <3>2. CASE c[1] = t
      BY <1>1, <2>1, <2>2, <3>2 DEF Trusted, Vouched
    <3> QED BY <3>1, <3>2
  <2>5. OnePut'
    BY <2>2 DEF OnePut
  <2>6. Overtaken'
    BY <1>1, <1>2 DEF Keeps, Overtaken, Others, At
  <2>7. Vouched(settings, {})'
    BY <1>1, <2>2, <2>3 DEF Vouched
  <2>8. \A d \in Copies : d \notin stale' /\ copy'[d] # None => Vouched(copy[d], Edited(d))'
    BY <1>1, <2>4 DEF Keeps, Vouched, Edited
  <2>9. \A d \in Copies : At(d, "loaded")' /\ req'[d].alone => Vouched(req[d].answer, {})'
    BY <1>2, <2>4 DEF Keeps, Vouched, At, Others
  <2> QED BY <2>2, <2>5, <2>6, <2>7, <2>8, <2>9 DEF Keeps, Trusted
<1>4. CASE ~At(c, "saved")
  <2>1. unsure' = unsure
    BY <1>4 DEF Fails
  <2>2. ~Begun(c) /\ ~Begun(c)' /\ ~Past(c) /\ ~Past(c)' /\ ~Putting(c)'
    BY <1>2, <1>4 DEF Fails, At, Begun, Past, Putting
  <2>3. SamePuts
    BY <1>1, <1>2, <2>1, <2>2 DEF SamePuts, Begun, Past, Others
  <2>4. OnePut'
    BY <1>2, <2>2 DEF Keeps, OnePut, Others, Putting, Begun, At
  <2>5. Overtaken'
    BY <1>1, <1>2 DEF Keeps, Overtaken, Others, At
  <2>6. (\A d \in Copies : ~Past(d)') => Vouched(settings, {})'
    BY <2>3 DEF Keeps, SamePuts, Vouched
  <2>7. \A d \in Copies : Putting(d)' => Vouched(req[d].body, req[d].claims)'
    BY <1>1, <1>2, <2>1, <2>2 DEF Keeps, Vouched, Others, Putting
  <2>8. \A d \in Copies : d \notin stale' /\ copy'[d] # None => Trusted(copy[d], d[1], Edited(d))'
    BY <1>1, <2>3 DEF Keeps, Trusted, SamePuts, Vouched, Agrees, Edited
  <2>9. \A d \in Copies : At(d, "loaded")' /\ req'[d].alone => Trusted(req[d].answer, d[1], {})'
    BY <1>2, <2>3 DEF Keeps, Trusted, SamePuts, Vouched, Agrees, At, Others
  <2> QED BY <2>4, <2>5, <2>6, <2>7, <2>8, <2>9 DEF Keeps
<1> QED BY <1>3, <1>4

LEMMA InitKeeps == Init => Keeps
<1> SUFFICES ASSUME Init PROVE Keeps
  OBVIOUS
<1>1. \A c \in Copies : req[c].at = "idle" /\ copy[c] = None
  BY DEF Init, NoRequest
<1>2. intent = settings
  BY DEF Init
<1> QED BY <1>1, <1>2 DEF Keeps, OnePut, Overtaken, Vouched, Putting, Past, At

LEMMA NextKeeps == Inv /\ (~blind => Keeps) /\ [Next]_vars => (~blind' => Keeps')
<1> SUFFICES ASSUME Inv, ~blind => Keeps, [Next]_vars, ~blind' PROVE Keeps'
  OBVIOUS
<1>1. ASSUME NEW t \in Tabs, Page(t) PROVE Keeps'
  <2>1. ~blind
    BY <1>1 DEF Page, LoadShell, OpenPage, ClosePage, Edit, HandleSave, ToggleTheme,
                Get, Put, history, Inv, TypeOK
  <2> QED BY <1>1, <2>1, PageKeeps
<1>2. ASSUME NEW c \in Copies, Request(c) PROVE Keeps'
  <2>1. ~blind
    BY <1>2 DEF Request, GetSettings, Loaded, PutSettings, Assigned, Derived, Encode, Saved,
                Fails, history
  <2> QED BY <1>2, <2>1, GetSettingsKeeps, LoadedKeeps, PutSettingsKeeps, AssignedKeeps,
             DerivedKeeps, EncodeKeeps, SavedKeeps, FailsKeeps DEF Request
<1>3. CASE UNCHANGED vars
  BY <1>3 DEF vars, server, pages, history, Keeps, OnePut, Overtaken, Trusted, Vouched,
              Agrees, Edited, Putting, Begun, Past, At
<1> QED BY <1>1, <1>2, <1>3 DEF Next

(* Users who send from copies no other tab has overtaken, one request at a  *)
(* time where two could cross, lose nothing: the settings are what they set *)
(* one after another, whatever fails (handleSave, toggleTheme, the          *)
(* listeners of SETTINGS_SAVED_EVENT and putSettings together).             *)
THEOREM NothingIsLost == Spec => []NothingLost
<1>1. Inv /\ (~blind => Keeps) => NothingLost
  BY DEF NothingLost, Keeps, Vouched, Past, Putting
<1> QED BY InitInv, NextInv, InitKeeps, NextKeeps, <1>1, PTL DEF Spec
=============================================================================
