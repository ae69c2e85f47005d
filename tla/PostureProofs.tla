---------------------------- MODULE PostureProofs ----------------------------
(***************************************************************************)
(* What the API exposes, for every environment, file and number of edits:  *)
(* the types, and what makes the properties of Posture inductive. A served *)
(* container was loaded, was announced, and, while the file is as it was   *)
(* when the posture was decided, binds what the posture was decided for.   *)
(***************************************************************************)
EXTENDS Posture, TLAPS

(* A container in use passed the checks of Settings.load() and was named   *)
(* in the log, and screens unless the environment says "off"; a process    *)
(* that is down has none.                                                  *)
ContainerSound ==
  /\ proc = "down" => container = NoSettings
  /\ container # NoSettings =>
       /\ ControlsConfigured(container)
       /\ SwitchedOff(container) \subseteq announced
       /\ env.profile = "unset" => ~container.explicit
       /\ container.screened <=> env.guardrail # "off"

(* A posture nobody chose relaxes nothing. *)
PostureSound ==
  env.profile = "unset" =>
    ~posture.explicit /\ posture.exposure = "unconfigured" /\ ~posture.verified

Verifying(s) == s.identity[s.profile] \in {"iap", "client_idp"}

(* Until the file is edited between the readings, what the guard was built *)
(* with is what serves, or will.                                           *)
ReadingsAgree ==
  proc = "up" /\ ~stale =>
    /\ container = NoSettings => posture = PostureOf(env, file)
    /\ container # NoSettings /\ posture.verified => Verifying(container)

-----------------------------------------------------------------------------
(* Settings that load are settings. *)
LEMMA LoadedIsSettings ==
  ASSUME NEW e \in Environments, NEW f \in Files, Loads(e, f)
  PROVE  /\ ReadSettings(e, f) \in SettingsSet
         /\ ReadSettings(e, f) # NoSettings
         /\ ControlsConfigured(ReadSettings(e, f))
         /\ e.profile = "unset" => ~ReadSettings(e, f).explicit
         /\ ReadSettings(e, f).screened <=> e.guardrail # "off"
<1>1. Profile(e) \in KnownProfiles
  BY DEF Loads, ProfileResolves, Profile, Explicit, KnownProfiles
<1>2. ReadSettings(e, f) \in SettingsSet
  BY <1>1 DEF ReadSettings, SettingsSet, Explicit
<1>3. QED
  BY <1>2, NoSettingsAssumption DEF Loads, ReadSettings, Explicit

(* A request changes no part of the process, and the container only by     *)
(* using it.                                                               *)
LEMMA ServeUses ==
  ASSUME NEW peer \in Peers, Serve(peer)
  PROVE  /\ UNCHANGED process
         /\ \/ UNCHANGED <<container, announced>>
            \/ HasContainer /\ UseContainer
BY DEF Serve, Guarded, Broken, Health, Docs, Personas, Ping, Evaluate

(* Using the container gives the settings it had, or those just read.      *)
LEMMA UsedContainer ==
  ASSUME TypeOK, ContainerSound, HasContainer, UseContainer
  PROVE  /\ container' = Settings /\ container' \in SettingsSet /\ container' # NoSettings
         /\ ControlsConfigured(container')
         /\ SwitchedOff(container') \subseteq announced'
         /\ announced \subseteq announced' /\ announced' \subseteq Switches
         /\ env.profile = "unset" => ~container'.explicit
         /\ container'.screened <=> env.guardrail # "off"
<1>1. container' = Settings /\ announced' = announced \cup SwitchedOff(Settings)
  BY DEF UseContainer
<1>2. SwitchedOff(Settings) \subseteq Switches
  BY DEF SwitchedOff
<1>3. CASE container # NoSettings
  BY <1>1, <1>2, <1>3 DEF Settings, TypeOK, ContainerSound
<1>4. CASE container = NoSettings
  <2>1. Loads(env, file) /\ Settings = ReadSettings(env, file)
    BY <1>4 DEF HasContainer, Settings
  <2>2. QED
    BY <1>1, <1>2, <2>1, LoadedIsSettings DEF TypeOK
<1>5. QED
  BY <1>3, <1>4

(* What a caller is told about himself. *)
LEMMA PrincipalType ==
  ASSUME NEW s, NEW header
  PROVE  /\ Principal(s, header).status \in {200, 401, 501, 503}
         /\ Principal(s, header).as \in Callers
         /\ Principal(s, header).reason \in {"ok", "unavailable", "caller"}
         /\ Principal(s, header).as \in {"nobody", "persona", "verified"}
         /\ Principal(s, header).as = "persona" => s.profile = "local" /\ s.explicit
         /\ Principal(s, header).status = 200 <=> Principal(s, header).reason = "ok"
BY DEF Principal, ResolvePersona, ResolveIap, ResolveClient, Refusal, Resolved, Callers

-----------------------------------------------------------------------------
LEMMA NoAnswerType == NoAnswer \in AnswerSet
BY DEF NoAnswer, AnswerSet, Peers, Callers

LEMMA TypeInit == Init => TypeOK
<1> SUFFICES ASSUME Init PROVE TypeOK
  OBVIOUS
<1>1. posture \in PostureSet
  BY DEF Init, PostureSet, KnownProfiles
<1>2. edits \in 0..MaxEdits
  BY PostureAssumption DEF Init
<1>3. answer \in AnswerSet
  BY NoAnswerType DEF Init
<1>4. QED
  BY <1>1, <1>2, <1>3 DEF Init, TypeOK

(* An answer has a route, a peer and a result of their kinds. *)
LEMMA AnswerType ==
  ASSUME TypeOK, NEW peer \in Peers, Serve(peer)
  PROVE  answer' \in AnswerSet
<1>1. CASE \E route \in {"health", "docs", "personas", "ping", "evaluate"} : Guarded(route, peer)
  BY <1>1 DEF Guarded, Answer, AnswerSet, Refusal, Callers
<1>2. CASE \E route \in {"health", "personas", "evaluate"} : Broken(route, peer)
  BY <1>2 DEF Broken, Answer, AnswerSet, Refusal, Callers
<1>3. CASE Health(peer)
  BY <1>3 DEF Health, Answer, AnswerSet, Resolved, Callers
<1>4. CASE Docs(peer)
  BY <1>4 DEF Docs, Answer, AnswerSet, Resolved, Refusal, Callers
<1>5. CASE Personas(peer)
  BY <1>5 DEF Personas, Answer, AnswerSet, Resolved, Refusal, Callers
<1>6. CASE Ping(peer)
  BY <1>6 DEF Ping, Answer, AnswerSet, Resolved, Refusal, Callers
<1>7. CASE \E header \in Headers : Evaluate(peer, header)
  <2>1. PICK header \in Headers : Evaluate(peer, header)
    BY <1>7
  <2>2. CASE Principal(Settings, header).status # 200
    <3>1. Answer("evaluate", peer, Principal(Settings, header))
      BY <2>1, <2>2 DEF Evaluate
    <3>2. QED
      BY <3>1, PrincipalType DEF Answer, AnswerSet
  <2>3. CASE Principal(Settings, header).status = 200
    <3>1. PICK tripped \in SUBSET Filters : \E passed \in Screens(Settings, tripped) :
            answer' =
              [route |-> "evaluate", peer |-> peer, status |-> 200,
               as |-> Principal(Settings, header).as, reason |-> "ok",
               passed |-> passed, tripped |-> tripped # {}]
      BY <2>1, <2>3 DEF Evaluate
    <3>2. Screens(Settings, tripped) \subseteq BOOLEAN
      BY DEF Screens, Screen
    <3>3. QED
      BY <3>1, <3>2, PrincipalType DEF AnswerSet
  <2>4. QED
    BY <2>2, <2>3
<1>8. QED
  BY <1>1, <1>2, <1>3, <1>4, <1>5, <1>6, <1>7 DEF Serve

(* A boot decides a posture, from the profile it resolved.                 *)
LEMMA BootPosture ==
  ASSUME TypeOK, ProfileResolves(env), posture' = PostureOf(env, file)
  PROVE  /\ posture' \in PostureSet
         /\ env.profile = "unset" =>
              ~posture'.explicit /\ posture'.exposure = "unconfigured" /\ ~posture'.verified
         /\ posture'.bind = "local" \/ posture'.verified
<1>1. /\ ExposureProfile(env) \in KnownProfiles \cup {"unconfigured"}
      /\ BindProfile(env) \in KnownProfiles
      /\ env.profile = "unset" => ExposureProfile(env) = "unconfigured"
  BY DEF ProfileResolves, ExposureProfile, BindProfile, Explicit, KnownProfiles
<1>2. QED
  BY <1>1 DEF PostureOf, PostureSet, Explicit, KnownProfiles

-----------------------------------------------------------------------------
(* Loading, announcing and the posture that nobody chose.                  *)
LEMMA SoundStep ==
  ASSUME TypeOK, ContainerSound, PostureSound, [Next]_vars
  PROVE  TypeOK' /\ ContainerSound' /\ PostureSound'
<1>1. CASE BootRefused
  BY <1>1 DEF BootRefused, TypeOK, ContainerSound, PostureSound
<1>2. CASE Edit
  BY <1>2, PostureAssumption DEF Edit, TypeOK, ContainerSound, PostureSound
<1>3. CASE Stop
  BY <1>3, NoAnswerType DEF Stop, TypeOK, ContainerSound, PostureSound
<1>4. ASSUME NEW entry \in {"main", "image"}, Boot(entry)
      PROVE  TypeOK' /\ ContainerSound' /\ PostureSound'
  <2>1. posture' = PostureOf(env, file) /\ ProfileResolves(env)
    BY <1>4 DEF Boot
  <2>2. /\ UNCHANGED <<env, file, edits, container, announced, stale, answer>>
        /\ proc' = "up" /\ proc = "down" /\ host' \in {"loopback", "main", "image"}
    BY <1>4 DEF Boot
  <2>3. QED
    BY <2>1, <2>2, BootPosture DEF TypeOK, ContainerSound, PostureSound
<1>5. ASSUME NEW peer \in Peers, Serve(peer)
      PROVE  TypeOK' /\ ContainerSound' /\ PostureSound'
  <2>1. UNCHANGED process
    BY <1>5, ServeUses
  <2>2. CASE UNCHANGED <<container, announced>>
    BY <2>1, <2>2, <1>5, AnswerType DEF TypeOK, ContainerSound, PostureSound, process
  <2>3. CASE HasContainer /\ UseContainer
    <3>1. proc = "up"
      BY <1>5 DEF Serve, Guarded, Broken, Health, Docs, Personas, Ping, Evaluate, Admitted, Reaches
    <3>2. QED
      BY <2>1, <2>3, <3>1, <1>5, AnswerType, UsedContainer
         DEF TypeOK, ContainerSound, PostureSound, process
  <2>4. QED
    BY <1>5, <2>2, <2>3, ServeUses
<1>6. CASE UNCHANGED vars
  BY <1>6 DEF vars, TypeOK, ContainerSound, PostureSound
<1>7. QED
  BY <1>1, <1>2, <1>3, <1>4, <1>5, <1>6 DEF Next

LEMMA SoundInit == Init => ContainerSound /\ PostureSound
BY DEF Init, ContainerSound, PostureSound

(* A container in use was loaded and announced, and a posture nobody chose *)
(* relaxes nothing (config.py 206-235 and 779-794).                        *)
LEMMA SoundAlways == Spec => [](TypeOK /\ ContainerSound /\ PostureSound)
<1>1. Init => TypeOK /\ ContainerSound /\ PostureSound
  BY TypeInit, SoundInit
<1>2. TypeOK /\ ContainerSound /\ PostureSound /\ [Next]_vars
        => TypeOK' /\ ContainerSound' /\ PostureSound'
  BY SoundStep
<1>3. QED
  BY <1>1, <1>2, PTL DEF Spec

(* Type correctness: every variable keeps a value of its kind, in          *)
(* particular a container in use is one of the settings that load          *)
(* (config.py 631-658, api/app.py 111-113).                                *)
THEOREM PostureTypeCorrect == Spec => []TypeOK
BY SoundAlways, PTL

-----------------------------------------------------------------------------
LEMMA BindStep ==
  ASSUME TypeOK, BindAgreesWithGuard, [Next]_vars
  PROVE  BindAgreesWithGuard'
<1>1. CASE BootRefused \/ Edit \/ Stop \/ UNCHANGED vars
  BY <1>1 DEF BootRefused, Edit, Stop, vars, BindAgreesWithGuard, GuardRefuses
<1>2. ASSUME NEW entry \in {"main", "image"}, Boot(entry)
      PROVE  BindAgreesWithGuard'
  <2>1. posture'.bind = "local" \/ posture'.verified
    BY <1>2, BootPosture DEF Boot
  <2>2. host' = "main" => posture'.bind # "local" \/ env.insecure
    BY <1>2 DEF Boot
  <2>3. env.insecure' = env.insecure
    BY <1>2 DEF Boot
  <2>4. posture'.bind = "local" => host' # "main" \/ env.insecure
    BY <2>2
  <2>5. QED
    BY <2>1, <2>2, <2>3 DEF BindAgreesWithGuard, GuardRefuses
<1>3. ASSUME NEW peer \in Peers, Serve(peer)
      PROVE  BindAgreesWithGuard'
  BY <1>3, ServeUses DEF process, BindAgreesWithGuard, GuardRefuses
<1>4. QED
  BY <1>1, <1>2, <1>3 DEF Next

(* The command never listens on every interface to refuse every caller on  *)
(* it, in any environment and over any file (api/app.py 270-291).          *)
THEOREM BindNeverRefusesAll == Spec => []BindAgreesWithGuard
<1>1. Init => BindAgreesWithGuard
  BY DEF Init, BindAgreesWithGuard
<1>2. TypeOK /\ BindAgreesWithGuard /\ [Next]_vars => BindAgreesWithGuard'
  BY BindStep
<1>3. QED
  BY <1>1, <1>2, PostureTypeCorrect, PTL DEF Spec

-----------------------------------------------------------------------------
(* An evaluation answers what its caller resolved to, by the container it  *)
(* is served by, and screened a text only for someone who resolved.        *)
LEMMA EvaluateAnswers ==
  ASSUME TypeOK, ContainerSound, NEW peer \in Peers, NEW header \in Headers,
         Evaluate(peer, header)
  PROVE  /\ HasContainer /\ UseContainer /\ container' = Settings
         /\ answer'.route = "evaluate" /\ answer'.peer = peer
         /\ answer'.status = Principal(container', header).status
         /\ answer'.as = Principal(container', header).as
         /\ answer'.reason = Principal(container', header).reason
         /\ \/ ~answer'.passed
            \/ \E tripped \in SUBSET Filters :
                 /\ answer'.passed \in Screens(container', tripped)
                 /\ answer'.tripped = (tripped # {})
<1>1. HasContainer /\ UseContainer /\ container' = Settings
  BY UsedContainer DEF Evaluate
<1>2. CASE Principal(Settings, header).status # 200
  <2>1. Answer("evaluate", peer, Principal(Settings, header))
    BY <1>2 DEF Evaluate
  <2>2. QED
    BY <1>1, <2>1 DEF Answer
<1>3. CASE Principal(Settings, header).status = 200
  <2>1. PICK tripped \in SUBSET Filters : \E passed \in Screens(Settings, tripped) :
          answer' =
            [route |-> "evaluate", peer |-> peer, status |-> 200,
             as |-> Principal(Settings, header).as, reason |-> "ok",
             passed |-> passed, tripped |-> tripped # {}]
    BY <1>3 DEF Evaluate
  <2>2. Principal(Settings, header).reason = "ok"
    BY <1>3, PrincipalType
  <2>3. QED
    BY <1>1, <1>3, <2>1, <2>2
<1>4. QED
  BY <1>2, <1>3

-----------------------------------------------------------------------------
LEMMA UnchosenStep ==
  ASSUME TypeOK, ContainerSound, PostureSound, UnchosenGrantsNothing, [Next]_vars
  PROVE  UnchosenGrantsNothing'
<1>1. CASE BootRefused \/ Edit \/ UNCHANGED vars
  BY <1>1 DEF BootRefused, Edit, vars, UnchosenGrantsNothing
<1>2. CASE Stop
  BY <1>2 DEF Stop, NoAnswer, UnchosenGrantsNothing
<1>3. ASSUME NEW entry \in {"main", "image"}, Boot(entry)
      PROVE  UnchosenGrantsNothing'
  BY <1>3 DEF Boot, UnchosenGrantsNothing
<1>4. ASSUME NEW peer \in Peers, Serve(peer)
      PROVE  UnchosenGrantsNothing'
  <2>1. env' = env
    BY <1>4, ServeUses DEF process
  <2>2. SUFFICES ASSUME env.profile = "unset"
        PROVE  /\ answer'.as \notin {"persona", "service", "anyone"}
               /\ answer'.route = "docs" => answer'.status # 200
               /\ answer'.peer = "lan" => answer'.reason = "guard" \/ env.insecure
    BY <2>1 DEF UnchosenGrantsNothing
  <2>3. ~posture.explicit /\ posture.exposure = "unconfigured" /\ ~posture.verified
    BY <2>2 DEF PostureSound
  <2>4. HasContainer /\ UseContainer => container' = Settings /\ ~container'.explicit
    BY <2>2, UsedContainer
  <2>5. Admitted(peer) => (peer = "lan" => env.insecure)
    BY <2>3 DEF Admitted, GuardRefuses
  <2>6. CASE \E route \in {"health", "docs", "personas", "ping", "evaluate"} :
               Guarded(route, peer)
    BY <2>6 DEF Guarded, Answer, Refusal
  <2>7. CASE \E route \in {"health", "personas", "evaluate"} : Broken(route, peer)
    BY <2>5, <2>7 DEF Broken, Answer, Refusal
  <2>8. CASE Health(peer)
    BY <2>5, <2>8 DEF Health, Answer, Resolved
  <2>9. CASE Docs(peer)
    BY <2>3, <2>5, <2>9 DEF Docs, Answer, Refusal
  <2>10. CASE Personas(peer)
    BY <2>4, <2>5, <2>10 DEF Personas, Answer, Resolved, Refusal
  <2>11. CASE Ping(peer)
    BY <2>3, <2>5, <2>11 DEF Ping, Answer, Refusal
  <2>12. CASE \E header \in Headers : Evaluate(peer, header)
    <3>1. PICK header \in Headers : Evaluate(peer, header)
      BY <2>12
    <3>2. Principal(container', header).as \in {"nobody", "verified"}
      <4>1. ~container'.explicit
        BY <2>4, <3>1, EvaluateAnswers
      <4>2. QED
        BY <4>1, PrincipalType
    <3>3. Admitted(peer)
      BY <3>1 DEF Evaluate
    <3>4. QED
      BY <2>5, <3>1, <3>2, <3>3, EvaluateAnswers
  <2>13. QED
    BY <1>4, <2>6, <2>7, <2>8, <2>9, <2>10, <2>11, <2>12 DEF Serve
<1>5. QED
  BY <1>1, <1>2, <1>3, <1>4 DEF Next

(* A profile nobody chose grants nothing, whatever else the environment    *)
(* and the file say, before and after any edit (config.py 206-235).        *)
THEOREM UnchosenIsConfined == Spec => []UnchosenGrantsNothing
<1>1. Init => UnchosenGrantsNothing
  BY DEF Init, NoAnswer, UnchosenGrantsNothing
<1>2. TypeOK /\ ContainerSound /\ PostureSound /\ UnchosenGrantsNothing /\ [Next]_vars
        => UnchosenGrantsNothing'
  BY UnchosenStep
<1>3. QED
  BY <1>1, <1>2, SoundAlways, PTL DEF Spec

-----------------------------------------------------------------------------
(* What a binding that declares verification is. *)
LEMMA VerifiedReading ==
  ASSUME NEW e, NEW f, PostureOf(e, f).verified, Loads(e, f)
  PROVE  Verifying(ReadSettings(e, f))
<1>1. EndUserAuthKind(e, f) = "verified"
  BY DEF PostureOf
<1>2. Declared(ReadSettings(e, f).identity[Profile(e)]) = "verified"
  BY <1>1 DEF EndUserAuthKind
<1>3. ReadSettings(e, f).profile = Profile(e)
  BY DEF ReadSettings
<1>4. QED
  BY <1>2, <1>3 DEF Declared, Verifying

LEMMA ReadingsStep ==
  ASSUME TypeOK, ContainerSound, ReadingsAgree, [Next]_vars
  PROVE  ReadingsAgree'
<1>1. CASE BootRefused \/ Stop
  BY <1>1 DEF BootRefused, Stop, ReadingsAgree
<1>2. CASE Edit
  BY <1>2 DEF Edit, TypeOK, ReadingsAgree, Verifying
<1>3. ASSUME NEW entry \in {"main", "image"}, Boot(entry)
      PROVE  ReadingsAgree'
  <2>1. container' = NoSettings
    BY <1>3 DEF Boot, ContainerSound
  <2>2. posture' = PostureOf(env, file) /\ env' = env /\ file' = file
    BY <1>3 DEF Boot
  <2>3. PostureOf(env', file') = PostureOf(env, file)
    BY <2>2
  <2>4. QED
    BY <2>1, <2>2, <2>3 DEF ReadingsAgree
<1>4. ASSUME NEW peer \in Peers, Serve(peer)
      PROVE  ReadingsAgree'
  <2>1. UNCHANGED process
    BY <1>4, ServeUses
  <2>2. PostureOf(env', file') = PostureOf(env, file)
    BY <2>1 DEF process
  <2>3. CASE UNCHANGED <<container, announced>>
    BY <2>1, <2>2, <2>3 DEF ReadingsAgree, process, Verifying
  <2>4. CASE HasContainer /\ UseContainer
    <3>1. container' = Settings /\ container' # NoSettings
      BY <2>4, UsedContainer
    <3>2. CASE container # NoSettings
      BY <2>1, <3>1, <3>2 DEF ReadingsAgree, Settings, process, Verifying
    <3>3. CASE container = NoSettings
      <4>1. Loads(env, file) /\ container' = ReadSettings(env, file)
        BY <2>4, <3>1, <3>3 DEF HasContainer, Settings
      <4>2. SUFFICES ASSUME proc = "up", ~stale, posture.verified
            PROVE  Verifying(container')
        BY <2>1, <3>1 DEF ReadingsAgree, process, Verifying
      <4>3. posture = PostureOf(env, file)
        BY <3>3, <4>2 DEF ReadingsAgree
      <4>4. QED
        BY <4>1, <4>2, <4>3, VerifiedReading
    <3>4. QED
      BY <3>2, <3>3
  <2>5. QED
    BY <1>4, <2>3, <2>4, ServeUses
<1>5. CASE UNCHANGED vars
  <2>1. PostureOf(env', file') = PostureOf(env, file)
    BY <1>5 DEF vars
  <2>2. QED
    BY <1>5, <2>1 DEF vars, ReadingsAgree, Verifying
<1>6. QED
  BY <1>1, <1>2, <1>3, <1>4, <1>5 DEF Next

(* Only Personas and Evaluate answer about a person with success.          *)
LEMMA AboutAPerson ==
  ASSUME TypeOK, ContainerSound, NEW peer \in Peers, Serve(peer),
         answer'.route \in {"evaluate", "personas"}, answer'.status = 200
  PROVE  Admitted(peer) /\ HasContainer /\ UseContainer /\ answer'.peer = peer
<1>1. ~ \E route \in {"health", "docs", "personas", "ping", "evaluate"} : Guarded(route, peer)
  BY DEF Guarded, Answer, Refusal
<1>2. ~ \E route \in {"health", "personas", "evaluate"} : Broken(route, peer)
  BY DEF Broken, Answer, Refusal
<1>3. ~Health(peer) /\ ~Docs(peer) /\ ~Ping(peer)
  BY DEF Health, Docs, Ping, Answer
<1>4. CASE Personas(peer)
  BY <1>4 DEF Personas, Answer
<1>5. CASE \E header \in Headers : Evaluate(peer, header)
  <2>1. PICK header \in Headers : Evaluate(peer, header)
    BY <1>5
  <2>2. Admitted(peer)
    BY <2>1 DEF Evaluate
  <2>3. QED
    BY <2>1, <2>2, EvaluateAnswers
<1>6. QED
  BY <1>1, <1>2, <1>3, <1>4, <1>5 DEF Serve

LEMMA OffHostStep ==
  ASSUME TypeOK, ContainerSound, ReadingsAgree, ReadingsAgree', OffHostIsVerified, [Next]_vars
  PROVE  OffHostIsVerified'
<1>1. CASE BootRefused \/ UNCHANGED vars
  BY <1>1 DEF BootRefused, vars, OffHostIsVerified
<1>2. CASE Edit
  BY <1>2 DEF Edit, TypeOK, OffHostIsVerified
<1>3. CASE Stop
  BY <1>3 DEF Stop, NoAnswer, OffHostIsVerified
<1>4. ASSUME NEW entry \in {"main", "image"}, Boot(entry)
      PROVE  OffHostIsVerified'
  BY <1>4 DEF Boot, OffHostIsVerified
<1>5. ASSUME NEW peer \in Peers, Serve(peer)
      PROVE  OffHostIsVerified'
  <2>1. UNCHANGED process
    BY <1>5, ServeUses
  <2>2. SUFFICES ASSUME answer'.peer = "lan", ~env.insecure, ~stale,
                        answer'.route \in {"evaluate", "personas"}, answer'.status = 200
        PROVE  Verifying(container')
    BY <2>1 DEF OffHostIsVerified, process, Verifying
  <2>3. Admitted(peer) /\ HasContainer /\ UseContainer /\ peer = "lan"
    BY <1>5, <2>2, AboutAPerson
  <2>4. proc = "up" /\ posture.verified
    BY <2>2, <2>3 DEF Admitted, Reaches, GuardRefuses
  <2>5. container' # NoSettings
    BY <2>3, UsedContainer
  <2>6. QED
    BY <2>1, <2>2, <2>4, <2>5 DEF ReadingsAgree, process, Verifying
<1>6. QED
  BY <1>1, <1>2, <1>3, <1>4, <1>5 DEF Next

(* No other host is answered about a person through an identity adapter    *)
(* that verifies nobody, unless the operator took the exposure or edited   *)
(* the file between its two readings (api/app.py 248-291).                 *)
THEOREM OffHostCallersAreVerified == Spec => []OffHostIsVerified
<1>1. Init => ReadingsAgree /\ OffHostIsVerified
  BY DEF Init, NoAnswer, ReadingsAgree, OffHostIsVerified
<1>2. TypeOK /\ ContainerSound /\ ReadingsAgree /\ [Next]_vars => ReadingsAgree'
  BY ReadingsStep
<1>3. TypeOK /\ ContainerSound /\ ReadingsAgree /\ ReadingsAgree' /\ OffHostIsVerified
        /\ [Next]_vars => OffHostIsVerified'
  BY OffHostStep
<1>4. QED
  BY <1>1, <1>2, <1>3, SoundAlways, PTL DEF Spec

-----------------------------------------------------------------------------
LEMMA ServedStep ==
  ASSUME TypeOK, ContainerSound, ServedControlsWork, [Next]_vars
  PROVE  ServedControlsWork'
<1>1. CASE BootRefused \/ Edit \/ UNCHANGED vars
  BY <1>1 DEF BootRefused, Edit, vars, ServedControlsWork, SwitchedOff
<1>2. CASE Stop
  BY <1>2 DEF Stop, NoAnswer, ServedControlsWork
<1>3. ASSUME NEW entry \in {"main", "image"}, Boot(entry)
      PROVE  ServedControlsWork'
  BY <1>3 DEF Boot, ServedControlsWork, SwitchedOff
<1>4. ASSUME NEW peer \in Peers, Serve(peer)
      PROVE  ServedControlsWork'
  <2>1. SUFFICES ASSUME answer'.route = "evaluate", answer'.status = 200
        PROVE  /\ container'.profile = "gcp" /\ container'.routing => container'.console
               /\ container'.profile = "gcp" /\ container'.screened => container'.template
               /\ SwitchedOff(container') \subseteq announced'
    BY DEF ServedControlsWork, SwitchedOff
  <2>2. HasContainer /\ UseContainer
    BY <1>4, <2>1, AboutAPerson
  <2>3. ControlsConfigured(container') /\ SwitchedOff(container') \subseteq announced'
    BY <2>2, UsedContainer
  <2>4. QED
    BY <2>3 DEF ControlsConfigured
<1>5. QED
  BY <1>1, <1>2, <1>3, <1>4 DEF Next

(* Whoever is answered with a decision was served by controls that can     *)
(* work, or that the log says are off (config.py 661-688 and 779-794).     *)
THEOREM DecisionsAreControlled == Spec => []ServedControlsWork
<1>1. Init => ServedControlsWork
  BY DEF Init, NoAnswer, ServedControlsWork
<1>2. TypeOK /\ ContainerSound /\ ServedControlsWork /\ [Next]_vars => ServedControlsWork'
  BY ServedStep
<1>3. QED
  BY <1>1, <1>2, SoundAlways, PTL DEF Spec

-----------------------------------------------------------------------------
(* A complete screen without a match has looked with every filter; what    *)
(* a skipped filter would have found is never taken for clean.             *)
LEMMA CompleteScreenIsClean ==
  ASSUME NEW tripped \in SUBSET Filters, NEW ran \in SUBSET Filters,
         NEW report \in Reports(tripped, ran), ScreenAllows(report)
  PROVE  tripped = {}
<1>1. ran = Filters /\ tripped \cap ran = {}
  BY DEF Reports, ScreenAllows
<1>. QED  BY <1>1

LEMMA TrippingStep ==
  ASSUME TypeOK, ContainerSound, TrippingTextIsStopped, [Next]_vars
  PROVE  TrippingTextIsStopped'
<1>1. CASE BootRefused \/ Edit \/ UNCHANGED vars
  BY <1>1 DEF BootRefused, Edit, vars, TrippingTextIsStopped
<1>2. CASE Stop
  BY <1>2 DEF Stop, NoAnswer, TrippingTextIsStopped
<1>3. ASSUME NEW entry \in {"main", "image"}, Boot(entry)
      PROVE  TrippingTextIsStopped'
  BY <1>3 DEF Boot, TrippingTextIsStopped
<1>4. ASSUME NEW peer \in Peers, Serve(peer)
      PROVE  TrippingTextIsStopped'
  <2>1. CASE \E header \in Headers : Evaluate(peer, header)
    <3>1. PICK header \in Headers : Evaluate(peer, header)
      BY <2>1
    <3>2. SUFFICES ASSUME answer'.passed, answer'.tripped
          PROVE  env'.guardrail = "off"
      BY DEF TrippingTextIsStopped
    <3>3. PICK tripped \in SUBSET Filters :
            answer'.passed \in Screens(container', tripped) /\ answer'.tripped = (tripped # {})
      BY <3>1, <3>2, EvaluateAnswers
    <3>4. PICK ran \in SUBSET Filters : \E report \in Reports(tripped, ran) :
            Screen(container', tripped, report)
      BY <3>2, <3>3 DEF Screens
    <3>5. (container'.screened <=> env.guardrail # "off") /\ env' = env
      BY <3>1, EvaluateAnswers, UsedContainer DEF Evaluate, process
    <3>6. ~container'.screened
      BY <3>2, <3>3, <3>4, CompleteScreenIsClean DEF Screen
    <3>. QED  BY <3>5, <3>6
  <2>2. CASE ~ \E header \in Headers : Evaluate(peer, header)
    BY <1>4, <2>2 DEF Serve, Guarded, Broken, Health, Docs, Personas, Ping, Answer,
                      TrippingTextIsStopped
  <2>. QED  BY <2>1, <2>2
<1>. QED  BY <1>1, <1>2, <1>3, <1>4 DEF Next

(* Whatever a managed screen skips, and however the settings are edited, a *)
(* text that trips a filter passes only where the operator switched the    *)
(* guardrail off (adapters/gcp/guardrail.py 12-31 and 103-137).            *)
THEOREM TrippingTextsAreStopped == Spec => []TrippingTextIsStopped
<1>1. Init => TrippingTextIsStopped
  BY DEF Init, NoAnswer, TrippingTextIsStopped
<1>2. TypeOK /\ ContainerSound /\ TrippingTextIsStopped /\ [Next]_vars
        => TrippingTextIsStopped'
  BY TrippingStep
<1>3. QED
  BY <1>1, <1>2, SoundAlways, PTL DEF Spec

-----------------------------------------------------------------------------
(* A refusal blames whoever can do something about it. *)
LEMMA BlameIsFair ==
  ASSUME NEW s, NEW header \in Headers
  PROVE  /\ Principal(s, header).reason = "caller" =>
              \/ \E other \in Headers : Principal(s, other).status = 200
              \/ s.audience /\ ~env.verifier
         /\ Principal(s, header).reason = "unavailable" =>
              \A other \in Headers : Principal(s, other).status # 200
<1>1. "persona" \in Headers /\ "valid" \in Headers
  BY DEF Headers
<1>2. CASE s.identity[s.profile] = "persona"
  BY <1>1, <1>2 DEF Principal, ResolvePersona, Refusal, Resolved
<1>3. CASE s.identity[s.profile] = "iap"
  BY <1>1, <1>3 DEF Principal, ResolveIap, Refusal, Resolved
<1>4. CASE s.identity[s.profile] = "placeholder"
  BY <1>4 DEF Principal, Refusal
<1>5. CASE s.identity[s.profile] \notin {"persona", "iap", "placeholder"}
  BY <1>1, <1>5 DEF Principal, ResolveClient, Refusal, Resolved
<1>6. QED
  BY <1>2, <1>3, <1>4, <1>5

LEMMA BlameStep ==
  ASSUME TypeOK, ContainerSound, BareRefusalIsTheCallers, [Next]_vars
  PROVE  BareRefusalIsTheCallers'
<1>1. CASE BootRefused \/ Edit \/ UNCHANGED vars
  BY <1>1 DEF BootRefused, Edit, vars, BareRefusalIsTheCallers,
              Principal, ResolvePersona, ResolveIap
<1>2. CASE Stop
  BY <1>2 DEF Stop, NoAnswer, BareRefusalIsTheCallers
<1>3. ASSUME NEW entry \in {"main", "image"}, Boot(entry)
      PROVE  BareRefusalIsTheCallers'
  BY <1>3 DEF Boot, BareRefusalIsTheCallers, Principal, ResolvePersona, ResolveIap
<1>4. ASSUME NEW peer \in Peers, Serve(peer)
      PROVE  BareRefusalIsTheCallers'
  <2>1. env' = env
    BY <1>4, ServeUses DEF process
  <2>2. CASE \E header \in Headers : Evaluate(peer, header)
    <3>1. PICK header \in Headers : Evaluate(peer, header)
      BY <2>2
    <3>2. answer'.reason = Principal(container', header).reason
      BY <3>1, EvaluateAnswers
    <3>3. /\ answer'.reason = "caller" =>
               \/ \E other \in Headers : Principal(container', other).status = 200
               \/ container'.audience /\ ~env.verifier
          /\ answer'.reason = "unavailable" =>
               \A other \in Headers : Principal(container', other).status # 200
      BY <3>2, BlameIsFair
    <3>4. QED
      BY <2>1, <3>3 DEF BareRefusalIsTheCallers, Principal, ResolvePersona, ResolveIap
  <2>3. CASE ~ \E header \in Headers : Evaluate(peer, header)
    <3>1. answer'.route = "evaluate" => answer'.reason \in {"guard", "settings"}
      BY <1>4, <2>3 DEF Serve, Guarded, Broken, Health, Docs, Personas, Ping, Answer, Refusal
    <3>2. QED
      BY <3>1 DEF BareRefusalIsTheCallers
  <2>4. QED
    BY <2>2, <2>3
<1>5. QED
  BY <1>1, <1>2, <1>3, <1>4 DEF Next

(* A bare 401 means that another credential would do, and a refusal that   *)
(* blames the deployment that none would (api/app.py 126-150).             *)
THEOREM RefusalsBlameTheRightParty == Spec => []BareRefusalIsTheCallers
<1>1. Init => BareRefusalIsTheCallers
  BY DEF Init, NoAnswer, BareRefusalIsTheCallers
<1>2. TypeOK /\ ContainerSound /\ BareRefusalIsTheCallers /\ [Next]_vars
        => BareRefusalIsTheCallers'
  BY BlameStep
<1>3. QED
  BY <1>1, <1>2, SoundAlways, PTL DEF Spec
=============================================================================
