------------------------------- MODULE Posture -------------------------------
(***************************************************************************)
(* How the API decides what it may expose, and how it answers its callers: *)
(* config.py and envread.py, the module scope and the routes of            *)
(* api/app.py, the identity adapters, and the guardrail of the managed     *)
(* profile.                                                                *)
(*                                                                         *)
(* The settings are read twice: once when api/app.py is imported, for the  *)
(* posture the exposure guard is built with, and once at the first request *)
(* that needs them, for the container that serves from then on. The file   *)
(* may be edited in between.                                               *)
(*                                                                         *)
(* An environment says of each variable whether it is unset, emptied, set  *)
(* to a known value, or to another one ("unknown").                        *)
(***************************************************************************)
EXTENDS Naturals, FiniteSets

CONSTANTS
  Environments,  \* the environments an operator may start the process in
  Files,         \* what the settings file may be
  Filters,       \* the filters of a Model Armor template
  NoSettings,    \* no container is built
  MaxEdits       \* bound: how often the file is edited

ASSUME PostureAssumption ==
  /\ MaxEdits \in Nat
  /\ \A e \in Environments : e.insecure \in BOOLEAN

KnownProfiles == {"local", "gcp", "onprem"}

Peers == {"loopback", "lan"}

Switches == {"OUTREACH_REVIEW_ROUTING", "OUTREACH_GUARDRAIL"}

(* What a caller may present.                                              *)
(* "unpinned" is an assertion of another algorithm, "forged" one whose     *)
(* signature or claims do not stand; "other" is any other value, or none.  *)
Headers == {"none", "persona", "unpinned", "forged", "valid"}

VARIABLES
  env,        \* the environment of the process
  file,       \* the settings file
  edits,      \* how often it was edited
  proc,       \* "down", "refused" to boot, or "up"
  host,       \* "loopback", or every interface, bound by main() or the image
  posture,    \* what the import of api/app.py decided
  container,  \* the settings of the cached container
  announced,  \* the switched-off controls the log names
  stale,      \* the file changed after the posture and before the container
  answer      \* to the last request

vars == <<env, file, edits, proc, host, posture, container, announced, stale, answer>>

process == <<env, file, edits, proc, host, posture, stale>>

-----------------------------------------------------------------------------
(* resolve_profile(): three states. *)
ProfileResolves(e) == e.profile \in KnownProfiles \cup {"unset"}

Explicit(e) == e.profile # "unset"

Profile(e) == IF Explicit(e) THEN e.profile ELSE "local"

(* A plausible bug: an unset variable is read as a deliberate local. *)
ExposureProfileOfUnset(e) == Profile(e)

(* The profile every relaxation reads. *)
ExposureProfile(e) == IF Explicit(e) THEN e.profile ELSE "unconfigured"

(* The profile every restriction reads, where local is the tighter one. *)
BindProfile(e) == IF Explicit(e) THEN e.profile ELSE "local"

(* boolean_setting(): unset is on, a boolean wins, anything else refuses. *)
SwitchResolves(value) == value \in {"unset", "on", "off"}

(* A reference ${VAR:-} of the file: an emptied variable refuses. *)
Expands(value) == value # "emptied"

(* _read_settings_file() and _bindings_from(): a file that is named must   *)
(* exist; one that is read must be a mapping that binds every port in      *)
(* every profile, and give Model Armor a positive deadline.                *)
FileReads(e, f) ==
  /\ e.named # "emptied"
  /\ e.named = "set" => f.shape # "missing"
  /\ f.shape \in {"missing", "mapping"}
  /\ f.shape = "mapping" =>
       f.bindsEveryPort /\ f.deadlinePositive /\ Expands(e.console) /\ Expands(e.audience)

(* Without a file the bindings and the template are the built-in ones, and *)
(* no variable but the profile and the switches is read.                   *)
DefaultIdentity == [local |-> "persona", gcp |-> "iap", onprem |-> "placeholder"]

ReadSettings(e, f) ==
  LET given == f.shape = "mapping"
  IN  [profile  |-> Profile(e),
       explicit |-> Explicit(e),
       routing  |-> e.routing # "off",
       screened |-> e.guardrail # "off",
       console  |-> given /\ e.console = "set",
       audience |-> given /\ e.audience = "set",
       template |-> given => f.template,
       identity |-> IF given THEN f.identity ELSE DefaultIdentity]

(* A plausible bug: the console is only asked for when it is first used. *)
ControlsConfiguredButRouting(s) ==
  s.profile = "gcp" => (s.screened => s.template)

(* _refuse_unconfigured_controls(): only the managed profile is asked. *)
ControlsConfigured(s) ==
  s.profile = "gcp" => (s.routing => s.console) /\ (s.screened => s.template)

(* Settings.load() *)
Loads(e, f) ==
  /\ FileReads(e, f)
  /\ ProfileResolves(e)
  /\ SwitchResolves(e.routing) /\ SwitchResolves(e.guardrail)
  /\ ControlsConfigured(ReadSettings(e, f))

SwitchedOff(s) ==
  {switch \in Switches :
     \/ switch = "OUTREACH_REVIEW_ROUTING" /\ ~s.routing
     \/ switch = "OUTREACH_GUARDRAIL" /\ ~s.screened}

-----------------------------------------------------------------------------
(* A plausible bug: an adapter that says nothing is taken at its word.     *)
DeclaredOpen(adapter) ==
  IF adapter = "placeholder" THEN "unimplemented" ELSE "verified"

(* declared_end_user_auth(): an adapter that says nothing, or says it      *)
(* wrongly, is read as client-asserted.                                    *)
Declared(adapter) ==
  CASE adapter \in {"iap", "client_idp"} -> "verified"
    [] adapter = "placeholder" -> "unimplemented"
    [] OTHER -> "client-asserted"

(* Any failure to establish the answer is client-asserted. *)
EndUserAuthKind(e, f) ==
  IF Loads(e, f) THEN Declared(ReadSettings(e, f).identity[Profile(e)])
  ELSE "client-asserted"

(* A plausible bug: the bind keeps to the profile alone, not the posture.  *)
PostureBindsByProfile(e, f) ==
  [explicit |-> Explicit(e), exposure |-> ExposureProfile(e),
   verified |-> Explicit(e) /\ EndUserAuthKind(e, f) = "verified",
   bind |-> BindProfile(e)]

(* The module scope of api/app.py. *)
PostureOf(e, f) ==
  LET verified == Explicit(e) /\ EndUserAuthKind(e, f) = "verified"
  IN  [explicit |-> Explicit(e), exposure |-> ExposureProfile(e),
       verified |-> verified,
       bind |-> IF verified THEN BindProfile(e) ELSE "local"]

-----------------------------------------------------------------------------
(* The container: built at the first request that needs it, and kept. A    *)
(* failure is not kept, and the next request tries again.                  *)
HasContainer == container # NoSettings \/ Loads(env, file)

Settings == IF container # NoSettings THEN container ELSE ReadSettings(env, file)

(* build_container() names what is switched off once. *)
UseContainer ==
  /\ container' = IF HasContainer THEN Settings ELSE NoSettings
  /\ announced' = IF HasContainer THEN announced \cup SwitchedOff(Settings)
                  ELSE announced

Refusal(status, reason) == [status |-> status, as |-> "nobody", reason |-> reason]

Resolved(as) == [status |-> 200, as |-> as, reason |-> "ok"]

(* LocalIdentityAdapter: constructed under a chosen local profile only. *)
ResolvePersona(s, header) ==
  IF s.profile # "local" \/ ~s.explicit THEN Refusal(401, "unavailable")
  ELSE IF header = "persona" THEN Resolved("persona")
  ELSE Refusal(401, "caller")

(* A plausible bug: the assertion is looked at before the audience. *)
ResolveIapHeaderFirst(s, header) ==
  IF header \notin {"unpinned", "forged", "valid"} THEN Refusal(401, "caller")
  ELSE IF ~s.audience \/ ~env.verifier THEN Refusal(503, "unavailable")
  ELSE IF header # "valid" THEN Refusal(401, "caller")
  ELSE Resolved("verified")

(* IapIdentityAdapter.resolve(): the audience, an assertion under either   *)
(* name, its algorithm, the verifier, the signature, the claims.           *)
ResolveIap(s, header) ==
  IF ~s.audience THEN Refusal(503, "unavailable")
  ELSE IF header \notin {"forged", "valid"} THEN Refusal(401, "caller")
  ELSE IF ~env.verifier THEN Refusal(503, "unavailable")
  ELSE IF header # "valid" THEN Refusal(401, "caller")
  ELSE Resolved("verified")

(* A plausible bug: the principal is what the header says. *)
ResolveClientByName(header) ==
  IF header = "none" THEN Refusal(401, "caller") ELSE Resolved(header)

(* An identity provider of the client's own, which may declare nothing. *)
ResolveClient(header) ==
  IF header = "valid" THEN Resolved("verified") ELSE Refusal(401, "caller")

(* get_principal() *)
Principal(s, header) ==
  LET adapter == s.identity[s.profile]
  IN  CASE adapter = "persona"     -> ResolvePersona(s, header)
        [] adapter = "iap"         -> ResolveIap(s, header)
        [] adapter = "placeholder" -> Refusal(501, "unavailable")
        [] OTHER                   -> ResolveClient(header)

-----------------------------------------------------------------------------
(* Model Armor: a text trips some filters, but a filter may be skipped,    *)
(* over its limit or for a language it does not read, and is then reported *)
(* as no match. Either field of the result may also be left unspecified.   *)
Reports(tripped, ran) ==
  [match : {IF tripped \cap ran # {} THEN "MATCH_FOUND" ELSE "NO_MATCH_FOUND",
            "unspecified"},
   invocation : {IF ran = Filters THEN "SUCCESS"
                 ELSE IF ran = {} THEN "FAILURE" ELSE "PARTIAL",
                 "unspecified"}]

(* A plausible bug: a result without a match passes, complete or not. *)
ScreenAllowsIncomplete(report) == report.match = "NO_MATCH_FOUND"

(* ModelArmorGuardrailAdapter._map_result(); the call may raise instead,   *)
(* which is no result at all.                                              *)
ScreenAllows(report) ==
  report.match = "NO_MATCH_FOUND" /\ report.invocation = "SUCCESS"

(* The guardrail a profile binds: a switched-off one allows every text,    *)
(* the offline heuristics try every pattern, and the on-premises           *)
(* placeholder raises, which the service takes for a block.                *)
Screen(s, tripped, report) ==
  \/ ~s.screened
  \/ s.profile = "gcp" /\ ScreenAllows(report)
  \/ s.profile = "local" /\ tripped = {}

(* Its verdicts on such a text, whichever filters Model Armor gets to run. *)
Screens(s, tripped) ==
  {Screen(s, tripped, report) :
     report \in UNION {Reports(tripped, ran) : ran \in SUBSET Filters}}

-----------------------------------------------------------------------------
NoAnswer == [route |-> "none", peer |-> "loopback", status |-> 0,
             as |-> "nobody", reason |-> "none", passed |-> FALSE, tripped |-> FALSE]

Answer(route, peer, result) ==
  answer' = [route |-> route, peer |-> peer, status |-> result.status, as |-> result.as,
             reason |-> result.reason, passed |-> FALSE, tripped |-> FALSE]

Init ==
  /\ env \in Environments /\ file \in Files
  /\ edits = 0 /\ proc = "down" /\ host = "loopback"
  /\ posture = [explicit |-> FALSE, exposure |-> "unconfigured",
                verified |-> FALSE, bind |-> "local"]
  /\ container = NoSettings /\ announced = {} /\ stale = FALSE
  /\ answer = NoAnswer

(* The import fails on a profile nothing binds, on no other setting. *)
BootRefused ==
  /\ proc = "down" /\ ~ProfileResolves(env)
  /\ proc' = "refused"
  /\ UNCHANGED <<env, file, edits, host, posture, container, announced, stale, answer>>

(* The image serves the app on every interface; main() asks                *)
(* resolve_bind_host(), which keeps local on loopback unless the operator  *)
(* takes the exposure.                                                     *)
Boot(entry) ==
  /\ proc = "down" /\ ProfileResolves(env)
  /\ proc' = "up"
  /\ posture' = PostureOf(env, file)
  /\ host' \in IF entry = "image" THEN {"image"}
               ELSE IF posture'.bind = "local" /\ ~env.insecure THEN {"loopback"}
               ELSE {"loopback", "main"}
  /\ UNCHANGED <<env, file, edits, container, announced, stale, answer>>

(* Another hand on the file; an edit before a boot is another file. *)
Edit ==
  /\ proc = "up" /\ edits < MaxEdits
  /\ \E f \in Files \ {file} : file' = f
  /\ edits' = edits + 1
  /\ stale' = (stale \/ container = NoSettings)
  /\ UNCHANGED <<env, proc, host, posture, container, announced, answer>>

(* A restart keeps the environment and the file, and nothing else. *)
Stop ==
  /\ proc = "up"
  /\ proc' = "down" /\ container' = NoSettings /\ announced' = {} /\ stale' = FALSE
  /\ answer' = NoAnswer
  /\ UNCHANGED <<env, file, edits, host, posture>>

-----------------------------------------------------------------------------
Reaches(peer) == proc = "up" /\ (peer = "lan" => host # "loopback")

(* add_loopback_exposure_guard(): the outermost middleware. *)
GuardRefuses(peer) == peer = "lan" /\ ~posture.verified /\ ~env.insecure

Guarded(route, peer) ==
  /\ Reaches(peer) /\ GuardRefuses(peer)
  /\ Answer(route, peer, Refusal(503, "guard"))
  /\ UNCHANGED <<process, container, announced>>

Admitted(peer) == Reaches(peer) /\ ~GuardRefuses(peer)

(* A settings file that does not load is an error of every request. *)
Broken(route, peer) ==
  /\ Admitted(peer) /\ ~HasContainer
  /\ Answer(route, peer, Refusal(500, "settings"))
  /\ UNCHANGED <<process, container, announced>>

(* A route that reads the container's settings: the health check, the card. *)
Health(peer) ==
  /\ Admitted(peer) /\ HasContainer
  /\ UseContainer
  /\ Answer("health", peer, Resolved("nobody"))
  /\ UNCHANGED process

(* The interactive docs need no container. *)
Docs(peer) ==
  /\ Admitted(peer)
  /\ Answer("docs", peer, IF posture.exposure = "local" THEN Resolved("nobody")
                          ELSE Refusal(404, "absent"))
  /\ UNCHANGED <<process, container, announced>>

(* The persona adapter refuses to construct when nobody chose local. *)
Personas(peer) ==
  /\ Admitted(peer) /\ HasContainer
  /\ UseContainer
  /\ LET s == Settings
     IN  Answer("personas", peer,
           IF s.identity[s.profile] # "persona" THEN Resolved("nobody")
           ELSE IF s.profile = "local" /\ s.explicit THEN Resolved("persona")
           ELSE Refusal(503, "unavailable"))
  /\ UNCHANGED process

(* require_service_caller(): no scheme without a chosen profile; a local   *)
(* one without a secret is open.                                           *)
Ping(peer) ==
  /\ Admitted(peer)
  /\ \E credential \in BOOLEAN :
       Answer("ping", peer,
         IF ~posture.explicit THEN Refusal(401, "unavailable")
         ELSE IF credential THEN Resolved("service")
         ELSE IF ~env.token /\ posture.exposure = "local" THEN Resolved("anyone")
         ELSE Refusal(401, "caller"))
  /\ UNCHANGED <<process, container, announced>>

(* An evaluation: who asks, and what the guardrail says of a drafted text. *)
Evaluate(peer, header) ==
  /\ Admitted(peer) /\ HasContainer
  /\ UseContainer
  /\ LET who == Principal(Settings, header)
     IN  IF who.status # 200 THEN Answer("evaluate", peer, who)
         ELSE \E tripped \in SUBSET Filters : \E passed \in Screens(Settings, tripped) :
                answer' =
                  [route |-> "evaluate", peer |-> peer, status |-> 200,
                   as |-> who.as, reason |-> "ok",
                   passed |-> passed, tripped |-> tripped # {}]
  /\ UNCHANGED process

Serve(peer) ==
  \/ \E route \in {"health", "docs", "personas", "ping", "evaluate"} : Guarded(route, peer)
  \/ \E route \in {"health", "personas", "evaluate"} : Broken(route, peer)
  \/ Health(peer) \/ Docs(peer) \/ Personas(peer) \/ Ping(peer)
  \/ \E header \in Headers : Evaluate(peer, header)

Next ==
  \/ BootRefused \/ Edit \/ Stop
  \/ \E entry \in {"main", "image"} : Boot(entry)
  \/ \E peer \in Peers : Serve(peer)

Spec == Init /\ [][Next]_vars

-----------------------------------------------------------------------------
Callers == {"nobody", "persona", "verified", "service", "anyone"}

SettingsSet ==
  [profile : KnownProfiles, explicit : BOOLEAN, routing : BOOLEAN, screened : BOOLEAN,
   console : BOOLEAN, audience : BOOLEAN, template : BOOLEAN,
   identity : {DefaultIdentity} \cup {f.identity : f \in Files}]

ASSUME NoSettingsAssumption == NoSettings \notin SettingsSet

PostureSet ==
  [explicit : BOOLEAN, exposure : KnownProfiles \cup {"unconfigured"},
   verified : BOOLEAN, bind : KnownProfiles]

AnswerSet ==
  [route : {"none", "health", "docs", "personas", "ping", "evaluate"},
   peer : Peers, status : {0, 200, 401, 404, 500, 501, 503},
   as : Callers, passed : BOOLEAN, tripped : BOOLEAN,
   reason : {"none", "ok", "guard", "settings", "absent", "unavailable", "caller"}]

(* Every variable has a value of its kind. *)
TypeOK ==
  /\ env \in Environments /\ file \in Files
  /\ edits \in 0..MaxEdits
  /\ proc \in {"down", "refused", "up"}
  /\ host \in {"loopback", "main", "image"}
  /\ posture \in PostureSet
  /\ container \in SettingsSet \cup {NoSettings}
  /\ announced \subseteq Switches
  /\ stale \in BOOLEAN
  /\ answer \in AnswerSet

(* A process whose profile nobody chose gives nothing away: no persona, no *)
(* call between services, no interactive docs, and no answer at all to     *)
(* another host unless the operator took the exposure (api/app.py          *)
(* 248-291, config.py 206-235).                                            *)
UnchosenGrantsNothing ==
  env.profile = "unset" =>
    /\ answer.as \notin {"persona", "service", "anyone"}
    /\ answer.route = "docs" => answer.status # 200
    /\ answer.peer = "lan" => answer.reason = "guard" \/ env.insecure

(* Another host is answered about a person, with the decision or the       *)
(* personas, only by an identity adapter that verifies its callers, unless *)
(* the operator took the exposure or edited the file between the two       *)
(* readings of it: what the guard was built with is what serves            *)
(* (api/app.py 111-113 and 248-291, config.py 797-832).                    *)
OffHostIsVerified ==
  /\ answer.peer = "lan" /\ ~env.insecure /\ ~stale
  /\ answer.route \in {"evaluate", "personas"} /\ answer.status = 200
  => container.identity[container.profile] \in {"iap", "client_idp"}

(* What main() listens on and what the guard refuses agree: it never takes *)
(* every interface to refuse every caller on it (api/app.py 270-291 and    *)
(* 484-497).                                                               *)
BindAgreesWithGuard ==
  proc = "up" /\ host = "main" => \A peer \in Peers : ~GuardRefuses(peer)

(* Whoever is answered with a decision was served by controls that can     *)
(* work under their profile, however the file was edited, and the log      *)
(* names each one that is off (config.py 661-688 and 779-794).             *)
ServedControlsWork ==
  answer.route = "evaluate" /\ answer.status = 200 =>
    /\ container.profile = "gcp" /\ container.routing => container.console
    /\ container.profile = "gcp" /\ container.screened => container.template
    /\ SwitchedOff(container) \subseteq announced

(* A text that trips a filter is stopped, whether or not that filter ran,  *)
(* unless the operator wrote exactly "off": no other value of the switch,  *)
(* no edit and no other profile lets it through                            *)
(* (adapters/gcp/guardrail.py 12-31 and 103-137, config.py 733-741).       *)
TrippingTextIsStopped ==
  answer.passed /\ answer.tripped => env.guardrail = "off"

(* A bare 401 tells the caller the truth, that another assertion would do, *)
(* and a refusal that blames the deployment that none would; only a        *)
(* missing verifier is found out late (api/app.py 126-150,                 *)
(* adapters/gcp/identity.py 185-239).                                      *)
BareRefusalIsTheCallers ==
  answer.route = "evaluate" =>
    /\ answer.reason = "caller" =>
         \/ \E header \in Headers : Principal(container, header).status = 200
         \/ container.audience /\ ~env.verifier
    /\ answer.reason = "unavailable" =>
         \A header \in Headers : Principal(container, header).status # 200

=============================================================================
