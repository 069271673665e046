----------------------------- MODULE MCRequests -----------------------------
(***************************************************************************)
(* The parts that serve requests and share no state, for TLC: a behaviour  *)
(* is one of one part, chosen at first.  Gateway is otherwise in its first *)
(* state, the variables of the others are Off throughout.                  *)
(***************************************************************************)
EXTENDS Gateway, TLC

CONSTANTS x1, x2, y1, y2,   \* whatever is interchangeable in a part
          Addr, Name, Job, MaxActive, MaxRequest,
          Route, Official, RefOf, MaxConfig,
          Key,
          Version, Latest, Tenant, MaxImages, MaxFetch,
          Account, Flow, NoAddr, MaxFlows,
          Visitor, Admins, Handler, MaxHandlers, Faults

(* A version is none of the words that stand beside one; the platform has  *)
(* an image when it starts.                                                *)
ASSUME VersionAssumption == Version \cap {Latest, "none", "gone"} = {}
ASSUME ImagesAssumption == MaxImages \in Nat \ {0}

(* A page mounts before anything else; the administrators have wallets.    *)
ASSUME BoundsAssumption == /\ MaxRequest \in Nat \ {0} /\ MaxConfig \in Nat
                           /\ MaxFlows \in Nat \ {0} /\ MaxHandlers \in Nat \ {0}
                           /\ Admins \subseteq Visitor

(* A list of providers is finite, and their routes, of small letters,      *)
(* digits and -, have different keys (tenant-config.service.js:463).       *)
ASSUME RouteAssumption == /\ IsFiniteSet(Route)
                          /\ \A r, s \in Route : RefOf[r] = RefOf[s] => r = s

VARIABLES part,
          provider, index, body, volume, installs, job, count, restored, mixed, lost,
          override, listed, keys, todo, asked, answer, fault, asks,
          file, said,
          repo, record, using, build, running, late, clash, registry, versions, fetch,
          loading, connected, waiting, shown, saved, wallet, poll, signing,
          flow, started,
          isAdmin, notAdmin, here, adminAs, refresh, bound, alive, account,
          cookie, handler, handled

skillVars == <<provider, index, body, volume, installs, job, count, restored, mixed, lost>>
configVars == <<override, listed, keys, todo, asked, answer, fault, asks>>
lineVars == <<file, said>>
imageVars == <<repo, record, using, build, running, late, clash, registry,
               versions, fetch>>
pageVars == <<loading, connected, waiting, shown, saved, wallet, poll, signing,
              flow, started>>
panelVars == <<isAdmin, notAdmin, here, adminAs, refresh, bound, alive, account,
               cookie, handler, handled>>

Skills == INSTANCE SkillMarket
Config == INSTANCE TenantConfig WITH MaxRequest <- MaxConfig, count <- asks
Lines == INSTANCE CredentialsFile
Builds == INSTANCE Images WITH box <- using, job <- build, cache <- versions
Page == INSTANCE UserPage WITH Addr <- Account
Panel == INSTANCE AdminPage
           WITH Addr <- Visitor, Flow <- Handler, MaxFlows <- MaxHandlers,
                wallet <- account, flow <- handler, started <- handled

Refs == [r \in Route |-> r]
Symmetry == Permutations({x1, x2}) \cup Permutations({y1, y2})

-----------------------------------------------------------------------------
Off == 0
SkillsOff == /\ provider = Off /\ index = Off /\ body = Off /\ volume = Off
             /\ installs = Off /\ job = Off /\ count = Off /\ restored = Off
             /\ mixed = Off /\ lost = Off
ConfigOff == /\ override = Off /\ listed = Off /\ keys = Off /\ todo = Off
             /\ asked = Off /\ answer = Off /\ fault = Off /\ asks = Off
LinesOff == file = Off /\ said = Off
ImagesOff == /\ repo = Off /\ record = Off /\ using = Off /\ build = Off
             /\ running = Off /\ late = Off /\ clash = Off /\ registry = Off
             /\ versions = Off /\ fetch = Off
PageOff == /\ loading = Off /\ connected = Off /\ waiting = Off /\ shown = Off
           /\ saved = Off /\ wallet = Off /\ poll = Off /\ signing = Off
           /\ flow = Off /\ started = Off
PanelOff == /\ isAdmin = Off /\ notAdmin = Off /\ here = Off /\ adminAs = Off
            /\ refresh = Off /\ bound = Off /\ alive = Off /\ account = Off
            /\ cookie = Off /\ handler = Off /\ handled = Off

(* Bound of the part images: after the record of a request that was        *)
(* overtaken new ones do not overlap, until one has written it again.      *)
Calm == clash /\ (\E j \in Job : build[j].pc = "idle" /\ build'[j].pc # "idle")
          => \A j \in Job : build[j].pc = "idle"

(* The two halves of Images share nothing either.                          *)
PartInit ==
  /\ part \in {"gateway", "skills", "config", "lines", "images", "versions",
               "page", "panel"}
  /\ Init
  /\ IF part = "skills" THEN Skills!Init ELSE SkillsOff
  /\ IF part = "config" THEN Config!Init ELSE ConfigOff
  /\ IF part = "lines" THEN Lines!Init ELSE LinesOff
  /\ IF part \in {"images", "versions"} THEN Builds!Init ELSE ImagesOff
  /\ IF part = "page" THEN Page!Init ELSE PageOff
  /\ IF part = "panel" THEN Panel!Init ELSE PanelOff

PartNext ==
  /\ UNCHANGED part
  /\ IF part = "gateway" THEN Next ELSE UNCHANGED vars
  /\ IF part = "skills" THEN Skills!Next ELSE UNCHANGED skillVars
  /\ IF part = "config" THEN Config!Next ELSE UNCHANGED configVars
  /\ IF part = "lines" THEN Lines!Next ELSE UNCHANGED lineVars
  /\ CASE part = "images" -> Builds!Manage /\ Calm
       [] part = "versions" -> Builds!Fetch
       [] OTHER -> UNCHANGED imageVars
  /\ IF part = "page" THEN Page!Next ELSE UNCHANGED pageVars
  /\ IF part = "panel" THEN Panel!Next ELSE UNCHANGED panelVars

PartSpec == PartInit /\ [][PartNext]_<<part, vars, skillVars, configVars,
                                       lineVars, imageVars, pageVars,
                                       panelVars>>

-----------------------------------------------------------------------------
(* The properties of the parts; each is stated in its module, those of     *)
(* Gateway have their names from there.                                    *)
TypesOK == CASE part = "gateway" -> TypeOK
             [] part = "skills" -> Skills!TypeOK
             [] part = "config" -> Config!TypeOK
             [] part = "lines" -> Lines!TypeOK
             [] part \in {"images", "versions"} -> Builds!TypeOK
             [] part = "page" -> Page!TypeOK
             [] part = "panel" -> Panel!TypeOK
SharesKept == [][part = "skills" => Skills!ShareLeft]_skillVars
ShownTrue == part = "skills" => Skills!ShownTrue
ListFinal == part = "config" => Config!ListFinal
NoOrphans == part = "config" => Config!NoOrphans
EditsRight == [][part = "lines" => Lines!EditRight]_lineVars
CurrentRecorded == part = "images" => Builds!CurrentRecorded
LoadingEnds == part = "page" => Page!LoadingEnds
=============================================================================
