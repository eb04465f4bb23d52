--------------------------- MODULE EndpointConfig ---------------------------
(***************************************************************************)
(* Which upstream a core serves: the configuration on its way from the web *)
(* UI through the service and the file to a core that may change it too    *)
(* (internal/config/normalize.go, the handlers of internal/service that    *)
(* write the file, main and autoSwapEndpoint in cmd/snispf/main.go).       *)
(*                                                                         *)
(* Of a configuration the fields that select the upstream are kept, of the *)
(* methods the one that needs exactly one endpoint, and of all others      *)
(* whether the doctor finds them in order; a port goes the way of the      *)
(* server name.  The service handles one request at a time here *)
(* (ControlService has them overlap), but the core is another process and  *)
(* may write between a request's write and its restart.                    *)
(***************************************************************************)
EXTENDS Integers, SequencesExt

CONSTANTS
  Hosts, Snis,
  Blank,     \* a field that is not given
  Resolve,   \* netutil.ResolveHost
  Initial,   \* the configurations the file may have at first
  Offered,   \* what the user chooses from to apply: an edge and a port in order or not
  Forms,     \* what the user may leave in the UI's form
  Off        \* no core runs; no test is under way

VARIABLES
  file,     \* config.json
  ui,       \* of the web UI's copy of it, what the UI's form does not set
  core,     \* what the running core has in memory, and the edges it serves
  due,      \* a request has written the file and not yet restarted the core
  held,     \* the configuration a test of fingerprints started from
  unsaved,  \* history: the core could not write what it swapped to
  chosen,   \* history: the edge the user chose last, while nobody else did and
            \* nothing in the configuration overrides it
  asked     \* history: the method the user or a test chose last, likewise

endpointVars == <<file, ui, core, due, held, unsaved, chosen, asked>>

Methods  == {"wrong_seq", "fragment"}   \* all others are as fragment here
Edge     == [ip : Hosts, sni : Snis]
Upstream == [ip : Hosts, sni : Snis, method : Methods]
Endpoint == [ip : Hosts \cup {Blank}, sni : Snis \cup {Blank}, on : BOOLEAN]
Listener == [ip : Hosts \cup {Blank}, sni : Snis \cup {Blank}, method : Methods \cup {Blank}]
Config   == [ip : Hosts \cup {Blank}, sni : Snis \cup {Blank}, lis : Seq(Listener),
             eps : Seq(Endpoint), method : Methods, probe : BOOLEAN,
             sound : BOOLEAN]   \* LISTEN_HOST, the ports and the rest are in order

Lists    == [lis : Seq(Listener), eps : Seq(Endpoint), probe : BOOLEAN]

ASSUME EndpointAssumption ==
  /\ Blank \notin Hosts \cup Snis \cup Methods
  /\ Resolve \in [Hosts -> Hosts]
  /\ \A h \in Hosts : Resolve[Resolve[h]] = Resolve[h]
  /\ Initial \subseteq Config
  /\ Offered \subseteq [ip : Hosts, sni : Snis, sound : BOOLEAN]
  /\ Forms \subseteq [ip : Hosts \cup {Blank}, sni : Snis \cup {Blank}, sound : BOOLEAN]
  /\ Off \notin [cfg : Config, serves : Seq(Upstream)]

OrElse(field, default) == IF field = Blank THEN default ELSE field
Resolved(h)            == IF h = Blank THEN Blank ELSE Resolve[h]

-----------------------------------------------------------------------------
(* Normalize, in its order: the listeners take what they lack from the top,*)
(* the top is then the first listener; without endpoints the top becomes   *)
(* one; the enabled endpoints take what they lack from the top; without    *)
(* listeners the top is then the first endpoint.                           *)

FromListeners(c) ==
  LET lis == [i \in 1 .. Len(c.lis) |->
                [ip |-> Resolved(OrElse(c.lis[i].ip, c.ip)),
                 sni |-> OrElse(c.lis[i].sni, c.sni),
                 method |-> OrElse(c.lis[i].method, c.method)]]
  IN IF lis = <<>> THEN c
     ELSE [c EXCEPT !.lis = lis, !.ip = lis[1].ip, !.sni = lis[1].sni]

\* Mutant of Primary: the top is put before a list that does not have it.
PrimaryFirst(c) ==
  IF \E i \in 1 .. Len(c.eps) : c.eps[i].ip = c.ip THEN c
  ELSE [c EXCEPT !.eps = <<[ip |-> c.ip, sni |-> c.sni, on |-> TRUE]>> \o @]

Primary(c) ==
  IF c.eps # <<>> THEN c
  ELSE [c EXCEPT !.eps = <<[ip |-> c.ip, sni |-> c.sni, on |-> TRUE]>>]

FilledEndpoints(c) ==
  [c EXCEPT !.eps =
     [i \in 1 .. Len(c.eps) |->
        IF c.eps[i].on
        THEN [c.eps[i] EXCEPT !.ip = Resolved(@), !.sni = OrElse(@, c.sni)]
        ELSE c.eps[i]]]

FromEndpoints(c) ==
  IF c.lis # <<>> THEN c
  ELSE [c EXCEPT !.ip = c.eps[1].ip, !.sni = c.eps[1].sni]

\* Mutant of Normalize: the top is set before the endpoints are resolved.
NormalizeTopFirst(c) == FilledEndpoints(FromEndpoints(Primary(FromListeners(c))))

Normalize(c) == FromEndpoints(FilledEndpoints(Primary(FromListeners(c))))

Serviceable(e) == e.on /\ e.ip # Blank /\ e.sni # Blank

EnabledEndpoints(eps) ==
  LET upTo[n \in 0 .. Len(eps)] ==
        IF n = 0 THEN <<>>
        ELSE IF Serviceable(eps[n]) THEN Append(upTo[n - 1], eps[n])
        ELSE upTo[n - 1]
  IN upTo[Len(eps)]

\* ProbeHealthyEndpoints returns those that answer, in the order of their
\* answers, or all when none does.
Probed(eps) ==
  IF Len(eps) <= 1 THEN {eps}
  ELSE {eps} \cup {[k \in DOMAIN at |-> eps[at[k]]] :
                      at \in UNION {SetToSeqs(I) : I \in (SUBSET DOMAIN eps) \ {{}}}}

\* The configurations a core may run with when it loads c: normalised, and
\* without the endpoints that are disabled or did not answer.
Loaded(c) ==
  LET n == Normalize(c)
      active == EnabledEndpoints(n.eps)
  IN IF active = <<>> THEN {}
     ELSE {[n EXCEPT !.eps = eps] : eps \in IF n.probe THEN Probed(active) ELSE {active}}

\* buildServerRuntimes: one runtime for all endpoints, or one for each listener.
Serves(c) ==
  IF c.lis # <<>>
  THEN [i \in 1 .. Len(c.lis) |-> [c.lis[i] EXCEPT !.ip = Resolved(@)]]
  ELSE [i \in 1 .. Len(c.eps) |->
          [ip |-> c.eps[i].ip, sni |-> c.eps[i].sni, method |-> c.method]]

\* wrong_seq needs exactly one endpoint: with more the core exits at once; a
\* listener has one.
Startable(c) == c.method = "wrong_seq" /\ c.lis = <<>> => Len(c.eps) = 1

\* RunDoctor finds no issue in a normalised configuration.  It counts the
\* enabled endpoints before they are probed, and with listeners too.
Doctor(c) ==
  /\ c.sound
  /\ c.ip # Blank
  /\ c.sni # Blank
  /\ EnabledEndpoints(c.eps) # <<>>
  /\ \A i \in 1 .. Len(c.lis) : c.lis[i].ip # Blank /\ c.lis[i].sni # Blank
  /\ c.method = "wrong_seq" => Len(EnabledEndpoints(c.eps)) = 1

-----------------------------------------------------------------------------
EndpointTypeOK ==
  /\ file \in Config
  /\ ui \in Lists
  /\ core # Off => core.cfg \in Config /\ core.serves \in Seq(Upstream) /\ core.serves # <<>>
  /\ due \in BOOLEAN
  /\ held # Off => held \in Config
  /\ unsaved \in BOOLEAN
  /\ chosen \in Edge \cup {Off}
  /\ asked \in Methods \cup {Off}

ListsOf(c) == [lis |-> c.lis, eps |-> c.eps, probe |-> c.probe]

EndpointInit ==
  /\ file \in Initial
  /\ ui = ListsOf(file)
  /\ core = Off
  /\ due = FALSE
  /\ held = Off
  /\ unsaved = FALSE
  /\ chosen = Off
  /\ asked = Off

\* GET /v1/config.
Fetch ==
  /\ ui' = ListsOf(file)
  /\ UNCHANGED <<file, core, due, held, unsaved, chosen, asked>>

\* The address and name the user chose; LISTENERS and ENDPOINTS take precedence
\* over them.
Chosen(c) == IF c.lis = <<>> /\ c.eps = <<>> /\ c.ip # Blank /\ c.sni # Blank
             THEN [ip |-> c.ip, sni |-> c.sni]
             ELSE Off

\* A listener's BYPASS_METHOD takes precedence, and Normalize gives it one.
Asked(c, method) == IF c.lis = <<>> THEN method ELSE Off

\* POST /v1/config: the form's fields over the UI's copy, normalised and written,
\* whatever the form left blank.
Save(form, method) ==
  LET posted == [ip |-> form.ip, sni |-> form.sni, sound |-> form.sound, method |-> method,
                 lis |-> ui.lis, eps |-> ui.eps, probe |-> ui.probe]
  IN /\ ~due
     /\ file' = Normalize(posted)
     /\ due' = TRUE
     /\ chosen' = Chosen(posted)
     /\ asked' = Asked(posted, method)
     /\ UNCHANGED <<ui, core, held, unsaved>>

\* Mutant of Apply: the address is not written.
ApplySni(edge) ==
  /\ ~due
  /\ Resolve[edge.ip] = edge.ip
  /\ file' = [file EXCEPT !.sni = edge.sni, !.sound = @ /\ edge.sound]
  /\ due' = TRUE
  /\ chosen' = Chosen([file' EXCEPT !.ip = edge.ip])
  /\ UNCHANGED <<ui, core, held, unsaved, asked>>

\* /v1/apply takes an address, no name, and any port; they are put into the file
\* as they are.
Apply(edge) ==
  /\ ~due
  /\ Resolve[edge.ip] = edge.ip
  /\ file' = [file EXCEPT !.ip = edge.ip, !.sni = edge.sni, !.sound = @ /\ edge.sound]
  /\ due' = TRUE
  /\ chosen' = Chosen(file')
  /\ UNCHANGED <<ui, core, held, unsaved, asked>>

\* /v1/test with apply=1 loads the file, runs for minutes, and writes what it
\* loaded with the method that did best.
TestBegin ==
  /\ held = Off
  /\ held' = Normalize(file)
  /\ UNCHANGED <<file, ui, core, due, unsaved, chosen, asked>>

TestEnd(method) ==
  /\ held # Off
  /\ ~due
  /\ file' = [held EXCEPT !.method = method]
  /\ held' = Off
  /\ due' = TRUE
  /\ chosen' = Off
  /\ asked' = Asked(held, method)
  /\ UNCHANGED <<ui, core, unsaved>>

\* No method passed, or the file could not be written.
TestFails ==
  /\ held # Off
  /\ held' = Off
  /\ UNCHANGED <<file, ui, core, due, unsaved, chosen, asked>>

\* startCore refuses what the doctor finds an issue in; otherwise a core is
\* spawned and loads the file, and may find that it cannot serve it.
Started ==
  /\ IF /\ Doctor(Normalize(file))
        /\ Loaded(file) # {}
     THEN \E c \in Loaded(file) :
            core' = IF Startable(c) THEN [cfg |-> c, serves |-> Serves(c)] ELSE Off
     ELSE core' = Off
  /\ unsaved' = FALSE
  /\ due' = FALSE
  /\ UNCHANGED <<file, ui, held, chosen, asked>>

\* The second half of Save, Apply and TestEnd.
RestartCore ==
  /\ due
  /\ core # Off
  /\ Started

NoRestart ==
  /\ due
  /\ core = Off
  /\ due' = FALSE
  /\ UNCHANGED <<file, ui, core, held, unsaved, chosen, asked>>

\* POST /v1/start and /v1/stop.
Start ==
  /\ ~due
  /\ core = Off
  /\ Started

Stop ==
  /\ ~due
  /\ core' = Off
  /\ UNCHANGED <<file, ui, due, held, unsaved, chosen, asked>>

SwappedTo(c, best) == [c EXCEPT !.ip = best, !.eps[1].ip = best]

\* Mutant of Swap: what is written is not what is used.
SwapWritesOld(best) ==
  /\ core # Off
  /\ core.cfg.method = "wrong_seq"
  /\ Len(EnabledEndpoints(core.cfg.eps)) <= 1
  /\ best # core.cfg.ip
  /\ core' = [cfg |-> SwappedTo(core.cfg, best), serves |-> Serves(SwappedTo(core.cfg, best))]
  /\ file' = core.cfg
  /\ unsaved' = FALSE
  /\ chosen' = Off
  /\ asked' = Off
  /\ UNCHANGED <<ui, due, held>>

\* The core's endpoint fails and is unreachable: the best edge of the hit-list
\* is put in its place and written, and the runtimes are built anew.
Swap(best) ==
  /\ core # Off
  /\ core.cfg.method = "wrong_seq"
  /\ Len(EnabledEndpoints(core.cfg.eps)) <= 1
  /\ best # core.cfg.ip
  /\ LET c == SwappedTo(core.cfg, best)
     IN /\ core' = [cfg |-> c, serves |-> Serves(c)]
        /\ \/ file' = c /\ unsaved' = FALSE
           \/ UNCHANGED file /\ unsaved' = TRUE
  /\ chosen' = Off
  /\ asked' = Off
  /\ UNCHANGED <<ui, due, held>>

EndpointNext ==
  \/ Fetch
  \/ \E form \in Forms, method \in Methods : Save(form, method)
  \/ \E edge \in Offered : Apply(edge)
  \/ TestBegin
  \/ \E method \in Methods : TestEnd(method)
  \/ TestFails
  \/ RestartCore
  \/ NoRestart
  \/ Start
  \/ Stop
  \/ \E best \in {Resolve[h] : h \in Hosts} : Swap(best)

EndpointSpec == EndpointInit /\ [][EndpointNext]_endpointVars

-----------------------------------------------------------------------------
(* Properties.                                                             *)

\* A core that is restarted comes back to what it serves: between requests the
\* file leads to the edges served, whatever the UI saved and the core swapped,
\* unless the core could not write.
ServesFile ==
  core # Off /\ ~due /\ ~unsaved
    => \E c \in Loaded(file) : Serves(c) = core.serves

\* The service normalises before it writes and the core after it loads: the
\* second pass finds nothing to change (normalize.go:22-113).
NormalizeSettles ==
  Normalize(Normalize(file)) = Normalize(file)

\* "applyEndpoint writes a chosen edge into the config and restarts the core if
\* it is currently running so the new endpoint takes effect" (service.go:960-961),
\* and a method is chosen by the UI's form or by a test that applies its best:
\* where the configuration names no LISTENERS (and, for the edge, no ENDPOINTS),
\* what was chosen last is what every core serves that starts after it, until
\* the core swaps its edge and writes the configuration it had.
ChosenTakesEffect ==
  core # Off /\ ~due =>
    /\ chosen # Off => \E i \in 1 .. Len(core.serves) : core.serves[i].ip = Resolved(chosen.ip)
    /\ asked # Off => \A i \in 1 .. Len(core.serves) : core.serves[i].method = asked

\* The file asks for wrong_seq and lists another number of endpoints than one.
Mismatched ==
  /\ file.method = "wrong_seq"
  /\ file.eps # <<>>
  /\ Cardinality({i \in DOMAIN file.eps : file.eps[i].on}) # 1

\* What only a form, or the port of an apply, brings into a file that was in
\* order: a top without an address or a name, an endpoint that is on and has no
\* address, a field that is out of order.
Incomplete ==
  \/ ~file.sound
  \/ file.ip = Blank
  \/ file.sni = Blank
  \/ \E i \in DOMAIN file.eps : file.eps[i].on /\ file.eps[i].ip = Blank

\* "POST validates, writes, and restarts the core if it is running"
\* (service.go:834-835), but Save, Apply and a test stop the core before they know
\* that another one can start (service.go:860-863, 972-974, 909-912), and what is
\* validated is the length of the names.  Two things leave the user without a
\* core: wrong_seq written over another number of endpoints than one, and a field
\* that was posted blank or out of order; whatever else the UI's copy, a test or
\* the core's own swaps brought into the file, the doctor and the core accept.
\* (An address posted blank stays: Normalize makes an endpoint of it, which no
\* later address replaces.)
RestartComesBack ==
  [][RestartCore /\ core' = Off => Mismatched \/ Incomplete]_endpointVars
=============================================================================
