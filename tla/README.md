# A TLA+ verification of rssani

rssani is a daemon that hears of new uploads (announcements of an IRC bot and
items of RSS feeds), compares their titles with a list of rules (regular
expressions with an expiry, a tracker and a distance in days), downloads the
torrent or sends a mail, and is managed by gRPC. This directory holds a formal
model of it, the checks TLC makes and the theorems TLAPS proves. Names follow
the source, which mixes Spanish and English.

## 1. Inventory

| Part | State | Operations | Hard behaviour |
|---|---|---|---|
| **Rule matching** `Rss_lite::miraTitulo`, `parseTitle` (rss_lite.cpp) | `recientes`, loop index, the shared `lista` | judge one announcement | walks and changes `lista` with no mutex; removes while iterating; window of titles |
| **Rule RPCs** (`rssani_lite.cpp` 118-206, `grpc_server.cpp` 43-151) | `lista`, `mutex` | add, edit (by pattern, by index), activate, move, delete (by index, by pattern), list | check and act in two critical sections; replies that say true |
| **Process life** (`main.cpp`, `grpc_server.cpp` 212-262, signal code of `rssani_lite.cpp`) | `running`, `server`, the server thread, the socket pair | start, stop, destructor, `handleSigTerm`, `Shutdown` | start races stop; order of destruction; signal or call before `exec()` |
| **Settings** (`readSettings`, `writeSettings`, options, auths, credentials) | `QSettings` file and backup, `values`, `listAuths`, `hashAuths`, `tiempo` | load, save, options, auths, credentials | crash in the middle of a save; list and hash of auths; acknowledged and lost changes |
| **Feed fetching** (`fetch`, `readDataRSS`, `cambiaTimer`) | `timer`, `tiempo`, connections of `httpRss`, `xmls` | timeout, request, reply | `disconnect()` cuts the reader; timer of another thread; int overflow |
| **Feed parser** (`parseXml`) | `pila`, `currentTag`, `titleString`, ... | one XML token | error inside and outside an item; stale section |
| **Downloads** (`parseLink`, `readDataTorrent`, `saveLog`) | `trackers`, `posts`, `downloads`, files, log | link, reply | a failure is never retried; leaks; truncated files; log shared with `verLog` |
| **Mail** (`mailsender.cpp`, `sendMail`) | socket, last response | SMTP dialogue | replies in several lines; failing QUIT after acceptance |
| **IRC** (`myircsession.cpp`, `miraSubida`) | network, channels | join, kick, message | one rejoin after a kick; cutting the line at its dashes |

How they interact. There are three kinds of threads. The Qt *main thread* runs
IRC, feeds, downloads, mail, timer and signals: everything there is sequential.
The *server thread* of `GrpcServer::start` builds the gRPC server and waits.
The *handlers* of the gRPC library call the public methods of `rssani_lite`,
each under its mutex. An announcement goes from `MyIrcSession` by signal
`nuevaSubida` to `miraSubida`, and from there, or from `parseXml`, to
`miraTitulo` and `parseTitle`, with a pointer to the very list the handlers
change. A download goes by signal `linkCorrecto` to `parseLink`. The only
state that handlers and the main thread share without a common lock is what
`Rss_lite` was given pointers to: `lista`, `values`, the log and the auths.

What makes each part correct, in one line: *matching* - the first live rule
that matches decides, each title once per window, each rule once per
`diasDescarga`; *rule RPCs* - each call takes effect at once and its reply is
true; *process life* - the end is reached and nothing is used after its
destruction; *settings* - what is loaded is what was last saved, also after a
crash; *feeds* - each period ends in a feed read; *parser* - the announcement
of an item is made of that item; *downloads* - a decided download ends in a
file or is tried again; *mail* - true if and only if the server took it;
*IRC* - the daemon is in its channels again after losing them.

`PROJECT.json` lists the hazards, each at its line.

## 2. Modules

| Module | What it is |
|---|---|
| `Lists` | `EnOrden`: what is left of a list when the elements at some positions are erased. Constant level, like `RuleList`. |
| `RuleList` | a rule, an announcement, the tests of `parseTitle` on one rule, the list operations. Constant level, no state. |
| `RuleMatching` | **abstract**: what the rule list promises, one atomic step per announcement and per request. |
| `SharedRules` | **the code**: the scan on the main thread and the handlers, interleaved at every visit to the list. |
| `SerialRules` | the executions of `SharedRules` with no critical section inside a scan, and the refinement of `RuleMatching`. |
| `GrpcServer` | the life of the process. |
| `SettingsStore` | **abstract**: what a save and a start promise. |
| `Settings` | **the code**: the saved state, its methods, `writeSettings` value by value, the flushes of `QSettings`, crashes; refines `SettingsStore`. |
| `Uploads` | the uploads and `miraTitulo` as the two sources of announcements see it. |
| `FeedParser` | `parseXml`, token by token, with the strings and the stack that outlive a document. |
| `IrcSession` | `MyIrcSession` and `miraSubida`: joins, kicks, lines, colours, the cut of a line. |
| `Announcements` | composes `FeedParser` and `IrcSession` on the one thread that runs both. |
| `Downloads` | `parseLink`, `readDataTorrent`, the files, `saveLog`, and `verLog` on another thread. |
| `MailDelivery` | **abstract**: what sending a mail promises. |
| `MailSender` | **the code**: the SMTP dialogue of `send()` with a server that refuses, splits its replies, is silent or goes away; refines `MailDelivery`. |
| `Feeds` | the timer, `fetch` and which replies reach `readDataRSS`. |
| `MC*` | values of the constants for TLC. |
| `*Proofs` | theorems (section 4), one module for each module proved about; `ListProofs` has the lemmas about lists they share. |

The operators a comment calls "Mutant of X" are not part of the model: each is
X with a plausible bug, kept to make sure that a property fails when the code
has that bug (`mutants` in `PROJECT.json`).

### SharedRules and the code

`fase` is the place of the main thread in `parseTitle`: `bucle` is the loop
test, `vence` the expiry test, `borra` the removal, `casa` the activity,
pattern and tracker tests, `modo` the choice of mail or download with the test
of the days, `sella` the stamp. `vuelto` is the return to `miraTitulo`'s caller,
`libre` the event loop, `roto` the end of the process by an index out of the
list. `i` is the loop index (positions count from 1). The actions are named for
what they do: `Bucle`, `Vence`, `Borra`, `MiraRegla`, `Avisa`, `MiraDias`,
`Sella`; `Recuerda` is the switch of `miraTitulo`.

`fasec[c]` is the place of handler `c`: `mira` is the size test of the index
handlers (a critical section of its own, inside `listaRegexp()`), `espera` the
`QMutexLocker`, `dentro` the method, `mete` the middle of `moverRegexp`, `quita`
the loop of `borrarRegexp(string)`, whose index is `indice[c]`. `mano[c]` is the
local `item` of `moverRegexp`. `cerrojo` is the holder of the mutex.

Granularity: a step is one visit to the list. The several reads that one test
makes of one rule are one step, and so is the search for the first rule with a
pattern. Finer steps would only add interleavings of the kind the violation
runs already show. The data race of `QList` itself (a torn read, a detach
while iterating) is beyond this model: it only ends the process at an index out
of the list, as a build with assertions does.

`uid`, `uidLibre`, `llamadas`, `juez` and `aceptados` are history: they identify
a rule wherever it moves and record what was accepted, so that properties can
speak of it. No guard reads them but those of the bounds.

Abstractions: a pattern is a name and the regular expression engine a relation
(`Coincide`) with an arbitrary value; a date is a day number, the empty expiry
`SinVencimiento`, an unreadable one the null date (`FechaIlegible`, earlier than
every day, as `QDate` compares it). Logging is left out. `sendMail` succeeds or
fails: how is `MailSender`. What becomes of an accepted link is `Downloads`.

### GrpcServer and the code

`main` follows `main()`: `construido` (rss and grpc exist), `porExec` (after
`start()`), `exec`, the slot `handleSigTerm` (`guardar`, `escribe`), `stop`,
`miraServer` (the `if (server)`), `drena` (inside `Shutdown()`), `join`, `unido`,
`fin`. `hilo` follows the lambda of `start()`: between `asigna` and `wait` the
server already serves but `server` is not stored. `servicio` is the state of the
gRPC library, external: it serves from `BuildAndStart` on, `Shutdown()` waits
for the calls in progress, `Wait()` returns after it. `bytes` is the content of
the socket pair. `quit()` has an effect only while the event loop runs.

### Settings and the code

`opc` is mail addresses and path, `tiempo` the interval, `usuario` and `clave` the
credentials. `paso` is the place in `writeSettings` and `n` its loop index;
`cerrojo` is the mutex, which the saver holds throughout. `cache` is what the
`QSettings` object holds and `fichero` the file: `Sync` makes them equal at the end
of a save, and so does `Vuelca`, the event loop of the main thread, at any moment
at which the main thread is not the one that saves. `copia` is the backup of the
day. `Cae` is the end of the process at any point and the next `readSettings`.
`SettingsStore` hides the flushes: its `guardado` is the file when no save is in
progress and, within one, what the file held before.

External and assumed: `QSettings` replaces its file atomically, and no copy or
write fails (`writeSettings` looks at no result). A change of date between a crash
and the next save only keeps one more copy, and is left out, like the first start
with no file, the IRC group and the SMTP options, which no operation changes.

### Uploads, FeedParser, IrcSession, Announcements and the code

A text is the sequence of those of its characters that matter; a piece the code
looks for as a whole (`[section] `, ` [S(n)/L(n)]`, `[Nueva Subida] `, `http`) is
one character, and so is the title of a channel, of which nothing is ever read
(`TituloCanal`). `Uploads!MiraTitulo` is `miraTitulo` with the rules left open:
they take a title that is not recent, or do not.

`FeedParser` has one action per kind of token: `AbreItem`, `AbreCampo`, `Texto`,
`CierraItem`, `CierraDoc`, and `Trunca` (`PrematureEndOfDocumentError`, which
leaves everything as it is) and `ErrorXml` (any other error, which clears the
strings and pops the stack). The feeds are RSS, external, and are assumed to be so
(`FeedParserAssumption`): an item has each field once at most and has a title,
and the tokens that some trackers add to a title are not part of any. `pila` is the
size of the stack, `value` the section, a local of `parseXml`. What the model shows
of the code, and the properties state around it:

* an `<item>` with an `rdf:about` attribute is no special case: the source
  compares the name with `rss:about`, and the branch is never taken;
* a `<link>` after the `<enclosure>` is appended to the URL of the enclosure,
  which is why `ItemEntero` speaks of the set of its characters;
* an item with no section of its own has that of the item before it in the same
  document (`SeccionDeSuDoc`); a section is whole when it comes from the title, and
  the first word (`\S+`, `PrimeraPalabra`) when it comes from the description;
* an error outside an item pops an empty stack, which is undefined behaviour
  and ends the model (`roto`);
* a document cut short inside an item leaves the strings and the stack, and
  the next documents are spoiled: `ItemEntero`, `SeccionDeSuDoc` and
  `UnaVezPorSubida` are stated while none has been (`truncados = 0`).

The program as it is never gives a feed to `parseXml` once `fetch` has run
(`Feeds`, run `feed_deaf`). `FeedParser` models what the parser does with a
reply that reaches the public slot `readDataRSS`.

`IrcSession`: `pedidos` are the `JOIN`s with no answer yet and `esperas` the
`singleShot` timers that `on_kick` starts. A step is a handler, which the main
thread runs to its end. `Descolorea` is `irc_color_strip_from_mirc`, colour by
colour (`Numero` and `Codigo` are its tests on digits and comma); `TituloEn`,
`SeccionEn` and `Url` are the cuts of `miraSubida`. A connection that is lost is not
opened again.

`Muestra` is not the code but what an IRC client shows of a line, by the convention
of mIRC, and `Dice` is the line the bot means, in the form `miraSubida` expects.
`IrcSessionAssumption` says of the bot that its lines, *as they are shown*, are
`Dice(u)` for some upload, or do not begin as an announcement, or have no URL. That
the code takes off exactly what the convention hides is therefore proved
(`DescoloreaMuestra`), not assumed. The code does not strip italics, and cuts at the
first and the last dash of the line, so a dash in the section or in the URL moves
the cut: the assumption leaves out those, and blanks at the ends of a title or
`http` inside it. Titles with dashes are not left out.

### Downloads and the code

`fase` follows the main thread after the file has been written (`registra`,
`escribe`, `avisa`); `abierto` is the thread that has the one `QFile` of the log
open; `lectura`, `leido` and `cerrojo` are `verLog`, which takes the mutex that
`saveLog` does not. `vuelo` holds the requests with no reply, `posts` the hash of
their titles. `ClaveDe` is the key under which `readDataTorrent` looks for a
title: host and path of the reply, so that a reply can find the title of another
request. `NombreDe` are the names it may give the file, `.torrent` alone included.

What the model shows of the code: a relative URL is asked for, and refused by
the library, unless `urlDownload` is a whole URL (`Absolutos`); `posts` only grows,
but for replies whose header has no file name; a failed download is never tried
again, though its title is recent and its rule stamped; trackers are copied at
construction, and one added later is not known. How much of a file reaches the
disk (`file.write` is not looked at) is not modelled. The data race inside `QFile`
is taken as an open that is atomic and fails when the file is open.

### MailSender and the code

`paso` is the command whose reply `send()` waits for. Three streams lie between
program and server: `ordenes` on their way out, `red` on their way in, `buf` in
the socket. `waitForReadyRead` may find any number of lines, or half a line, and
`read()` takes lines up to the last of a reply *or the last that has arrived*:
`Leidas`. So the rest of a reply is read as the reply to the next command, and a
`send()` that goes out of step fails. `Devuelve` is a return. The server
(`srv`) answers or refuses anything, in one line or in two, and `Corte` is the
loss of the connection. A message on its way when `send()` gives up may still be
taken: `MailDelivery` promises nothing of `false`, and the code, which repeats a
notification that failed, may send one twice (QUIT refused after acceptance).

### Feeds and the code

`temporizador` is the `QTimer`. A negative interval starts none; a product in
milliseconds that does not fit in an int (above 35791 minutes) may be any, so it
starts or does not; `setInterval` from the thread of a call, which the library
does not allow, leaves the timer running or stopped. `Fetch` begins with
`httpRss.disconnect()`, which takes away every connection of `httpRss`, that of
`finished` to `readDataRSS` among them.

## 3. Runs

| Run | Bounds | What it shows |
|---|---|---|
| `shared_rules` | 2 handlers, 2 calls, 2 titles, 2 accepted, window of 1, 2 days, lists of 2, one request of each kind | under every interleaving: types, exclusion, `recientes` is the window on the last accepted titles, no title again within it, no rule in two places, the methods that return bool tell the truth, a scan ends, the mutex is released |
| `serial_rules` | 2 handlers, 2 calls, 3 days, lists of 3 (expired in a row, unreadable expiry, mail rule, two trackers, a rule that has downloaded) | with no critical section inside a scan: the code implements `RuleMatching`; indexes stay in range; the prefix of the scan is settled; minimum days; rules leave only when due |
| `grpc_life` | 2 calls at a time, 4 in all, 2 signals | nothing uses a destroyed object, a signal or a `Shutdown` ends the loop, a server that was up lets the process end |
| `settings` | 1 handler and the main thread, 2 changes, 2 saves, 1 crash, lists of 3 | with no scan inside a save: a save stores all of memory, a start loads it, a crash leaves a mixture of old and new and nothing else, the state before the save stays readable, list and hash of auths agree |
| `announcements` | 2 uploads, one with a section of two words, 2 arrivals (documents, lines, kicks), 2 items, 2 channels, window of 1 | an item gives its own title, link and section, also after a broken document; the lines of the bot, plain or coloured, come through as they were, and no others; an upload seen on both ways is taken once; a channel lost to a kick is joined again |
| `downloads` | 3 requests, 2 links, 2 names that may become one, 2 readers, 2 readings | no file is written over; a reading of the log is whole or empty; the log is the list of files, in order |
| `mail` | 2 sends, with login or without | `send()` implements `MailDelivery`; nothing is sent before the greeting is read, and no login without a user; the text goes only to a server that waits for it; every `send()` returns |
| `settings_scan` | 1 handler, 1 change, 1 save | **violated**: the scan removes a rule while a handler saves, and another rule is not in the file (rssani_lite.cpp:326) |
| `stamp_race` | 1 handler | **violated**: the stamp lands on another rule (rss_lite.cpp:282) and a rule downloads twice in a day |
| `delete_race` | 2 handlers | **violated**: `BorrarRegexpI` answers true and deletes nothing (grpc_server.cpp:137) |
| `grpc_stop` | one signal, no calls | **violated**: a signal handled when the server is up and not yet stored stops nothing, and the destructor comes to `join()` with the server still serving (grpc_server.cpp:259); a `Shutdown` call served that early does the same |
| `feed_deaf` | 2 trackers, 2 periods | **violated**: after the first `fetch` no reply is handed to `readDataRSS` (rss_lite.cpp:64) |

Why these bounds. A window of one (`MaxRecientes` = 0) fills with the first
accepted upload, overflows with the second, and lets the first title come back
with the next; windows of every size are the matter of the proof. Two calls make
every pair of handler and handler, and of handler and scan; a race needs two
actors and one shift. Lists of two and three positions have a first, a last and
a middle; two expired rules in a row are the case where removal while iterating
goes wrong. Two days let a rule expire between scans or inside one; three cover
before, on and after an expiry and a distance of one and of two days. Two saves
make a second backup of the day and a save over the elements of an earlier one;
one crash may fall at any value of either.

In `announcements` two arrivals are two documents (what the first leaves meets
the second), a document and a line (both ways of one upload), two lines, or two
kicks (from one channel or from two); two items are enough for one to inherit
what another left. The shapes of an item are four: the order of RSS, link only
in the enclosure, title last and no link, link after the enclosure. In
`downloads` three requests put two replies on one name with a third in between,
and a file may be taken away at any time. In `mail` the second send meets what
the first left, and every reply may be refused, split, late or missing.

Every bound is a constant (`MaxDia`, `MaxAceptados`, `MaxLlamadas`, `MaxSenales`,
`MaxCambios`, `MaxGuardados`, `MaxCaidas`, `MaxElementos`, `MaxLlegadas`, `MaxItems`,
`MaxPeticiones`, `MaxConsultas`, `MaxEnvios`, `MaxVueltas`), which is why deadlock
is not checked: at the bounds, at `roto` and at `fin` the system really stops.

Properties of `Spec` and of `SerialSpec`. `SerialSpec` forbids the critical
sections and midnights that fall *inside* a scan, and nothing else. It is the
behaviour of the program while nobody manages it during an announcement, and
the one it would have if `miraTitulo` took the mutex. `DiasMinimos` holds there
and fails in `Spec`: that is the finding of `stamp_race`. `NuncaFueraDeRango` and
`SoloSeVaLoDebido` fail in `Spec` for the same reason.

`SpecEnCalma` of `Settings` is the same idea: no scan inside a save. The promise
of `SettingsStore` holds there; `settings_scan` drops the restriction.

Fairness. The operating system runs every thread, so the scan
(`WF_vars(PasoPrincipal)`), each handler (`WF_vars(PasoRpc(c))`), `main` and the
server thread have weak fairness. `QMutex` keeps no queue, so no handler has
strong fairness, and no property says that a particular waiter gets in. Clients,
announcements, midnights and signals are not fair: nobody has to come. Calls are
finite in a behaviour; a client that adds rules without end could keep a scan
going, and `EscaneoTermina` does not deny it.

`MailSender`: only the program's own step is fair (`WF(PasoCorreo)`), because
`m_timeout` bounds each of its waits; the server and the network owe nothing, and
`EnvioTermina` holds with a server that never answers. `Announcements`: the rest
of a document that has begun (`parseXml` is a loop that nothing suspends), and
for each channel its timer and the answer of the server to its `JOIN`.
`VuelveAlCanal` therefore assumes a server that lets the program in: the code
does not repeat a `JOIN` that is refused, nor open a lost connection, and the
property says nothing of those.

## 4. Proofs

TLAPS proves, for every value of the constants that the named assumptions allow:

`SharedRules` (any rules, requests, relation `Coincide`, number of handlers;
assumption `SharedRulesAssumption`):

* `TypeCorrect`: `Spec => []TypeOK`. `TypeOK` is inductive because it also says what
  the local variables hold where they are used: a handler at `mete` has a rule in
  its hand and a target of at least 1, the scan has an announcement, and at
  `sella` the rule that decided.
* `MutexExcludes`: `ExclusionMutua`, inductive with `TypeOK`.
* `VentanaDeRecientes` and `SinRepeticiones`. `SinRepetidosCercanos` is not
  inductive: it does not say why the title of the scan in progress is new. The
  invariant is `VInv`: `recientes` is the window, the scan walks only for a title
  outside it, and no repetition so far. `RecuerdaVentana` is the arithmetic of one
  accepted title, for any `MaxRecientes`, 0 included.
* `CadaReglaUna`: `ReglasUnicas`. Its strengthening `UInv` adds that every uid was
  given out before, and that only a handler at `mete` holds a rule; that no
  second one does comes from `ExclusionMutua`. The scan may remove at any time.
* `RespuestaCierta`: the action property `ConfirmaLoHecho`, with `QInv` (only
  `borrarRegexp(string)` is ever in the middle of its loop).

`SerialRules` (every behaviour of `SerialSpec` is one of `Spec`, so all of the above
is at hand):

* `SiempreEnRango`: `NuncaFueraDeRango`. `SInv` says that during a scan nobody holds
  the mutex, that past the loop test `i` is in the list, and that the target of a
  move still fits after `takeAt`.
* `LoPasadoNoDecide`: `PrefijoDescartado`. `PInv` adds to the prefix what the scan
  knows of the rule at `i` (not expired from `casa` on, matching from `modo` on), which
  is what makes the prefix grow by one, and shows that a removal, which shifts
  what follows, leaves the prefix as it was.
* `DiasEntreDescargas`: `DiasMinimos`. `FInv` says that a rule carries its date with it,
  in the list or in the hand of a move: one no earlier than any of its downloads;
  and that at `sella` the rule at `i` is the one whose days were counted. `Spec` does
  not keep the last part: that is where `stamp_race` gets in.
* `NadaSePierde`: the action property `SoloSeVaLoDebido`, step by step. `VenceInv` says
  that the rule the scan is about to remove is the one whose expiry it has read.
* `LoSerialCumple`: the refinement `CumplePromesa`, every step of the scan and of the
  handlers a step or a stutter of `RuleMatching`. `EInv` ties the verdict to the one
  place of the scan that has it, says that the rule to be stamped does not mail, and
  that the index of a deletion by pattern has passed no rule with the pattern. A
  handler takes effect in its first step inside the mutex: from there the mapped list
  (`ListaPrometida`) is already what the rest of the method will leave, and its other
  steps are stutters (`Prometida`, `MueveCumple`, `BorraSCumple`).

`GrpcServer`: `GrpcTypeCorrect`, `MutexDeUno`, `NadieTrasDestruir`. The invariant of the
last one ties the places of `main` to those of the thread and of the library:
after the join the thread has ended, and the service has been shut down or was
never there, so no call is in progress.

`Settings` (any values, rules, auths, threads, saves and crashes; assumption
`SettingsAssumption`: the files a first start may find have at least as many elements
as their sizes say, as the program writes them). The first three hold for `Spec`,
that is, with scans inside saves too:

* `PrevioSiempreEnDisco` (`PrevioEnDisco`). `PrevioInv`: until the copy is made the file is
  the one before the save (`cache = fichero`, so flushes change nothing), and from then
  on the copy is.
* `SettingsTypeCorrect` (`TypeOK`). A file is well formed only because, in each loop of
  `writeSettings`, the cache holds the elements before the index (`EscritosInv`) when
  the size is written.
* `HashSiempreConcuerda` (`HashConcuerda`): adding, deleting and loading auths leave the
  hash with the last auth of each tracker in the list, and no other.
* `SettingsKeepTheStore` (`GuardaTodo`), for `SpecEnCalma`. `GInv`: in a save the cache has
  the new values up to the place of `writeSettings` and the old ones from there on,
  each list is the old one, empty, or the new one (`PrincipalInv`, `ListasInv`), so that
  the file, wherever it was flushed, is one of the mixtures of `SettingsStore`
  (`MezclaInv`), and at the end of a save it is all of memory.

`Downloads` (any links, names, cleaning of names, readers; `DownloadsAssumption`):

* `DownloadsTypeCorrect`, and `FicherosIntactos` (`NoSobrescribe`) from it.
* `LecturaEntera` (`VerLogEntero`). `LogInv`: who has the log open is the one that is at
  the place in the code where it does, and what a reader has is a prefix of it.
* `LogFiel` (`RegistroFiel`). `RegInv`: an increasing map from the lines to the files of
  which the line is done, onto when nobody ever read.

`MailSender` (no assumption):

* `CorreoTypeCorrect` (`TipoCorreo`: the types, `TipoDialogo`, and what goes with each
  place of `send()`, `TipoLugar`). `LInv`: the greeting is the only thing on its way
  while it is awaited, and no line is here before it is given, so `EHLO` goes out
  only after it has been read; no socket before the connection and after the return;
  the places of the login are entered from the reply to `STARTTLS`, with a user.
* `TextoEsperado` (`CuerpoEsperado`). `DInv`: DATA is the last command on its way while
  its reply is awaited, only that reply has the code 354, and when it is on its way
  or the server waits for the text nothing else is. So a reply left over from
  before cannot let the text out.
* `CorreoImplementaEntrega` (`CumpleEntrega`): every step of the dialogue is a step or a
  stutter of `MailDelivery`. `EInv`: while the reply to the text is awaited and the
  message has not been taken, the lines that are here are 354 or a refusal, so
  none passes for the acceptance.

`Announcements` (any uploads, texts, lines, channels, orders of fields, and any number
of documents; assumptions `UploadsAssumption`, `FeedParserAssumption`,
`IrcSessionAssumption`):

* `LoQueDiceElBot` (`IrcFiel`). `DescoloreaMuestra`: for every line, what the code strips is
  what the convention hides, a colour with no number, with one or two digits, or with
  a comma that is or is not part of it. Then the cuts, on a line of the form the bot
  writes: its first and last dash are those around the title (`GuionesDeLinea`), so
  section, title and URL are the upload's (`SeccionDeLinea`, `TituloDeLinea`,
  `UrlDeLinea`, `DiceLoSuyo`), whatever dashes the title has.
* `AnunciosTypeCorrect` (`TypeOK`). `Marcha` says where in a document the parser may be;
  the pop at `</item>` finds the entry of its item because an item is open only
  inside a document. The other pop, after a syntax error, finds the stack empty when
  the error is outside an item: that is `roto`, not excluded by the theorem.
* `ItemEnteroSiempre`, `SeccionDeSuDocSiempre` and `UnaVezSiempre` (`ItemEntero`,
  `SeccionDeSuDoc`, `UnaVezPorSubida`). The invariant is `CInv`: `BInv` (types and
  `Marcha`) and, while `truncados = 0`, `Documento` and `Anunciado`. `Documento` is what
  the strings that outlive an item hold: between items nothing (`EntreItems`); inside
  one, what has been read of it and nothing of another: `titleString` and what is left
  of the text make the title (`Titulo`), the link is the item's (`Enlace`), and the
  section carried over is that of an item already seen in this document, whole or
  its first word (`SeccionLlevada`). `Anunciado` is what was announced and taken: `recientes` is the
  window on the titles taken (`Ventana`), and between two times that an upload is
  taken more than `MaxRecientes` others are (`Separados`).
  `truncados = 0` is not a convenience of the proof: after a document cut short
  inside an item the properties are false of the code, as section 2 says.

`ListProofs` says what `RemoveAt`, `InsertAt`, the edits and `EnOrden` leave at each
position, and that an order-preserving list of the positions left is `EnOrden`
(`EnOrdenUnico`). From these the deletions of rules and of auths and the cleaning of
titles and lines follow with no induction of their own over lists.

Only model-checked:

* liveness (`EscaneoTermina`, `CerrojoSeLibera`, `SenalAcabaExec`, `ShutdownAcaba`,
  `FinalAlcanzado`, `EnvioTermina`, `VuelveAlCanal`): fairness and `ENABLED` are out of the
  reach of the prover.

Every other property of a passing run, invariants, action properties and the three
refinements, is stated by a theorem. The properties of the runs that expect a
violation are false, and have none.

## 5. Not modelled

* `rssani.proto` and the build files: no behaviour of their own; the serialisation is
  generated code.
* In the mail: the text itself, MIME, attachments, cc, bcc, and the proxy. `sendMail`
  of `Rss_lite` uses none but the text. That it copies options another thread may be
  changing is a data race on a `QString`, with no value to model.
* In IRC: the PING of `on_timeout`, which changes no state of the program, and
  messages of the server with no effect on channels or announcements.
* In feeds: the headers of requests, and `pubDate`, of which the date is made and never
  used.
* In the settings: the IRC group and the SMTP options, which no operation changes, and
  a first start with no file.
* The read-only RPCs copy state under the mutex. `debugea` and `salYa` have no caller.

The parts of the log that only format lines, and `qDebug`, are left out everywhere.

## 6. What could be added

The components that change state all have a module. What is left is of two
kinds: writes that fail (`file.write`, `QFile::copy`, `QSettings::sync`), which the
code does not look at and no document promises anything of; and the composition of
`SharedRules` with `Announcements` and `Downloads` in one state space, which would
check again what the verdict of `miraTitulo`, shared by name, already joins.
