# Tomas in TLA+

Tomas attaches an agent to running JVMs from a web page. The agent intercepts
the controllers of the JVM it is in and opens one TCP connection to the process
that attached it. The page itself is a Vue application whose component is fetched
and compiled in the browser. This directory models that system and the parts of the
JavaScript runtime that carry the page, checks them with TLC, and proves what matters
most with TLAPS.

## 1. Inventory

| part | source | state | operations | what makes it correct |
|---|---|---|---|---|
| agent boot | `agent/.../TomasAgentBoot.java`, `agent-starter/.../AgentApplication.java` | the monitor of the class, the system property `tomas agent start`, the singleton and its `client`, installed transformers | `premain`, `agentmain`, `main`, `init`, `installOn` | one boot per JVM for any number of racing calls; no connection without interception; a failed boot hangs nobody |
| agent client | `agent-starter/.../client/Client.java` | the singleton, the connecting thread, the field `channel` | `getInstance`, `startConnect`, `connect`, `sendMessage`, `closeConnection` (a no-op: `isStop` is `final` and true) | one connection per life of the JVM; the thread ends when the connection does |
| heartbeat | `client/HeartBeatReqHandler.java`, `handler/HeartBeatRespHandlerAdapter.java`, `common/.../MessageUtil.java` | the timer | start on authentication, cancel on error, beat, answer | at most one timer; a beat is answered (it is not: the message factory recurses for ever) |
| session cache | `common/.../ChannelCache.java` | a map from ids to channels, a read/write lock | `addSession`, `removeSession`, `getSession`, `resetSession` | operations are atomic, locks are released, closed channels are forgotten (they are not) |
| TCP server | `starter/.../netty/NettyServer.java` and its handlers | the server channel, two event loop groups, the channels | start, stop, channel initialisation, close, echo | what is served is cached under its id; what is closed is released (it is not) |
| codec | `MsgpackDecoder`, `MsgpackEncoder`, `Header`, `ProtocolMessage`, message enums | none | encode, decode; both swallow errors | an answer fits the frame whenever the request did (it need not) |
| attach | `core/.../AttachVirtualMachine.java`, `starter/.../IndexController.java` | a singleton, attach handles | `/attach`, `/list` | a request is answered; "ok" means attached (it does not) |
| starter | `StarterApplication.java` | the process | run Spring, then start the TCP server | - |
| browser | `static/components/WebSocket.vue`, `templates/index.html` | two timers, a counter, a socket | connect, reconnect, send, destroy | bounded retries, nothing left after destruction |
| page loader | `static/js/lib/http-vue-loader.js` | one load of a `.vue` file: request, sections, styles in the document, a promise | `load`, `normalize`, `compile`, `onStyleLoaded` | a component is compiled whole and only from final sections; a load ends |
| Vue runtime | `static/js/lib/vue/vue.js` | dependencies and caches of watchers, the queue and the list of `nextTick`, old and new children, factories of asynchronous components | set and read data, evaluate, flush, `updateChildren`, `resolveAsyncComponent` | cached values and views are never stale; no change is lost; children are in order; a component that has come is shown by all |
| path utility | `common/.../PathUtil.java` | a map from names to files | `getFile`, `getFileByClassLoader` | what is found was there; the cache does not lie (it does) |
| class loader | `agent-starter/.../TomasClassloader.java` | the classes it has defined | `loadClass` | no class is defined twice; one name is one class |
| helpers | `TomasClassFileTransformer`, `MyControllerAdvice`, `ExceptionAdvice`, `HttpResult`, `WebSocketConfig` | none | - | - |

How they interact. `/attach` (an HTTP thread of the starter) calls
`AttachVirtualMachine.attachJvm`, which blocks in `loadAgent` while the attach
listener of the target JVM runs `agentmain`. `agentmain` runs
`TomasAgentBoot.main` under the monitor of its class, which loads
`AgentApplication`, installs the transformer and starts a thread in
`Client.connect`. That thread connects to `127.0.0.1:12345`, where `NettyServer`
accepts on its boss loop and initialises the channel on a worker loop, entering
it in `ChannelCache`. The starter process and every JVM may end at any point. In the
browser, `index.html` names `WebSocket.vue`; the first instance that renders it makes
Vue call the factory of http-vue-loader, whose promise gives Vue the component.

What is hard: calls of the entry point race (the main thread with `-javaagent`, the attach
listener for each `/attach`); every step of the boot may throw and the exception is
swallowed; requests are served before the TCP server is bound; a connect is tried once,
ever; the cache is shared by all event loops; a handler intercepts `close` without passing
it on. On the page nothing runs in parallel, but answers, timers, renders and destructions
come in any order, and code called by the scheduler, or by an evaluation, changes what
both are working on. PROJECT.json lists each hazard at its line with the properties that
would catch it.

## 2. Modules

`BootOnce` is the abstract specification of the boot: each JVM goes from fresh to
booting and then to booted or failed, and back to fresh only by exiting.

`TomasAgentBoot` is the boot as coded. `pc[j][t]` is where thread `t` of JVM `j`
is: waiting for the monitor, checking the property, loading, constructing,
installing, getting the client, connecting. One action per step that can fail;
failing means leaving `main` with everything done so far kept, as the `catch
(Throwable)` does. `IOException`s of `appendToBootstrapClassLoaderSearch` change
nothing and are part of `LoadApplication`. `Entry` says whether calls carry an
`Instrumentation`: the JVM itself prefers the two-argument methods, but the
one-argument ones are public and the code handles them. `AgentApplication.main`
and `init` are `synchronized` too, on a class of their own: `appMonitor`, held
from `LoadApplication` until `main` is left. The code reads and sets the system
property in two steps, and so does the model (`AlreadyStarted`, `NotStarted`, then
`SetProperty`): only the monitor makes the pair atomic. `Phase` maps the state to
`BootOnce`.

`SessionMap` holds the operators on the cache's map. An id is a text made from the
channel, and no text equals a channel: `RemoveSession` therefore asks for `ContainsValue`
of something that is never a value, and sessions are never released. `ChannelCache` runs
the four operations thread by thread, with the lock, the test, the second access and the
finally block as steps; a `Null` argument throws inside the `try`, and the exception is
dropped.

`NettyServer` has the server channel, the state of the event loop groups, the life of each
channel (free, pending in the backlog, accepted, open, closed), and the cache.
`closeRequested` is a history variable that records that a handler called `ctx.close()`.
The exception handlers of the `ChannelInitializer` are not modelled: the initializer has
left the pipeline by the time they could run, so they never do. What becomes of the
backlog when the server channel closes (`ServerChannelClosed`) is the kernel's and Netty's
doing, and external. Exceptions from the socket or the decoder stop at
`MsgpackDecoder.exceptionCaught` and change nothing; only a failing handler behind it
reaches `ctx.close()`, and of those only the heartbeat request fails.

`Tomas` composes `BootOnce`, `NettyServer` (both by `INSTANCE`, on shared
variables), the client and the attach requests. `ClientConnects` is one step of the
client and `Connect` of the server, since the kernel completes a connection
before anyone accepts it. `StarterExit` closes every channel and empties the
cache; `JvmExit` leaves the server with a channel whose peer is gone, until it
notices (`PeerGone`). The composition uses `BootOnce` for the boot because
`TomasAgentBoot` is checked and proved to implement it.

`AgentLink` is the messages of one client and the server that answers them. A
message is its number and its payload's size in bytes. Three queues hold what is on
its way: `tasks` (writes waiting in the client's event loop), `requests` and
`answers` (frames in the two directions). Each message may be lost at five places:
it may be too large for the client's encoder (more than 65535 bytes), too large for
the server's decoder (more than 65533), its answer, seven bytes longer, may be too
large for the server's encoder or for the client's decoder, and the connection may
be missing or gone. At each place an exception is dropped and the code goes on, so
each is a branch of `RunTask`, `Serve` or `Receive`. `SetChannel` is a step of its
own because the listener may run after the connect, and `channel` is never taken
back. `seen` is there because the field is not volatile: the main thread may see
null until it has once seen the channel. What a client process may do while its
connection is refused or over, the module keeps: it sends, and all is lost.
`EchoService` is what a caller may rely on. `AgentLink` leaves `NettyServer`'s other
channels alone: pipelines of different channels share nothing but the cache.

`WebSocketClient` is the component in `WebSocket.vue`: the props and data that
control it, and up to `Socket` sockets with their callbacks. The component is
single-threaded, so each callback is one action. `Become` moves a socket on;
`errorCallback` is what both an ERROR frame and a close call. A closed socket is used
again as a new one: nothing refers to it any more, except `stompClient` if it was the
last, and the component treats a closed one and a fresh one alike until it
overwrites the variable. `connectCnt` stops at `limitCnt`, beyond which the code makes
no difference, and the history variable `attempts` at `limitCnt + 2`, above every
value that a property tells apart. `PromptClose` says whether the broker's close
follows its ERROR within the minute of the timer. When it does not, the callbacks of a
socket that was given up still write the flag and the counter of the component, and
`OneThingAtATime` and `DestroyIsClean` need not hold; of `FlagIsAccurate` there remains
that a flag that is set is true (`SetFlagIsTrue`), while a late close may take it back
although the newer socket lives. The connect callback subscribes over the client made
last, whose socket need not be its own: while that one is connecting, `subscribe` throws,
and neither the flag nor the counter is set (`Connected`).

`HeartBeat` is the client's handler on one connection. `timer` says which tasks the event
loop holds, `heartBeat` which one the handler knows. `scheduleAtFixedRate` drops a task
that throws, and the first beat throws, because the message factory calls itself for ever
(`FactoryReturns` is false); the field still holds the dead task, so no later acceptance
starts another. An exception in the handler cancels the task and goes on to the end of the
pipeline, where `MsgpackDecoderHandler` closes the connection. The server's messages are
external: nothing in the repository sends `AUTH_CHANNEL_RES`.

`Attach` is what an attach request of `Tomas` stands for: each request with its own thread
goes through `getInstance` (first check, monitor, second check), `attach`, `loadAgent` and
`detach`; a load is a call of `agentmain` on the listener of the JVM, and from there on
the module is `TomasAgentBoot` (by `INSTANCE`), with `premain` racing it. `handle` says
what becomes of the request's `VirtualMachine`. A pid may be used again by a new JVM. A
field that is not volatile might let the unguarded read see an instance before it is
constructed; the class has no fields, so nothing depends on it. For the same reason the
two unguarded reads of the field (the test and the return) are one in `FirstCheck`.
`detach` does not throw in HotSpot. Errors (as opposed to exceptions) of the attach API
are left out.

`PathUtil` has one action per look at the file system or the map, and files that are
created and deleted between any two of them. `contains` and `get` are two looks; while one
thread resizes the `HashMap` others may miss entries, and two threads that put at once may
lose some. `raced` is history: which threads have had another one change the map between
their `contains` and their `get`. The test before `put` is inverted in the code: what is
cached is what has gone. A resource that is not there makes `url` null, whose exception is
caught, so that the method answers null before the other two places are tried, and its
caller throws on that null.

`TomasClassloader` is `loadClass` under the monitor of the loader. What findClass may
do (define, refuse with an Error, throw) is external, and so is the parent, behind which
`ClassLoader.loadClass` tries the loader's URLs again. A class named `java.*` in the
URLs is let through, which the JDK refuses; no property tells the two apart.

The next five modules are about the JavaScript that runs the page. They are read from
`vue.js`, the development build of Vue 2.6.11; the page loads `vue.min.js`, the
production build of the same release, which lacks warnings and the check for circular
updates.

`Reactive` is how Vue knows what to compute again. `deps[w]` and `newDeps[w]` are the
dependencies of a watcher's last evaluation and of the present one, `subs[d]` who is
told of a change of `d`, `targetStack` the evaluations under way. A getter is "p && q"
with any two operands, because `&&` is the least that makes what is read depend on what
was read; `Init` chooses them. `SubsAgree` is kept by impure getters, too. The other
three properties are about `Pure` ones: a getter that sets a property it has read is
told that it is dirty, and then `evaluate` resets `dirty`. After a render that throws,
the view depends only on what it had read, which `ViewIsFresh` and `DepsAreExact`
except. Nested objects, deep watchers and the destruction of watchers are left out.

`VueScheduler` is what happens between a change and the run of its watcher: the queue,
`has`, `flushing`, `waiting`, the list of callbacks that `nextTick` empties in one go, and
the flush in steps (take, run, check, finish), since the code that a watcher runs may
queue, create and destroy watchers. `Limited` and `MaxChanges` say whether the page ever
stops. `stale` is history: which watchers have not seen a change yet.

`UpdateChildren` is the algorithm that turns the elements of one list of children into
those of another, one action per branch of its loop, with `addVnodes` or `removeVnodes`
after it, which is one element at a time. Elements are numbers, the document is a
sequence of them. Patching the
children themselves, `removeOnly` and asynchronous placeholders are left out.

`AsyncComponent` is `resolveAsyncComponent` with the factories it knows: those that
return a promise, alone or with components, a delay and a timeout, and those that call
`resolve` or `reject` before they return nothing (`Early`). One that does both is left
out. The module has the factory's fields (`resolved`, `error`,
`loading`, owners, timers), what each owner shows, and which renders are queued. A
component that comes after the error was shown is kept, but the error stays. A load
that failed is not tried again. Owners are a set; one that is destroyed stays among
them until the factory is settled, unless it is the first, which the code treats the
same way and the model as well.

`ComponentLoader` is one load of http-vue-loader: the request, the sections that are
normalized side by side (each may be in a file of its own), the compilation in one go
(template, script, each style), the styles that are put into the document first and scoped
when they can be, and the promise. A script that throws with a line number makes `compile`
itself throw. Exports that are null take no template and no name, which rejects the
promise (`Finish`). The test that is to spare a file without template the scoping of its
styles looks for the template in the style, finds it always, and is followed by an
exception with the style in the document (`Unscopable`). Names, URLs, the scope's number
and `<base>` are left out.

`PageComponent` composes the two (both by `INSTANCE`): the promise that `AsyncComponent`
waits for is the one `ComponentLoader` settles.

In every module the definitions called "Faulty variant" are what the code would
be with a plausible mistake. No specification uses them; each shows, put in the
place of the definition it follows, that some property notices the mistake.

## 3. Runs

| run | bounds | what it shows |
|---|---|---|
| `close_closes` | 1 channel | a channel that a handler asked to close stays open for ever |
| `sessions_are_released` | 1 channel | its session stays in the cache after the handler has asked for its removal |
| `heartbeat_is_sent` | 2 tasks, 1 message ahead | the task that was started dies of its first beat, and nothing is sent on the open connection |
| `no_template` | 1 style | a scoped style of a file without template enters the document |
| `tomas` | 2 JVMs, 2 connections in all | two agents at once, or one JVM in two lives, or a second connection that the code should never open |
| `agent_link` | 3 messages of 5 sizes | one size for each place at which a message can be lost, the connection apart, and three messages: one being answered, one lost, one behind it |
| `websocket` | 2 sockets, limit 3, `PromptClose` | a retry begins while an older socket might still be alive; three failures in a row reach the limit with and without one counted twice |
| `destroyed_is_quiet` | 1 socket | a component destroyed while connecting leaves its socket and callbacks |
| `attach` | 1 JVM and 1 pid of none, 3 threads, 2 requests, both kinds of call | one request creates the instance while the other waits for the monitor, or sees the field; two loads for the one listener; in the boot, one holder of the monitor and two waiting while the first fails at any step (with two threads a third call that arrives after the failure could not wait at the same time). JVMs are independent (lemma `Independent`), so one is enough |
| `helpers` | `HeartBeat`: 2 tasks, 3 messages ahead. `PathUtil`: 2 threads, 1 file, a map resized at its first entry. `TomasClassloader`: 2 threads, 5 names. `ChannelCache`: 2 threads, 2 channels, all operations. `NettyServer`: 2 channels | a second acceptance while a task runs, after it died, and after an error; the look of one thread between two of the other, and both in the map; one name of each kind (the JDK's, the loader's, the parent's, both's, nobody's), two threads in one name or in two; a writer between the two accesses of a reader is the only way to break atomicity, which takes two threads, and two channels give a get of another key than the one removed; one channel in the backlog or handed over while the other is served |
| `vue` | `Reactive`: 2 data and a view over 2 computed properties, or over one that may throw or set data. `VueScheduler`: 3 watchers, 1 callback, `MaxUpdateCount` 1. `UpdateChildren`: lists of up to 4 children of 1 kind, or up to 3 of 2 kinds, 2 keys or none | evaluations three deep whose branches change; a watcher queued before, at and behind the place of the flush; both ends of the lists moving, the map of keys in use and a child taken from between |
| `page` | `AsyncComponent`: 3 owners, 14 forms of factory. `ComponentLoader`: a script and 1 style, or 2 styles. `PageComponent`: 2 owners and no style, or 1 owner and 1 style. `WebSocketClient`: 3 sockets, limit 3, late closes. `VueScheduler`: 3 watchers, 3 changes. `UpdateChildren`: up to 3 children of 1 kind | one owner first, one noted, one destroyed, in every order of answer, delay and timeout; one style scoped while the other waits or fails; a second owner that comes while the file is loaded; two sockets given up that still call back while a third connects; each watcher on the last change |

`MCAttach` checks the boot as well: every step of
`Attach` is one of `TomasAgentBoot` or leaves its state alone (theorem `AttachIsBoot`), and
each step of the boot is there, by any of the three threads.

`MCHelpers`, `MCVue` and `MCPage` each bring together modules that share nothing (but the
session map, which `ChannelCache` and `NettyServer` both use in `MCHelpers`): the initial
state chooses the one that runs, and the others stay as they are, so that each module is
checked as if it were alone. Their properties (`HeartBeatsAreContained`,
`DependenciesAreRight`, `OwnersAreServed`, ...) are conjunctions of named properties of
the modules, which say in full what they mean; each of these has a faulty variant of its
own in PROJECT.json. So has each of the three parts of `NobodyWaits` of `Tomas`. The type
invariants of the modules about the page's JavaScript and of the helpers are among those
conjuncts; those of the other modules are theorems (`TypeCorrect`, `CacheTypeCorrect`; for
`Attach` a part of `AttachInductive`) and not checked again. `vue` checks safety and uses
that data are interchangeable; `page` checks safety and liveness and uses no symmetry.
`FewGetters`, `Lists`, `SmallFile` and `SmallPage` are bounds of these runs, named where
they are used; the theorems about the modules themselves (`ReactiveIsRight`,
`ChildrenAreAlwaysRight`, `FileIsRight`, `PageIsRight`) do without them. The assumptions
on the constants of `HeartBeat`, `PathUtil`, `TomasClassloader` and the modules about the
page's JavaScript are definitions (`SchedulerAssumption`, ...), which these three modules
assume together.

The number of channels bounds the connections made in one behaviour: a channel is
never reused, as Netty's are not. When none is left a connect in `Tomas` can only
fail, which the code may do anyhow. `MaxMessages` bounds the messages that are sent,
and `Socket` the sockets alive at one time: when none is free a timer waits until
one is closed. The saturated counters of `WebSocketClient` are named above. `MaxInbox`
bounds the messages that wait in `HeartBeat`, `MaxChildren` (in `vue`, `LongList` and
`ShortList`) the lists, `Styles` the styles
of a file, `MaxChanges` the changes of a page that stops; `Threshold` and
`MaxUpdateCount` (100 in the code) are small so that they are reached. In `Attach` each
request is made once. Nothing else is bounded.

Deadlock checking is off where the system may really stop: a stopped server whose
channels are closed (`NettyServer`), a client whose connection is over and who sends
no more (`AgentLink`), a component that has given up or is destroyed (`WebSocketClient`), a
connection that is closed (`HeartBeat`), requests that are all answered (`Attach`), a
page that has stopped changing or whose scheduler is stuck (`VueScheduler`), an update
that is over (`UpdateChildren`), a load that is settled (`AsyncComponent`,
`ComponentLoader`, `PageComponent`).

The five violation runs are disagreements between the code and what its own comments and
messages say. They are listed as findings in PROJECT.json: a handler's close does not close
(`CloseCloses`), nor does it release the session (`SessionIsReleased`), no heartbeat is ever
sent (`HeartBeatIsSent`), a page left while connecting stays connected
(`DestroyedIsQuiet`), and a file without template is not spared its scoped styles
(`NoTemplateNoScoping`). Other disagreements show in properties that hold: `/attach`
answers ok for a load that threw, whose handle stays open
(`HandlesAreDetached`), what `PathUtil` caches is what
has vanished (`CacheNeedsVanishing`), and after a patch that throws no view is updated
again (`ThrowIsFinal`). Two watchers that change each other's data keep one flush going for
ever, as the check for endless updates counts a watcher that queues itself;
`ViewCatchesUp` is about pages that stop.

### Fairness

- `TomasAgentBoot`: a thread inside `main` keeps running. Getting the monitor is
  not assumed fair.
- `ChannelCache`: the holder of a lock keeps running. Getting the lock is not
  assumed fair: the default `ReentrantReadWriteLock` is not.
- `NettyServer`: the event loops run. Nobody has to connect, send or call `stop`. Only
  the violation run `close_closes` uses it.
- `Tomas`: a request thread keeps running, a boot ends (shown for
  `TomasAgentBoot` as `BootEnds`), a connect succeeds or fails (it has a timeout of
  3 s), and both ends learn of the end of a connection, as TCP on one host tells
  them. Nobody has to attach, start, bind or exit, and the server's own steps owe
  nothing.
- `AgentLink`: the event loops at both ends take their tasks, read what has
  arrived, and notice the end of the stream. Nobody has to connect, send or exit, and
  the main thread owes nothing.
- `WebSocketClient`: an armed timer fires, and the broker closes what it has sent an
  ERROR to. A socket that is connecting may stay so for ever, and nobody has to
  mount or destroy the component.
- `HeartBeat`: the event loop reads what has arrived, and a scheduled task runs. Only the
  violation run `heartbeat_is_sent` uses it.
- `Attach`: every thread inside a call keeps running, which includes getting a monitor
  that is free: each monitor is passed on a bounded number of times (a request is made
  once, a boot is done once), so no thread can be overtaken for ever. Nobody has to
  make a request, start or end a JVM.
- `VueScheduler`: microtasks run, and the flush goes on (`Loop`). The page owes nothing.
- `UpdateChildren`: the loop goes on. `PathUtil` and `TomasClassloader` claim no liveness
  and assume none.
- `AsyncComponent`: queued renders are done and timers fire; the promise may never be
  settled.
- `ComponentLoader`: the browser ends every request, with an answer or a failure, and
  runs the callbacks. `PageComponent` assumes the same and that queued renders are done.

## 4. Proofs

All theorems hold for any sets of JVMs, threads, channels, sockets and instances, any
sizes and any limits, any data, getters, watchers and lists of children. They rest on the
named assumptions only. `NoThread`, `Null`, `NoSocket`, `NoJvm`, `NoKey` and their like
are none of what they stand in for, the names of the fixed places and ticks are no
loader's and no callback's, `Listener` is a thread, `Entry` and the
options of a factory are sets of what the code tells apart, sizes, limits and
bounds are natural numbers, the watchers' numbers are no data, and no channel is the
text of an id. The properties that TLC runs of several modules together are proved of the
runs' specifications; the text below names the argument for each module.

- `AgentProofs`, the boot. `BootsOnce` is not inductive. `Inductive` adds that the
  thread inside `main` is the owner of the monitor (`Exclusion`), that the property is
  set from the first step that can fail on (`BootingIsStarted`), and that what has been
  done so far is determined by where that thread is (`Progress`). From it follow type
  correctness, `BootsOnce`, `ConnectsOnlyInstrumented`, the action property
  `BootIsFinal`, and `Refinement`: every step is a step of `BootOnce` for one JVM or
  changes no phase.
- `AgentProofs`, the requests. `OneInstance` is inductive with the monitor: the request
  between `Enter` and `CreateOnce` is its owner, so that no other creates an instance
  meanwhile. `HandlesAreDetached` needs only that where a request is determines what has
  become of its handle. For these the boot's variables are carried along untouched.
  `LoadedMeansBootOver` needs the boot: steps of requests and of JVMs that come and go
  keep `Inductive`, and a call returns to the listener only from a boot that is over
  (`Loading`). `AttachIsBoot` says that each behaviour of `Attach` is one of
  `TomasAgentBoot`, so that the theorems about the boot hold of JVMs that are attached to.
- `ServerProofs`, the cache. The inductive invariant is the exclusion of the read/write
  lock (a writer excludes every other holder, and whoever is between lock and unlock holds
  the lock its operation asks for: `Locking`), that only operations with a non-null key
  reach their second access, that `removeSession` never does, what a `getSession` that has
  found nothing answers (`NoAnswerYet`), and `GetIsAtomic` itself.
  `RemoveSessionDoesNothing`: for every map and every id `removeSession` returns the map
  unchanged, which is why `SessionIsReleased` is violated.
- `ServerProofs`, the server. The type invariant and `CacheMatchesChannels` are inductive
  together, for `NettyServer` by itself (`ServerIsRight`) and for the run, where it shares the
  map's operators with `ChannelCache` (`CacheIsSound`). `TomasProofs` states the lemmas on
  the session map again, as the two specifications share it only through `SessionMap`.
- `TomasProofs`. `Inductive` adds to the types and to `OneConnectionPerLife` what each
  state of the connecting thread says of the client's field `channel` (`Clients`: no
  channel before the connect succeeds, one from then on, closed if the connection is
  lost), that a free channel has no peer, and that what is served is cached.
  `ServedIsConnected` and the action property `LossIsFinal` follow.
- `WebSocketClientProofs`. Two invariants. One, for sockets closed however late, relates
  the failures counted to the connections begun (`Counting`): the minute's timer is armed
  only while the failures cover the attempts made and are below the limit. It gives
  `AttemptsAreLimited`, and with it `FlagIsTrue`: a flag that is set is true, since every
  close takes it back. The other, under `PromptClose`, says that a timer is armed only
  when no socket can connect any more, so that the socket it opens is alone, and gives
  `OneThingAtATime`, `FlagIsAccurate` and `DestroyIsClean`.
- `AgentLinkProofs`. `InOrder` is kept as `Ordered`: each of the three queues rises,
  each is wholly ahead of the next, and all are behind the last answer. A step moves
  the head of one queue to the tail of the next or drops messages. `Refinement`: every
  step is a step of `EchoService` or a stutter, since the head of `answers` is newer
  than the last answer. `EchoService` states no fairness, so this is all of
  `ImplementsEcho`.
- `HelpersProofs`. `ClassesAreRight`: between `Lookup` and the end of a load a thread
  holds the monitor and its class is not yet defined (`Monitor`), and each place is
  reached only by names that belong there (`Route`). `HeartBeatsAreContained` is inductive
  with the types. `PathAnswersAreRight`: what a call has found, it found at a place where
  the file was at some moment of the call (`History`), the rare places are reached only
  after a file has vanished (`Vanishing`), and an entry that is there at `contains` is
  missed by `get` only if another thread has changed the map meanwhile (`Racing`).
- `PageProofs`. The view (`Views`) and the file (`Files`) are separate, since the loader
  leaves the view alone. `OwnersStayServed` is about every form of factory that the module
  knows: a live instance that is not queued shows nothing or what the factory stands for,
  one with a placeholder is among the owners, so that the answer queues it, and an answer
  leaves neither owners nor timers. `FilesStayWhole`: while a section is under way nothing
  has been compiled, so that no later failure of a section finds a component that was
  handed over. The run's properties `FileIsWholeOrRejected` and `ShownIsWhole` are proved
  within its bounds (`SmallFile`, `SmallPage`), `FileIsRight` and `PageIsRight` of the
  modules themselves without any. The two parts meet in `resolved`, which takes a
  fulfilled promise.
- `VueProofs`, `Reactive`. The reference with which cached values are compared (`True`)
  and the set of what a getter reads (`Read`) are recursive over the watchers. That the
  recursions have solutions is shown by the least watcher without one. `Unread` is the
  heart: a watcher whose value differs after a change has read what changed, directly or
  through a computed property, and so is among those notified. The invariant `Exact` says
  it of watchers at rest, and of each evaluation under way that what it has read is what
  its getter reads up to there. `SubsAgree` is proved for getters that set data or throw,
  too.
- `VueProofs`, `VueScheduler`. `Ticks` are what the microtasks are going to call, in
  order, with one flush among them at most (`Scheduled`). What `has` knows is in the
  queue, once, or has just been taken from it, and during a flush the queue is sorted
  (`Queued`). A change is queued, or was dropped when the loop was broken off, and a
  callback that is to see changes is behind the flush that shows them (`Kept`).
- `VueProofs`, `UpdateChildren`. At every round the document has the elements of the new
  children that are done and of the old ones left over, each once (`ElementsAgree`), in
  order when the new keys are unique (`OrderAgrees`); a child that is done has the element
  of the old child that equals it, if there is one (`KeysAgree`); and the map, once made,
  has the keys of all that are left over (`MapAgrees`). Order is the relation `Precedes`
  between elements, which an insertion changes for one element alone.
  `ThrowNeedsDuplicates`: the place in the map has been cleared only if a new child that
  is done had the same key.

The installed provers cannot use the library's induction theorems, which take an operator
as a parameter. Where a proof needs induction it takes the least counterexample instead:
a nonempty set of naturals has a least member (`Least`, from `WFMin`). `SortSeq` and
`SelectSeq` are opaque to the provers, so the sorted queue and the list without an element
are defined in the modules by what they are.

Every invariant and every action property that the passing runs check is the statement of
a theorem. Only model-checked are the liveness properties: `BootEnds`, `LocksAreReleased`,
`NobodyWaits`, `FittingIsAnswered`, `AttachIsAnswered`, `LoadingEnds`, `ViewCatchesUp`,
the liveness of `LossIsRetried`, and the fairness part of `ImplementsBootOnce`. They
follow from fairness and from what is enabled, of which the provers prove nothing.

## 5. Not modelled

Of the messages, their fields beyond number and size, and payloads that are no messages
(the decoder drops them as it drops frames that are too long). Of the page, the list of
messages in `index.html` and `sendMsg`, which passes a text to webstomp and changes
nothing. The mapping of exceptions to HTTP answers, the class file transformer and the
timing advice keep no state and make no decision. The race of `Client.main`'s main
thread for `channel` is part of `AgentLink`; its sleep of one second is not, since no
property of the code bounds a connect by it.

Of Vue: the template compiler, which turns a text into a function and keeps nothing;
observed arrays and objects, which add dependencies of the same kind; directives, slots,
events, transitions and `keep-alive`, which the page's component does not use.

Left out for good: logging, configuration beans, the sample applications under
`test/` and `test-controller/`, and the rest of the vendored JavaScript. That rest is
by far the largest part of the repository: seven more builds of the Vue that `vue.js`
stands for, Element UI, and minified libraries (jQuery, axios, Babel, SockJS, STOMP).
Modelling one build of Vue says of the others what it says of this one, and nothing of
the repository depends on the inner states of the others, so the share of all its
lines of JavaScript that is modelled stays small.

## 6. Plan

All modules named above are written, run and proved about. What is left:

1. The invariants of `NettyServer` carried over to `Tomas` as a refinement, one starter
   process at a time, rather than restated.
2. `Reactive` with nested objects and arrays, and with watchers that are torn down while
   they are evaluated.
3. `VueScheduler` and `Reactive` composed, so that the changes of the one are the
   notifications of the other.
