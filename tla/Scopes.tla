-------------------------------- MODULE Scopes --------------------------------
(***************************************************************************)
(* Plugins, encapsulation contexts and the hook chains of routes:          *)
(* context.ts, and register(), ready(), getUpgradeHooks() and the start of *)
(* handle() in app.ts.  onRequest stands for every kind of hook.           *)
(*                                                                         *)
(* A plugin is an asynchronous function: it adds hooks, routes and plugins *)
(* of its own in several steps, while requests are served.  A chain is an  *)
(* array that flush() clears and refills in place, and runHooks walks it   *)
(* with an iterator, so a request may walk a chain that changes.           *)
(***************************************************************************)
EXTENDS Naturals, SequencesExt

CONSTANTS Plugins,    \* plugin functions; each is registered at most once
          Root,       \* the root context
          Callers,    \* requests and upgrades
          Segments,   \* path segments: a prefix is one of them or none
          Paths,      \* the paths of routes and requests
          MaxHooks,   \* bound: hooks added
          MaxRoutes   \* bound: routes added

ASSUME ScopesAssumption ==
  /\ IsFiniteSet(Plugins) /\ IsFiniteSet(Callers) /\ Root \notin Plugins
  /\ {MaxHooks, MaxRoutes} \subseteq Nat /\ Paths \subseteq Seq(Segments)

Contexts == {Root} \cup Plugins

VARIABLES plugin,    \* plugin[p]: how far p is, and the context its code acts on
          parent,    \* parent[c]: the context c was created in; itself for the root
          own,       \* own[c]: the prefix c adds; <<>> is transparent
          children,  \* children[c]: in the order of their creation
          hooks,     \* hooks[c]: ids of the hooks added in c
          made,      \* hook ids given out
          bindings,  \* ScopeRegistry: the scopes of the root, of routes and of contexts
          dirty,
          pendingPlugins,   \* pendingPlugins
          batch,     \* readyPromise: the plugins it waits for, or {}
          caller     \* caller[r]: a request or an upgrade

scopeVars == <<plugin, parent, own, children, hooks, made, bindings, dirty, pendingPlugins, batch, caller>>
tree == <<parent, own, children>>

Idle == [at |-> "idle", path |-> <<>>, binding |-> 0, list |-> <<>>, next |-> 1,
         owed |-> {}, ran |-> {}, before |-> {}]

\* createContextScope(): a scope without a route.
ContextScope(c) == [ctx |-> c, route |-> FALSE, path |-> <<>>, local |-> <<>>, chain |-> <<>>]

ScopesInit ==
  /\ plugin = [p \in Plugins |-> [at |-> "absent", home |-> Root, late |-> FALSE]]
  /\ parent = [c \in Contexts |-> Root] /\ own = [c \in Contexts |-> <<>>]
  /\ children = [c \in Contexts |-> <<>>]
  /\ hooks = [c \in Contexts |-> <<>>] /\ made = 0
  /\ bindings = <<ContextScope(Root)>>
  /\ dirty = TRUE
  /\ pendingPlugins = {} /\ batch = {}
  /\ caller = [r \in Callers |-> Idle]
-----------------------------------------------------------------------------
(* The tree *)

Chain[c \in Contexts] == IF c = Root THEN <<Root>> ELSE Append(Chain[parent[c]], c)

Prefix(c) == FlattenSeq([i \in DOMAIN Chain[c] |-> own[Chain[c][i]]])

\* What the visit of each context lists: it goes down to the children in `inside`, and
\* lists those of them that are in `listed` before what is below them.
Visit(inside, listed) ==
  LET Below[c \in Contexts] == FlattenSeq([i \in DOMAIN children[c] |->
        IF children[c][i] \notin inside THEN <<>>
        ELSE (IF children[c][i] \in listed THEN <<children[c][i]>> ELSE <<>>) \o Below[children[c][i]]])
  IN Below

\* The contexts whose hooks apply in `leaf`, in the order they run: its chain, each
\* with the transparent plugins below it that are not in the chain.
CollectScopeContexts(leaf) ==
  LET Transparent == Visit({c \in Contexts : own[c] = <<>> /\ c \notin ToSet(Chain[leaf])}, Contexts)
  IN FlattenSeq([i \in DOMAIN Chain[leaf] |-> <<Chain[leaf][i]>> \o Transparent[Chain[leaf][i]]])

HooksIn(contexts) == FlattenSeq([i \in DOMAIN contexts |-> hooks[contexts[i]]])

ResolveBinding(b) == [b EXCEPT !.chain = HooksIn(CollectScopeContexts(b.ctx)) \o b.local]

\* The bindings after `if (scopes.dirty) scopes.flush()`.
Flushed == IF dirty THEN [i \in DOMAIN bindings |-> ResolveBinding(bindings[i])] ELSE bindings

PrefixCoversPath(prefix, path) == IsPrefix(prefix, path)

\* The prefixed contexts that cover a path, in the order of the visit.
Covering(path) ==
  LET covers == {c \in Contexts : own[c] = <<>> \/ PrefixCoversPath(Prefix(c), path)}
  IN Visit(covers, {c \in Contexts : own[c] # <<>>})[Root]

\* `seen`: every hook of a list at its first place.
Once(list) ==
  FlattenSeq([i \in DOMAIN list |-> IF \E j \in 1..i-1 : list[j] = list[i] THEN <<>> ELSE <<list[i]>>])
-----------------------------------------------------------------------------
(* Registration *)

\* What plugin code does not touch; the requests go on in between.
Code == UNCHANGED <<pendingPlugins, batch, caller>>

\* Whoever runs: the application's own code, or a plugin that is not done.
Actors == {Root} \cup {plugin[p].home : p \in {q \in Plugins : plugin[q].at = "running"}}

\* createChild() and the start of the plugin; encapsulate: false acts on ctx itself.
Enter(ctx, p, prefix) ==
  \/ /\ plugin' = [plugin EXCEPT ![p].at = "running", ![p].home = p]
     /\ parent' = [parent EXCEPT ![p] = ctx]
     /\ own' = [own EXCEPT ![p] = prefix]
     /\ children' = [children EXCEPT ![ctx] = Append(@, p)]
     /\ dirty' = TRUE
  \/ /\ prefix = <<>>
     /\ plugin' = [plugin EXCEPT ![p].at = "running", ![p].home = ctx]
     /\ UNCHANGED <<tree, dirty>>

\* A plugin registers another in its own context.
RegisterNested(p, prefix) ==
  /\ plugin[p].at = "absent"
  /\ \E ctx \in Actors : Enter(ctx, p, prefix)
  /\ UNCHANGED <<hooks, made, bindings>> /\ Code

\* app.register()
RegisterApp(p, prefix) ==
  /\ plugin[p].at = "absent"
  /\ \/ /\ plugin' = [plugin EXCEPT ![p] = [at |-> "running", home |-> p, late |-> batch # {}]]
        /\ parent' = [parent EXCEPT ![p] = Root]
        /\ own' = [own EXCEPT ![p] = prefix]
        /\ children' = [children EXCEPT ![Root] = Append(@, p)]
        /\ dirty' = TRUE
     \/ /\ prefix = <<>>
        /\ plugin' = [plugin EXCEPT ![p] = [at |-> "running", home |-> Root, late |-> batch # {}]]
        /\ UNCHANGED <<tree, dirty>>
  /\ pendingPlugins' = pendingPlugins \cup {p}
  /\ UNCHANGED <<hooks, made, bindings, batch, caller>>

\* Mutated form: the registry is not told.
AddHookSilently(ctx) ==
  /\ made < MaxHooks /\ made' = made + 1
  /\ hooks' = [hooks EXCEPT ![ctx] = Append(@, made + 1)]
  /\ UNCHANGED <<plugin, tree, bindings, dirty>> /\ Code

AddHook(ctx) ==
  /\ made < MaxHooks /\ made' = made + 1
  /\ hooks' = [hooks EXCEPT ![ctx] = Append(@, made + 1)]
  /\ dirty' = TRUE
  /\ UNCHANGED <<plugin, tree, bindings>> /\ Code

\* A route, whose url is the context's prefix and more, with or without a hook of its own.
AddRoute(ctx, path, withHook) ==
  /\ IsPrefix(Prefix(ctx), path)
  /\ Cardinality({b \in DOMAIN bindings : bindings[b].route}) < MaxRoutes
  /\ withHook => made < MaxHooks
  /\ made' = made + (IF withHook THEN 1 ELSE 0)
  /\ bindings' = Append(bindings, [ctx |-> ctx, route |-> TRUE, path |-> path,
                                   local |-> IF withHook THEN <<made + 1>> ELSE <<>>, chain |-> <<>>])
  /\ dirty' = TRUE
  /\ UNCHANGED <<plugin, tree, hooks>> /\ Code

\* A plugin function ends.  Nobody but ready() looks at a rejection.
EndPlugin(p) ==
  /\ plugin[p].at = "running"
  /\ \E end \in IF p \in pendingPlugins \cup batch THEN {"loaded", "failed"} ELSE {"loaded"} :
       plugin' = [plugin EXCEPT ![p] = [at |-> end, home |-> Root, late |-> @.late /\ end = "failed"]]
  /\ UNCHANGED <<tree, hooks, made, bindings, dirty>> /\ Code
-----------------------------------------------------------------------------
(* Requests *)

Registered == {p \in Plugins : plugin[p].at # "absent"}

\* handle(): ready() takes what is pendingPlugins, unless it waits already.
Arrive(r, path) ==
  /\ caller[r].at \in {"idle", "handled"}
  /\ IF batch = {} /\ pendingPlugins # {} THEN batch' = pendingPlugins /\ pendingPlugins' = {} ELSE UNCHANGED <<batch, pendingPlugins>>
  /\ caller' = [caller EXCEPT ![r] =
       [Idle EXCEPT !.at = IF pendingPlugins \cup batch = {} THEN "ready" ELSE "waiting",
                    !.path = path, !.before = pendingPlugins \cup batch]]
  /\ UNCHANGED <<plugin, tree, hooks, made, bindings, dirty>>

Waiting == {r \in Callers : caller[r].at = "waiting"}

\* Promise.all() resolves.
BatchLoads ==
  /\ batch # {} /\ \A p \in batch : plugin[p].at = "loaded"
  /\ batch' = {}
  /\ caller' = [r \in Callers |-> IF r \in Waiting THEN [caller[r] EXCEPT !.at = "ready"] ELSE caller[r]]
  /\ UNCHANGED <<plugin, tree, hooks, made, bindings, dirty, pendingPlugins>>

\* It rejects: readyPromise stays, and with it the rejection.
BatchRejects ==
  /\ \E p \in batch : plugin[p].at = "failed"
  /\ Waiting # {}
  /\ caller' = [r \in Callers |-> IF r \in Waiting THEN Idle ELSE caller[r]]
  /\ UNCHANGED <<plugin, tree, hooks, made, bindings, dirty, pendingPlugins, batch>>

\* What a context's routes are promised: its ancestors' hooks and those of transparent
\* plugins below them, defined without the code's traversal.
InScope(leaf) ==
  {c \in {Root} \cup Registered : \E a \in ToSet(Chain[leaf]) :
     /\ a \in ToSet(Chain[c])
     /\ \A d \in ToSet(Chain[c]) \ ToSet(Chain[a]) : own[d] = <<>>}
PromisedIn(leaf) == UNION {ToSet(hooks[c]) : c \in InScope(leaf)}
Promised(b) == PromisedIn(bindings[b].ctx) \cup ToSet(bindings[b].local)

\* handle() goes on: the chains are brought up to date and a route is matched.
Begin(r) ==
  /\ caller[r].at = "ready"
  /\ bindings' = Flushed /\ dirty' = FALSE
  /\ \E b \in DOMAIN bindings :
       /\ bindings[b].route /\ bindings[b].path = caller[r].path
       /\ caller' = [caller EXCEPT ![r].at = "hooks", ![r].path = <<>>, ![r].before = {},
                                          ![r].binding = b, ![r].owed = Promised(b)]
  /\ UNCHANGED <<plugin, tree, hooks, made, pendingPlugins, batch>>

\* No route for the method: createMissContext() is awaited with the chains up to date.
BeginMiss(r) ==
  /\ caller[r].at = "ready"
  /\ bindings' = Flushed /\ dirty' = FALSE
  /\ caller' = [caller EXCEPT ![r].at = "missing", ![r].before = {}, ![r].owed = 1..made,
                              ![r].binding = Len(bindings)]
  /\ UNCHANGED <<plugin, tree, hooks, made, pendingPlugins, batch>>

RoutesAt(path) == {b \in DOMAIN bindings : bindings[b].route /\ bindings[b].path = path}

\* 405: routeScopeHooks(), the chains of the routes at the path.
CollectRoutes(r) ==
  /\ caller[r].at = "missing" /\ RoutesAt(caller[r].path) # {}
  /\ LET list == Once(FlattenSeq([b \in DOMAIN bindings |->
                    IF b \in RoutesAt(caller[r].path) THEN bindings[b].chain ELSE <<>>]))
     IN caller' = [caller EXCEPT ![r].at = "hooks", ![r].path = <<>>,
          ![r].binding = IF list = <<>> THEN 1 ELSE 0, ![r].list = list,
          ![r].owed = @ \cap UNION {Promised(b) : b \in {c \in RoutesAt(caller[r].path) : c <= caller[r].binding}}]
  /\ UNCHANGED <<plugin, tree, hooks, made, bindings, dirty, pendingPlugins, batch>>

\* contextScope(): a covering context's scope is made once, and everything is flushed.
HasScope(c) == \E b \in DOMAIN bindings : ~bindings[b].route /\ bindings[b].ctx = c
WithScopes(contexts) ==
  LET missing == FlattenSeq([i \in DOMAIN contexts |-> IF HasScope(contexts[i]) THEN <<>> ELSE <<contexts[i]>>])
      more == bindings \o [i \in DOMAIN missing |-> ContextScope(missing[i])]
  IN IF missing = <<>> THEN bindings ELSE [i \in DOMAIN more |-> ResolveBinding(more[i])]

ScopeOf(c, known) == CHOOSE i \in DOMAIN known : ~known[i].route /\ known[i].ctx = c

\* The root's hooks and those of every covering context, each once.  What is read before
\* the first scope is made is read before the flush.
HooksOf(contexts, known) ==
  LET Current(i) == IF \A j \in 1..i : HasScope(contexts[j]) THEN bindings ELSE known
  IN Once(bindings[1].chain \o FlattenSeq([i \in DOMAIN contexts |->
            Current(i)[ScopeOf(contexts[i], Current(i))].chain]))

\* 404, and an upgrade's getUpgradeHooks(), which awaits nothing since the flush:
\* onRequestHooksForPath().
CollectCovering(r) ==
  /\ caller[r].at = "missing" /\ RoutesAt(caller[r].path) = {}
  /\ LET contexts == Covering(caller[r].path)
         known == WithScopes(contexts)
     IN /\ bindings' = known
        /\ dirty' = (dirty /\ known = bindings)
        /\ caller' = [caller EXCEPT ![r].at = "hooks", ![r].path = <<>>,
             ![r].binding = IF contexts = <<>> THEN 1 ELSE 0,
             ![r].list = IF contexts = <<>> THEN <<>> ELSE HooksOf(contexts, known),
             ![r].owed = @ \cap (PromisedIn(Root) \cup UNION {PromisedIn(c) :
                c \in {d \in Registered : own[d] # <<>> /\ IsPrefix(Prefix(d), caller[r].path)}})]
  /\ UNCHANGED <<plugin, tree, hooks, made, pendingPlugins, batch>>

Walked(r) == IF caller[r].binding = 0 THEN caller[r].list ELSE bindings[caller[r].binding].chain

\* runHooks: one hook is called and awaited; it may answer.
RunHook(r) ==
  /\ caller[r].at = "hooks" /\ caller[r].next <= Len(Walked(r))
  /\ \/ caller' = [caller EXCEPT ![r].next = @ + 1, ![r].ran = @ \cup {Walked(r)[caller[r].next]}]
     \/ caller' = [caller EXCEPT ![r] = Idle]
  /\ UNCHANGED <<plugin, tree, hooks, made, bindings, dirty, pendingPlugins, batch>>

\* The iterator is at the end: the handler, or the answer to a miss, follows.
Handler(r) ==
  /\ caller[r].at = "hooks" /\ caller[r].next > Len(Walked(r))
  /\ caller' = [caller EXCEPT ![r].at = "handled", ![r].list = <<>>, ![r].next = 1]
  /\ UNCHANGED <<plugin, tree, hooks, made, bindings, dirty, pendingPlugins, batch>>

Mounts == {<<>>} \cup {<<s>> : s \in Segments}

ScopesNext ==
  \/ \E p \in Plugins, prefix \in Mounts : RegisterNested(p, prefix) \/ RegisterApp(p, prefix)
  \/ \E c \in Actors : AddHook(c) \/ \E path \in Paths, local \in BOOLEAN : AddRoute(c, path, local)
  \/ \E p \in Plugins : EndPlugin(p)
  \/ \E r \in Callers : \/ \E path \in Paths : Arrive(r, path)
                        \/ Begin(r) \/ BeginMiss(r) \/ CollectRoutes(r) \/ CollectCovering(r)
                        \/ RunHook(r) \/ Handler(r)
  \/ BatchLoads \/ BatchRejects

ScopesSpec == ScopesInit /\ [][ScopesNext]_scopeVars
-----------------------------------------------------------------------------
\* Whatever is registered while a request walks its chain, when it reaches its handler,
\* or the answer to a path or method without a route, it has run every hook promised to
\* it when it began: for a route those of its context, whichever was registered first;
\* for a 404 or an upgrade those of every prefix the path is below; for a 405 those of the
\* routes that were there when it began.  And a route runs no hook of a plugin whose
\* prefix it is not below.
GuardsRun ==
  \A r \in Callers : caller[r].at = "handled" =>
    /\ caller[r].owed \subseteq caller[r].ran
    /\ caller[r].binding > 1 => caller[r].ran \subseteq Promised(caller[r].binding)

\* A request gets past ready() only when every plugin that app.register() was called
\* with before it arrived has loaded, except one registered while another wait was on.
LoadedFirst ==
  \A r \in Callers : caller[r].at = "ready" =>
    \A p \in caller[r].before : plugin[p].late \/ plugin[p].at = "loaded"

\* No request runs before what guards it has loaded, or past a hook it was promised.
HooksComplete == GuardsRun /\ LoadedFirst
=============================================================================
