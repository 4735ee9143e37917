---------------------------- MODULE ConfigModule ----------------------------
(***************************************************************************)
(* ConfigModule.forRootAsync (packages/configure/src/config.module.ts):    *)
(* load, fill in, validate, override from the environment, provide. What   *)
(* it says of the sections is in EnvironmentSchema.                        *)
(*                                                                         *)
(* A value is the kind of JavaScript value it is, and where it comes from. *)
(* A place is a part of the configuration: <<"app">>, or the entry of a    *)
(* map, <<"database", "main">>; <<"database">> is the map itself, which    *)
(* has no fields. A configuration maps the places it has to the fields     *)
(* they have.                                                              *)
(***************************************************************************)
EXTENDS Naturals, Sequences, EnvironmentSchema

CONSTANTS
  Loads,        \* what the loaders may return: sequences, one load per loader
  loadIsArray,  \* whether options.load is an array of loaders or a loader
  Envs          \* the environments: sets of <<place, field>> whose variable is set

Kinds == {"number", "string", "boolean", "array", "object", "null"}

Maps == {"http", "database", "channels", "exchanges", "consumer"}

IsPlace(p) ==
  /\ p = <<p[1]>> \/ (p = <<p[1], p[2]>> /\ p[1] \in Maps)
  /\ p[1] \in DOMAIN EnvironmentConfig

PartOf(p) == EnvironmentConfig[p[1]]

\* The section a place is in.
Root(p) ==
  CASE p[1] = "redis" -> "cache"
    [] p[1] \in {"channels", "exchanges", "consumer"} -> "rabbitmq"
    [] OTHER -> p[1]

\* The fields of the class at p.
Fields(p) == IF p[1] \in Maps /\ Len(p) = 1 THEN {} ELSE DOMAIN PartOf(p).class

IsLoad(load) ==
  \A p \in DOMAIN load :
    /\ IsPlace(p)
    /\ (Len(p) = 2 /\ p[1] \in {"http", "database"}) => <<p[1]>> \in DOMAIN load
    /\ \A f \in DOMAIN load[p] : f \in Fields(p) /\ load[p][f] \in Kinds

\* Of the constants; assumed by the module that gives them.
ConfigAssumption ==
  /\ loadIsArray \in BOOLEAN
  /\ \A s \in Loads : /\ s \in Seq({s[i] : i \in DOMAIN s})
                      /\ \A i \in DOMAIN s : IsLoad(s[i])
                      /\ ~loadIsArray => Len(s) = 1

VARIABLES
  loads,    \* what each loader returns
  env,      \* the environment of the process
  pending,  \* the loaders that have not settled
  outcome,  \* of forRootAsync
  config    \* the configuration it provides

configVars == <<loads, env, pending, outcome, config>>

Value == [kind : Kinds, from : {"default", "file", "env"}]

ConfigTypeOK ==
  /\ loads \in Loads
  /\ env \in Envs
  /\ pending \subseteq DOMAIN loads
  /\ outcome \in {"loading", "provided", "failed"}
  /\ \A p \in DOMAIN config :
       IsPlace(p) /\ \A f \in DOMAIN config[p] : f \in Fields(p) /\ config[p][f] \in Value

NoConfig == [p \in {} |-> [f \in {} |-> "null"]]

ConfigInit ==
  /\ loads \in Loads
  /\ env \in Envs
  /\ pending = DOMAIN loads
  /\ outcome = "loading"
  /\ config = NoConfig

----------------------------------------------------------------------------
(* What is done with a load. An operator called ..Bug is a plausible       *)
(* mistake in the one that follows it; no action uses it.                  *)

\* getConfigureAppAsync. With an array, the reducer is async: Object.assign
\* puts a load on the promise of the result so far, and that promise, which
\* the reducer returns, still resolves to the {} reduce began with.
Loaded == IF loadIsArray THEN NoConfig ELSE loads[1]

\* getDefaultConfigureApp: an object for every exposed section.
Sections(load) ==
  DOMAIN load \cup {<<s>> : s \in {t \in DOMAIN EnvironmentConfig : EnvironmentConfig[t].exposed}}

FromFile(load, p) == IF p \in DOMAIN load THEN DOMAIN load[p] ELSE {}

Defaults(p) ==
  IF PartOf(p).typed THEN {f \in Fields(p) : PartOf(p).class[f].default} ELSE {}

\* The initializers of a class run after its fields are set.
PlainToClassBug(load) ==
  [p \in Sections(load) |->
     [f \in FromFile(load, p) \cup Defaults(p) |->
        IF f \in Defaults(p) THEN [kind |-> PartOf(p).class[f].kind, from |-> "default"]
        ELSE [kind |-> load[p][f], from |-> "file"]]]

\* plainToClass with exposeDefaultValues, and NestedObjectTransform.
PlainToClass(load) ==
  [p \in Sections(load) |->
     [f \in FromFile(load, p) \cup Defaults(p) |->
        IF f \in FromFile(load, p) THEN [kind |-> load[p][f], from |-> "file"]
        ELSE [kind |-> PartOf(p).class[f].kind, from |-> "default"]]]

\* What the decorators accept at field f of the object at p. A field that is
\* not there is there for the validator when the class has a default.
Accepts(c, p, f) ==
  LET field == PartOf(p).class[f]
  IN IF f \notin DOMAIN c[p] THEN field.optional \/ field.default
     ELSE \/ c[p][f].kind = field.kind
          \/ field.kind = "any"
          \/ c[p][f].kind = "null" /\ field.optional

\* An entry of a map is as good as any other.
ErrorsBug(c) ==
  {p \in {q \in DOMAIN c : PartOf(q).checked} :
     /\ \E f \in Fields(p) : ~Accepts(c, p, f)
     /\ ~\E q \in DOMAIN c \ {p} :
           q[1] = p[1] /\ Len(q) = 2 /\ \A f \in Fields(q) : Accepts(c, q, f)}

\* validateSync, which goes into sections, exchanges, and what
\* IsNestedObjectConstraint makes of the entries of maps. Of the errors, the
\* one exception names the first.
Errors(c) ==
  {p \in {q \in DOMAIN c : PartOf(q).checked} : \E f \in Fields(p) : ~Accepts(c, p, f)}

\* Every path is set to what process.env has.
OverriddenBug(c) ==
  [p \in DOMAIN c |->
     [f \in DOMAIN c[p] |->
        [kind |-> IF <<p, f>> \in env THEN "string" ELSE "undefined", from |-> "env"]]]

\* The paths of flat(validatedConfig) whose variable is set, which is a string.
Overridden(c) ==
  [p \in DOMAIN c |->
     [f \in DOMAIN c[p] |->
        IF <<p, f>> \in env THEN [kind |-> "string", from |-> "env"] ELSE c[p][f]]]

\* getProviders: EnvironmentConfig itself, and the values of it that are
\* instances of a class; forEachDeep goes into plain objects only.
Provided == {s \in Instances : <<s>> \in DOMAIN config}

----------------------------------------------------------------------------

\* All loaders have been called at once; one returns.
LoaderResolves(i) ==
  /\ outcome = "loading"
  /\ i \in pending
  /\ pending' = pending \ {i}
  /\ UNCHANGED <<loads, env, outcome, config>>

\* One throws or rejects: fileLoader when there is no file, or none that can
\* be parsed or that is not an object. The promise of forRootAsync rejects, or one nobody handles.
LoaderFails(i) ==
  /\ outcome = "loading"
  /\ i \in pending
  /\ outcome' = "failed"
  /\ UNCHANGED <<loads, env, pending, config>>

\* getDynamicModule.
GetDynamicModule ==
  LET validated == PlainToClass(Loaded)
  IN /\ outcome = "loading"
     /\ pending = {}
     /\ \/ /\ Errors(validated) # {}
           /\ outcome' = "failed"
           /\ UNCHANGED config
        \/ /\ Errors(validated) = {}
           /\ outcome' = "provided"
           /\ config' = Overridden(validated)
     /\ UNCHANGED <<loads, env, pending>>

ConfigNext ==
  \/ \E i \in DOMAIN loads : LoaderResolves(i) \/ LoaderFails(i)
  \/ GetDynamicModule

ConfigSpec == ConfigInit /\ [][ConfigNext]_configVars

----------------------------------------------------------------------------
(* Properties.                                                             *)

\* What the application is given has every value that a loader returned, save
\* those the environment replaces and the sections a later loader returned
\* too: validation, conversion and defaults lose and change nothing
\* (getConfigureAppAsync, getDynamicModule).
LoadedKept ==
  outcome = "provided" =>
    \A i \in DOMAIN loads : \A p \in DOMAIN loads[i] :
      \/ \E j \in (i + 1)..Len(loads) : \E q \in DOMAIN loads[j] : Root(q) = Root(p)
      \/ /\ p \in DOMAIN config
         /\ \A f \in DOMAIN loads[i][p] :
              /\ f \in DOMAIN config[p]
              /\ config[p][f] \in {[kind |-> loads[i][p][f], from |-> "file"],
                                   [kind |-> "string", from |-> "env"]}

\* An application that starts has in every validated section, and in every
\* entry of a validated map, what the decorators ask for; the only values that
\* may be of another kind come from the environment (getDynamicModule sets
\* them after validate).
ConformsUnlessOverridden ==
  outcome = "provided" =>
    \A p \in DOMAIN config : PartOf(p).checked =>
      \A f \in Fields(p) :
        Accepts(config, p, f) \/ (f \in DOMAIN config[p] /\ config[p][f].from = "env")
=============================================================================
