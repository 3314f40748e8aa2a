---------------------------- MODULE RuntimeConfig ----------------------------
(***************************************************************************)
(* class RuntimeConfig, src/src/common/RuntimeConfig.cpp: where the value   *)
(* of a configuration variable comes from.  A variable is                   *)
(* <<configuration set, key>>; a profile is a function from variables to    *)
(* values.  rc is the RuntimeConfigImpl:                                    *)
(*   read_env   m_allow_read_env                                            *)
(*   combined   m_combined_profile, top m_top_profile                       *)
(*   profiles   m_config_profiles by name                                   *)
(*   db         m_database: the initialized configuration sets by name      *)
(* rc_log holds the calls, for the reference.                               *)
(***************************************************************************)
EXTENDS Integers, SequencesExt, TLC

CONSTANTS
    Env,            \* the environment's variables
    ConfigFiles,    \* by name: sequence of groups [name, vars]
    BuiltinProfiles,\* the groups of builtin_profiles
    ConfigSets,     \* by name: the keys of a configuration set with their defaults
    Settings,       \* <<variable, value>> for preset, set and import
    RcMaxCalls

VARIABLES rc, rc_log

rcVars == <<rc, rc_log>>

PROFILE == <<"config", "profile">>
FILE == <<"config", "file">>

(* The configuration set that selects files and profiles; both values are   *)
(* lists of names.                                                          *)
configdata == "profile" :> <<"default">> @@ "file" :> <<"caliper.config">>

Has(profile, var) == var \in DOMAIN profile

(* As if a variable of the environment beat one that was set.               *)
ConfigSet_init_env(name, list, r) ==
    [key \in DOMAIN list |->
        LET var == <<name, key>>
        IN  IF r.read_env /\ Has(Env, var) THEN Env[var]
            ELSE IF Has(r.top, var) THEN r.top[var]
            ELSE IF Has(r.combined, var) THEN r.combined[var]
            ELSE list[key]]

ConfigSet_init(name, list, r) ==
    [key \in DOMAIN list |->
        LET var == <<name, key>>
        IN  IF Has(r.top, var) THEN r.top[var]
            ELSE IF r.read_env /\ Has(Env, var) THEN Env[var]
            ELSE IF Has(r.combined, var) THEN r.combined[var]
            ELSE list[key]]

(* A group is merged into the profile of its name and does not overwrite    *)
(* it, except the last group of a stream, which replaces it.  Groups        *)
(* without variables are skipped.                                           *)
read_config_profiles(profiles, groups) ==
    FoldLeft(LAMBDA p, i :
        LET g == groups[i]
        IN  IF g.vars = <<>> THEN p
            ELSE IF i < Len(groups) /\ g.name \in DOMAIN p
            THEN [p EXCEPT ![g.name] = @ @@ g.vars]
            ELSE (g.name :> g.vars) @@ p,
        profiles, [i \in DOMAIN groups |-> i])

read_config_files(profiles, names) ==
    FoldLeft(LAMBDA p, f : IF f \in DOMAIN ConfigFiles THEN read_config_profiles(p, ConfigFiles[f]) ELSE p,
             read_config_profiles(profiles, BuiltinProfiles), names)

Merge(r, name) ==
    IF name \in DOMAIN r.profiles THEN [r EXCEPT !.combined = r.profiles[name] @@ @] ELSE r

init_config_database(r) ==
    LET files == ConfigSet_init("config", configdata, r)["file"]
        read == Merge([r EXCEPT !.profiles = read_config_files(@, files)], "default")
        config == ConfigSet_init("config", configdata, read)
    IN  FoldLeft(Merge, [read EXCEPT !.db = "config" :> config], config["profile"])

Initialized(r) == IF r.db = <<>> THEN init_config_database(r) ELSE r

init_configset(r, name) ==
    LET s == Initialized(r)
    IN  IF name \in DOMAIN s.db THEN s
        ELSE [s EXCEPT !.db = (name :> ConfigSet_init(name, ConfigSets[name], s)) @@ @]

-----------------------------------------------------------------------------
RCInit ==
    /\ rc = [read_env |-> TRUE, combined |-> <<>>, top |-> <<>>, profiles |-> <<>>, db |-> <<>>]
    /\ rc_log = <<>>

Call(c) == Len(rc_log) < RcMaxCalls /\ rc_log' = Append(rc_log, c)

allow_read_env(allow) ==
    /\ rc' = [rc EXCEPT !.read_env = allow]
    /\ Call([call |-> "env", allow |-> allow])

preset(s) ==
    /\ rc' = [rc EXCEPT !.combined = (s[1] :> s[2]) @@ @]
    /\ Call([call |-> "preset", var |-> s[1], val |-> s[2]])

(* import sets several variables the same way.                              *)
set(s) ==
    /\ rc' = [rc EXCEPT !.top = (s[1] :> s[2]) @@ @]
    /\ Call([call |-> "set", var |-> s[1], val |-> s[2]])

(* get("config", ...): only reads, but initializes the database.            *)
get_config ==
    /\ rc' = Initialized(rc)
    /\ Call([call |-> "get"])

init(name) ==
    /\ rc' = init_configset(rc, name)
    /\ Call([call |-> "init", name |-> name])

RCNext ==
    \/ \E b \in BOOLEAN : allow_read_env(b)
    \/ \E s \in Settings : preset(s)
    \/ \E s \in Settings : set(s)
    \/ get_config
    \/ \E n \in DOMAIN ConfigSets : init(n)

-----------------------------------------------------------------------------
(* The reference: the calls up to the one that initialized a set decide.    *)
Before(n) == SubSeq(rc_log, 1, n)

(* The first call that reads the files.                                     *)
Opened(log) ==
    SelectInSeq(log, LAMBDA c : c.call \in {"get", "init"})

EnvRead(log) ==
    LET i == SelectLastInSeq(log, LAMBDA c : c.call = "env")
    IN  i = 0 \/ log[i].allow

LastSetting(log, call, var) ==
    SelectLastInSeq(log, LAMBDA c : c.call = call /\ c.var = var)

(* What a variable is without the profiles' help, <<>> if nothing says.     *)
Explicit(log, var) ==
    LET s == LastSetting(log, "set", var)
    IN  IF s # 0 THEN <<log[s].val>>
        ELSE IF EnvRead(log) /\ Has(Env, var) THEN <<Env[var]>> ELSE <<>>

Preset(log, var) ==
    LET p == LastSetting(log, "preset", var)
    IN  IF p # 0 THEN <<log[p].val>> ELSE <<>>

FirstOf(seqs, default) == FoldLeft(LAMBDA v, s : IF v = <<>> THEN s ELSE v, <<>>, seqs \o <<<<default>> >>)[1]

(* The groups of a profile's name over all files that are read, and their   *)
(* value of a variable: the last stream whose final group has that name     *)
(* starts anew, after that the first group with the variable counts.        *)
ProfileValue(files, name, var) ==
    LET streams == <<BuiltinProfiles>> \o [i \in DOMAIN files |->
                       IF files[i] \in DOMAIN ConfigFiles THEN ConfigFiles[files[i]] ELSE <<>>]
        groups == FlattenSeq([i \in DOMAIN streams |->
                     [j \in DOMAIN streams[i] |->
                         [group |-> streams[i][j], last |-> j = Len(streams[i])]]])
        named == SelectSeq(groups, LAMBDA g : g.group.name = name /\ g.group.vars # <<>>)
        anew == SelectLastInSeq(named, LAMBDA g : g.last)
        from == IF anew = 0 THEN 1 ELSE anew
        hit == SelectInSeq(SubSeq(named, from, Len(named)), LAMBDA g : Has(g.group.vars, var))
    IN  IF hit = 0 THEN <<>> ELSE <<named[from + hit - 1].group.vars[var]>>

(* The value a set gets that is initialized by the last call of log.        *)
Meant(log, name, key) ==
    LET var == <<name, key>>
        open == SubSeq(log, 1, Opened(log))
        files == FirstOf(<<Explicit(open, FILE), Preset(open, FILE)>>, configdata["file"])
        chosen == FirstOf(<<Explicit(open, PROFILE), ProfileValue(files, "default", PROFILE),
                            Preset(open, PROFILE)>>, configdata["profile"])
        late == SubSeq(log, Opened(log) + 1, Len(log))
    IN  FirstOf(<<Explicit(log, var), Preset(late, var)>>
                \o [i \in DOMAIN chosen |->
                      ProfileValue(files, chosen[Len(chosen) + 1 - i], var)]
                \o <<ProfileValue(files, "default", var), Preset(open, var)>>,
                ConfigSets[name][key])

(* Each configuration set has the values that were in force at its first    *)
(* initialization: what was set, else the environment if reading it is      *)
(* allowed, else what was preset after the files were read, else the last   *)
(* selected profile that has the variable, else the default profile, else   *)
(* what was preset before, else the built-in default; later calls do not    *)
(* change it.                                                               *)
ConfigExact ==
    \A n \in DOMAIN rc.db \ {"config"} :
        LET at == SelectInSeq(rc_log, LAMBDA c : c.call = "init" /\ c.name = n)
        IN  \A k \in DOMAIN ConfigSets[n] : rc.db[n][k] = Meant(Before(at), n, k)

=============================================================================
