------------------------------ MODULE MCTools ------------------------------
(***************************************************************************)
(* The parts of Caliper that work on text, configuration and recorded      *)
(* data, one at a time: a CalQL query is parsed, a query is run over       *)
(* streams, a ConfigManager or the RuntimeConfig is used.  They share no   *)
(* state; part says which one a behaviour is about, and the variables of   *)
(* the others stay 0.                                                      *)
(***************************************************************************)
EXTENDS TLC

CONSTANTS
    Texts,
    Threads, Cases, NestedNames, GlobalNames,
    Services, Strings, Files, Params, UserSpecs, UserOpts, MaxCalls, Single,
    Env, ConfigFiles, BuiltinProfiles, ConfigSets, Settings, RcMaxCalls

VARIABLES
    part,
    ql_text, ql_in, ql_clause, ql_kw, ql_spec, ql_error,
    mode, query, input, db, aggr, index, th, out, written, rows, fmt, buf,
    cm, cm_channels, cm_log, cm_tables,
    rc, rc_log

ql_vars == <<ql_text, ql_in, ql_clause, ql_kw, ql_spec, ql_error>>
query_vars == <<mode, query, input, db, aggr, index, th, out, written, rows, fmt, buf>>
cm_vars == <<cm, cm_channels, cm_log, cm_tables>>
rc_vars == <<rc, rc_log>>

Ql == INSTANCE MCCalQL
Qu == INSTANCE MCQuery
Cm == INSTANCE MCConfig
Rc == INSTANCE RuntimeConfig

(* The same modules for the values of the constants.                        *)
QlData == INSTANCE MCCalQL WITH Texts <- {}
QuData == INSTANCE MCQuery WITH Cases <- {}
CmData == INSTANCE MCConfig WITH Strings <- {}, Files <- <<>>, Params <- {}, UserSpecs <- {},
                                 UserOpts <- {}, Single <- {}

QlTexts == QlData!TextsDef
QuCases == QuData!CasesDef
QuNested == {"function", "loop"}
QuGlobal == {"run"}
CmServices ==
    {"adiak_import", "aggregate", "callpath", "cupti", "cuptitrace", "event", "io", "loop_monitor",
     "memstat", "mpi", "mpireport", "ompt", "papi", "pcp.memory", "pthread", "recorder", "report",
     "roctracer", "sampler", "symbollookup", "sysalloc", "timer", "timestamp", "topdown", "trace",
     "umpire", "alloc"}     \* no kokkostime, nvtx, roctx
CmStrings == CmData!MCStrings
CmFiles == CmData!MCFiles
CmParams == CmData!MCParams
CmUserSpecs == CmData!MCUserSpecs
CmUserOpts == CmData!MCUserOpts
CmSingle == CmData!Wide

(* The RuntimeConfig: three variables, one of them also in the environment,  *)
(* two files and two built-in profiles that share names.                     *)
AKey == <<"aggregate", "key">>
ASize == <<"aggregate", "size">>
SEnable == <<"services", "enable">>
Profile == <<"config", "profile">>
File == <<"config", "file">>
Group(name, gvars) == [name |-> name, vars |-> gvars]
RcSets == "aggregate" :> ("key" :> "d" @@ "size" :> "d") @@ "services" :> ("enable" :> "d")
RcEnv == ASize :> "env"
RcBuiltinProfiles ==
    <<Group("serial-trace", SEnable :> "trace"), Group("thread-trace", SEnable :> "threads" @@ ASize :> "t")>>
RcConfigFiles ==
    "caliper.config" :> <<Group("default", Profile :> <<"thread-trace", "mine">> @@ AKey :> "f"),
                          Group("serial-trace", SEnable :> "again" @@ AKey :> "s"),
                          Group("default", AKey :> "g" @@ SEnable :> "f"),
                          Group("empty", <<>>),
                          Group("mine", AKey :> "m")>>
    @@ "other.config" :> <<Group("mine", AKey :> "x" @@ SEnable :> "x"), Group("thread-trace", AKey :> "o")>>
RcSettings ==
    {<<AKey, "1">>, <<ASize, "2">>, <<Profile, <<"serial-trace", "undefined">> >>,
     <<File, <<"other.config", "missing.config", "caliper.config">> >>}

----------------------------------------------------------------------------
NoQl == ql_text = 0 /\ ql_in = 0 /\ ql_clause = 0 /\ ql_kw = 0 /\ ql_spec = 0 /\ ql_error = 0
NoQuery == /\ mode = 0 /\ query = 0 /\ input = 0 /\ db = 0 /\ aggr = 0 /\ index = 0 /\ th = 0
           /\ out = 0 /\ written = 0 /\ rows = 0 /\ fmt = 0 /\ buf = 0
NoCm == cm = 0 /\ cm_channels = 0 /\ cm_log = 0 /\ cm_tables = 0
NoRc == rc = 0 /\ rc_log = 0

ToolsInit ==
    \/ part = "ql" /\ Ql!CalQLInit /\ NoQuery /\ NoCm /\ NoRc
    \/ part = "query" /\ Qu!Init /\ NoQl /\ NoCm /\ NoRc
    \/ part = "cm" /\ Cm!CMInit /\ NoQl /\ NoQuery /\ NoRc
    \/ part = "rc" /\ Rc!RCInit /\ NoQl /\ NoQuery /\ NoCm

ToolsNext ==
    \/ part = "ql" /\ Ql!CalQLNext /\ UNCHANGED <<part, query_vars, cm_vars, rc_vars>>
    \/ part = "query" /\ Qu!Next /\ UNCHANGED <<part, ql_vars, cm_vars, rc_vars>>
    \/ part = "cm" /\ Cm!CMStep /\ UNCHANGED <<part, ql_vars, query_vars, rc_vars>>
    \/ part = "rc" /\ Rc!RCNext /\ UNCHANGED <<part, ql_vars, query_vars, cm_vars>>

----------------------------------------------------------------------------
(* CalQLParser accepts a text exactly if it follows the grammar, and then   *)
(* yields the clauses it was written from (CalQL).                          *)
ParseExact == part = "ql" => Ql!ParseExact

(* What a query writes is what its clauses mean, and an aggregation counts  *)
(* every record that passes the filter once: preprocessing, selection,      *)
(* aggregation over threads, ranks and streams, flush (Query).              *)
QueryExact == part = "query" => Qu!QueryExact /\ Qu!EveryRecordCounted

(* Streams merged into one database resolve: every node once per path, in   *)
(* the output before its first use, and a record written from it reads back *)
(* with the attributes and values it had (MetadataDB, Query).               *)
RewrittenExact ==
    part = "query" => /\ Qu!RecordsResolved /\ Qu!OneNodePerPath
                      /\ Qu!WrittenBeforeUse /\ Qu!RewrittenExact

(* Each formatter shows exactly the selected columns of every record, trees *)
(* with every record below its parents, sorted as asked; region profiles    *)
(* sum up to the records they were made from (Formatters).                  *)
PrintedExact == part = "query" => Qu!PrintedExact /\ Qu!ProfilesExact

(* ConfigManager::check accepts a string exactly if add makes channels of   *)
(* it without an error (ConfigManager).                                     *)
CheckPredictsAdd == part = "cm" => Cm!CheckPredictsAdd

(* The channels made are the ones the strings, options, parameters and      *)
(* defaults ask for, with services that exist and queries over attributes   *)
(* that are produced (ConfigManager).                                       *)
ChannelsExact == part = "cm" => Cm!ChannelsExact /\ Cm!ServicesAvailable /\ Cm!CrossFed

(* A configuration variable has the value of the strongest source that      *)
(* gives one (RuntimeConfig).                                               *)
ConfigExact == part = "rc" => Rc!ConfigExact
=============================================================================
