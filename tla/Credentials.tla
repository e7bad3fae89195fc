---------------------------- MODULE Credentials ----------------------------
(***************************************************************************)
(* How the import and the comparison come to their OpenStack client: a     *)
(* command sources the RC file in an empty environment and prints what it  *)
(* exported (CmdsRun), each line becomes a variable of the script's own    *)
(* environment, and the client is made from that (scripts/helper/utils.py  *)
(* and osclient.py).  Variables are named without their prefix OS_.        *)
(***************************************************************************)
EXTENDS CmdsRun, FiniteSetsExt

CONSTANTS
    Key, Value,   \* what stands before and after the first "=" of a line
    Callers,      \* environments the script may be started in
    Floats,       \* values that are numbers to Python's float
    Threes        \* those of them that are the number 3, such as "3" and "3.0"

\* What get_env_var returns for a variable that is not there.
Unset == "unset"
IsSet(value) == value \notin {Unset, ""}

\* A domain can be given by its id, its name or both.
Domains == {[id |-> "USER_DOMAIN_ID", name |-> "USER_DOMAIN_NAME"],
            [id |-> "PROJECT_DOMAIN_ID", name |-> "PROJECT_DOMAIN_NAME"]}

DomainNames == {d.id : d \in Domains} \cup {d.name : d \in Domains}

Names == {"AUTH_URL", "USERNAME", "PASSWORD", "PROJECT_NAME", "TENANT_NAME",
          "IDENTITY_API_VERSION", "VERIFY_CA", "CACERT"} \cup DomainNames

ASSUME CredentialsAssumption ==
    /\ DOMAIN Key = OutLines /\ DOMAIN Value = OutLines
    /\ \A caller \in Callers : DOMAIN caller \subseteq Names
    /\ Threes \subseteq Floats /\ Unset \notin Floats
    /\ "2.0" \in Floats \ Threes

VARIABLES
    caller,    \* the environment the script was started in
    environ,   \* os.environ
    assigned,  \* how many lines were assigned to it
    stage,     \* "command" or "sourced", what is done; or how it ended, "ready" or "error"
    client     \* the client, and the variables it was made from

credentials == <<caller, environ, assigned, stage, client>>
cvars == <<vars, credentials>>

NoClient == [plugin |-> "none"]

CredentialsInit ==
    /\ Init
    /\ caller \in Callers /\ environ = caller /\ assigned = 0
    /\ stage = "command"
    /\ client = NoClient

Commands ==
    /\ pc \notin {"returned", "exited"}
    /\ Command \/ Script
    /\ UNCHANGED credentials

-----------------------------------------------------------------------------
(* source_rc_files                                                         *)

\* Mutant: variables that are set already are left alone.
Assign_Default(env, line) ==
    [name \in DOMAIN env \cup {Key[line]} |->
        IF name \in DOMAIN env THEN env[name] ELSE Value[line]]

\* A line without a name is skipped.
Assign(env, line) ==
    IF Key[line] = "" THEN env
    ELSE [name \in DOMAIN env \cup {Key[line]} |->
             IF name = Key[line] THEN Value[line] ELSE env[name]]

\* The loop over the lines.
SourceRcFiles ==
    /\ stage = "command" /\ pc = "returned"
    /\ \/ /\ assigned < Len(out)
          /\ assigned' = assigned + 1
          /\ environ' = Assign(environ, out[assigned'])
          /\ UNCHANGED stage
       \/ /\ assigned = Len(out)
          /\ stage' = "sourced"
          /\ UNCHANGED <<environ, assigned>>
    /\ UNCHANGED <<vars, caller, client>>

-----------------------------------------------------------------------------
(* get_os_credentials and the clients' authenticate                        *)

GetEnvVar(name, default) == IF name \in DOMAIN environ THEN environ[name] ELSE default

\* Mutant: the older name of the project is looked at first.
ProjectName_TenantFirst == GetEnvVar("TENANT_NAME", GetEnvVar("PROJECT_NAME", Unset))

ProjectName == GetEnvVar("PROJECT_NAME", GetEnvVar("TENANT_NAME", Unset))

\* Any number but 3 stands for version 2.
Version == GetEnvVar("IDENTITY_API_VERSION", "2.0")
IsV3 == Version \in Threes

\* Variables that must be there, and those that must not be empty either; of a domain
\* the id and the name are looked up each for itself, and one of them is enough.
Complete ==
    /\ {"AUTH_URL", "USERNAME", "PASSWORD"} \subseteq DOMAIN environ
    /\ IsSet(ProjectName)
    /\ Version \in Floats
    /\ IsV3 => \A d \in Domains :
                  IsSet(GetEnvVar(d.id, Unset)) \/ IsSet(GetEnvVar(d.name, Unset))

CredentialsFail ==
    /\ stage = "sourced"
    /\ ~Complete
    /\ stage' = "error"
    /\ UNCHANGED <<vars, caller, environ, assigned, client>>

\* The certificates a session trusts: those of a file or the usual ones.  That case is
\* ignored is left out.
Trusted(verify_ca, ca_cert) ==
    IF verify_ca \notin {"t", "true", "yes", "y", "1"} THEN "any"
    ELSE IF IsSet(ca_cert) THEN ca_cert ELSE "usual"

\* Variables that are passed on as they are; version 2 knows neither
\* domains nor certificates.
PassedOn == {"AUTH_URL", "USERNAME", "PASSWORD"} \cup (IF IsV3 THEN DomainNames ELSE {})

NewClient ==
    [plugin |-> IF IsV3 THEN "v3" ELSE "v2",
     project |-> ProjectName,
     given |-> [name \in PassedOn |-> GetEnvVar(name, Unset)],
     verify |-> IF IsV3
                THEN Trusted(GetEnvVar("VERIFY_CA", "true"), GetEnvVar("CACERT", Unset))
                ELSE "usual"]

Authenticate ==
    /\ stage = "sourced"
    /\ Complete
    /\ stage' = "ready"
    /\ client' = NewClient
    /\ UNCHANGED <<vars, caller, environ, assigned>>

CredentialsEnded == (stage \in {"ready", "error"} \/ pc = "exited") /\ UNCHANGED cvars

CredentialsNext ==
    Commands \/ SourceRcFiles \/ CredentialsFail \/ Authenticate \/ CredentialsEnded

CredentialsSpec ==
    /\ CredentialsInit /\ [][CredentialsNext]_cvars
    /\ WF_vars(Command) /\ WF_vars(Script)

-----------------------------------------------------------------------------
(* What sourcing the RC file should guarantee.                              *)

\* The lines the command wrote to stdout that set a variable.
Setting(name) == {n \in Outs : Key[program[n]] = name}

Sets(name) == Setting(name) # {}
RcValue(name) == Value[program[Max(Setting(name))]]

\* A variable has the value the RC file gave it last, however the lines came through
\* the pipe; where the file is silent the caller's value stands, stale or not
\* (utils.py:149-156).
RcWins ==
    stage # "command" =>
        \A name \in Names :
            IF Sets(name) THEN name \in DOMAIN environ /\ environ[name] = RcValue(name)
            ELSE IF name \in DOMAIN caller
            THEN name \in DOMAIN environ /\ environ[name] = caller[name]
            ELSE name \notin DOMAIN environ

\* The value a variable has of the file alone, and whether the caller leaves it at that.
OfFile(name) == IF Sets(name) THEN RcValue(name) ELSE Unset
Undisturbed(name) == Sets(name) \/ name \notin DOMAIN caller

\* Of a domain with an id and a name keystone takes the id.
DomainOf(id, name) == IF IsSet(id) THEN <<"id", id>> ELSE <<"name", name>>

\* The caller's environment gets into the client through variables that the RC file
\* leaves out, and in no other way.  The client logs in with the file's address, user,
\* password and version as far as it sets them; with the project of the file if it sets
\* the newer name, or if the caller has neither; in the domains of the file, even beside
\* a name of the caller, but only if the caller has no id of a domain that the file gives
\* by its name; and it trusts whom the file says (utils.py:104-146, osclient.py:28-46).
ClientOfRc ==
    stage = "ready" =>
        /\ Undisturbed("IDENTITY_API_VERSION") =>
              (client.plugin = "v3" <=> OfFile("IDENTITY_API_VERSION") \in Threes)
        /\ \A name \in DOMAIN client.given :
              Undisturbed(name) => client.given[name] = OfFile(name)
        /\ (/\ Undisturbed("PROJECT_NAME")
            /\ Sets("PROJECT_NAME") \/ Undisturbed("TENANT_NAME")) =>
              client.project = OfFile(IF Sets("PROJECT_NAME") THEN "PROJECT_NAME"
                                                              ELSE "TENANT_NAME")
        /\ client.plugin = "v3" =>
              /\ \A d \in Domains :
                    Undisturbed(d.id) /\ (IsSet(OfFile(d.id)) \/ Undisturbed(d.name)) =>
                        DomainOf(client.given[d.id], client.given[d.name])
                            = DomainOf(OfFile(d.id), OfFile(d.name))
              /\ Undisturbed("VERIFY_CA") /\ Undisturbed("CACERT") =>
                    client.verify = Trusted(IF Sets("VERIFY_CA") THEN RcValue("VERIFY_CA")
                                                                 ELSE "true",
                                            OfFile("CACERT"))
=============================================================================
