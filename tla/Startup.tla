------------------------------- MODULE Startup -------------------------------
(***************************************************************************)
(* The process from its command line to the listening server (main,        *)
(* serve, migrate and create_admin of src/src/main.rs, src/src/config.rs,  *)
(* src/src/cli.rs, init_pool and run_migrations of src/src/db/mod.rs).     *)
(*                                                                         *)
(* Some of the steps that may fail end the process, and some leave it      *)
(* running without a part. The disk outlives it. Logging is left out.      *)
(***************************************************************************)
EXTENDS Naturals

CONSTANTS
    CommandLines,   \* bound: the command lines the process is started with
    MaxStarts       \* bound: starts of the process in a behaviour

\* The flags given, each with an environment variable of its own.
OidcFlags == {"issuer_url", "client_id", "client_secret"}
SmtpFlags == {"smtp_host", "smtp_from", "base_url"}

Cli == [command : {"serve", "migrate", "create_admin"}, flags : SUBSET (OidcFlags \cup SmtpFlags),
        smtp_tls : {"none", "starttls", "tls", "other"}]

ASSUME StartupAssumption == CommandLines \subseteq Cli /\ MaxStarts \in Nat

VARIABLES
    disk,           \* the schema is migrated, the directory for uploads is there
    proc,           \* the process: pc, cli, and the parts it has
    starts          \* starts so far

startVars == <<disk, proc, starts>>

NoCli == [command |-> "migrate", flags |-> {}, smtp_tls |-> "none"]

\* What Config holds of the command line; smtp is the TLS mode, if mail is configured.
NoConfig == [oidc |-> FALSE, smtp |-> "off"]
Configs == [oidc : BOOLEAN, smtp : {"off", "none", "starttls", "tls", "other"}]

\* Of the AppState, and of the tasks beside it, the parts that may be missing.
Down == [pc |-> "down", cli |-> NoCli, config |-> NoConfig, oidc |-> FALSE, mail |-> FALSE,
         worker |-> FALSE]

StartupInit ==
    /\ disk = [migrated |-> FALSE, tmp |-> FALSE]
    /\ proc = Down
    /\ starts = 0

-----------------------------------------------------------------------------
(* Config::from_cli.                                                       *)

OidcConfig(cli) == OidcFlags \subseteq cli.flags
SmtpConfig(cli) == "smtp_host" \in cli.flags

\* The two expects: an SMTP host without its companions is a panic, whatever the command.
Panics(cli) == SmtpConfig(cli) /\ ~(SmtpFlags \subseteq cli.flags)

Config(cli) ==
    [oidc |-> OidcConfig(cli), smtp |-> IF SmtpConfig(cli) THEN cli.smtp_tls ELSE "off"]

At(pc) == proc.pc = pc
Goto(pc) == proc' = [proc EXCEPT !.pc = pc] /\ UNCHANGED starts
Exit == proc' = Down /\ UNCHANGED starts

\* main: the configuration, then the data directory, which may fail, then the command.
Launch(cli) ==
    /\ At("down")
    /\ starts < MaxStarts
    /\ starts' = starts + 1
    /\ \/ proc' = Down
       \/ ~Panics(cli) /\ proc' = [Down EXCEPT !.pc = "pool", !.cli = cli, !.config = Config(cli)]
    /\ UNCHANGED disk

InitPool == At("pool") /\ (Goto("migrate") \/ Exit) /\ UNCHANGED disk

\* The first step of every command; each migration is a transaction.
RunMigrations ==
    /\ At("migrate")
    /\ \/ /\ disk' = [disk EXCEPT !.migrated = TRUE]
          /\ CASE proc.cli.command = "serve" -> Goto("oidc")
               [] proc.cli.command = "migrate" -> Exit
               [] proc.cli.command = "create_admin" -> Goto("admin")
       \/ Exit /\ UNCHANGED disk

\* The account itself is module Accounts'.
CreateAdmin == At("admin") /\ Exit /\ UNCHANGED disk

\* Mutant: a discovery that fails is tolerated, as a slug cache that fails is.
InitOidc_Tolerated ==
    /\ At("oidc")
    /\ \E found \in BOOLEAN :
          proc' = [proc EXCEPT !.pc = "slugs", !.oidc = proc.config.oidc /\ found]
    /\ UNCHANGED <<disk, starts>>

\* discover: the provider answers, or serve ends with its error.
InitOidc ==
    /\ At("oidc")
    /\ \/ /\ proc' = [proc EXCEPT !.pc = "slugs", !.oidc = proc.config.oidc]
          /\ UNCHANGED starts
       \/ proc.config.oidc /\ Exit
    /\ UNCHANGED disk

\* SlugCache::new: with or without the cache (module ComponentTree), the server goes on.
LoadSlugs == At("slugs") /\ Goto("dirs") /\ UNCHANGED disk

InitDirs ==
    /\ At("dirs")
    /\ \/ disk' = [disk EXCEPT !.tmp = TRUE] /\ Goto("mailer")
       \/ Exit /\ (UNCHANGED disk \/ disk' = [disk EXCEPT !.tmp = TRUE])

\* EmailSender::from_config, build_transport: a TLS mode that is none of the three, a host
\* or a from-address that cannot be used leaves the server without mail.
Mailers(config) ==
    IF config.smtp \in {"off", "other"} THEN {FALSE} ELSE BOOLEAN

InitMailer ==
    /\ At("mailer")
    /\ \E mail \in Mailers(proc.config) : proc' = [proc EXCEPT !.pc = "spawn", !.mail = mail]
    /\ UNCHANGED <<disk, starts>>

\* The worker runs from here on, with or without mail; it sleeps before its first pass.
SpawnWorker ==
    /\ At("spawn")
    /\ proc' = [proc EXCEPT !.pc = "bind", !.worker = TRUE]
    /\ UNCHANGED <<disk, starts>>

Bind == At("bind") /\ (Goto("up") \/ Exit) /\ UNCHANGED disk

StartupNext ==
    \/ \E cli \in CommandLines : Launch(cli)
    \/ InitPool \/ RunMigrations \/ CreateAdmin \/ InitOidc \/ LoadSlugs \/ InitDirs
    \/ InitMailer \/ SpawnWorker \/ Bind

-----------------------------------------------------------------------------
StartupTypeOK ==
    /\ disk \in [migrated : BOOLEAN, tmp : BOOLEAN]
    /\ proc \in [pc : {"down", "pool", "migrate", "admin", "oidc", "slugs", "dirs", "mailer",
                       "spawn", "bind", "up"},
                 cli : CommandLines \cup {NoCli}, config : Configs, oidc : BOOLEAN, mail : BOOLEAN,
                 worker : BOOLEAN]
    /\ starts \in 0 .. MaxStarts

\* A server that listens is one whose schema is migrated, whose upload directory is there
\* and whose worker runs, with the login by OIDC exactly if all three of its flags were
\* given, and with mail only if SMTP was configured whole: whatever steps failed on the way.
ServedAsConfigured ==
    proc.pc = "up" =>
       /\ disk.migrated /\ disk.tmp /\ proc.worker
       /\ proc.oidc <=> OidcFlags \subseteq proc.cli.flags
       /\ proc.mail => SmtpFlags \subseteq proc.cli.flags /\ proc.cli.smtp_tls # "other"
=============================================================================
