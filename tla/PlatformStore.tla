--------------------------- MODULE PlatformStore ---------------------------
(***************************************************************************)
(* What the console relies on of the platform behind platform/api.ts,      *)
(* whichever it is: platform-api over HTTP, or the sample data of mock     *)
(* mode.  A call changes what it names and nothing else, and its answer is *)
(* true.  Whether a call is refused, what becomes of variables that an     *)
(* uploaded file does not name, and whether a name that is used again      *)
(* finds anything of its predecessor, is left open: the two differ there.  *)
(***************************************************************************)
CONSTANTS Apps, Names, Values, Databases, Passwords, None

VARIABLES apps,       \* the services there are
          env,        \* the names of the variables kept for each service
          values,     \* by service and name, the value last set, or None
          databases,  \* the databases there are
          passwords,  \* by database
          call        \* the last call, and its answer

vars == <<apps, env, values, databases, passwords, call>>

Init ==
  /\ apps \in SUBSET Apps
  /\ env \in [Apps -> SUBSET Names]
  /\ values \in [Apps -> [Names -> Values \cup {None}]]
  /\ databases \in SUBSET Databases
  /\ passwords \in [Databases -> Passwords]
  /\ call = None

Call(op, on, given, answer) ==
  call' = [op |-> op, on |-> on, given |-> given, answer |-> answer]

Reads(op, on, answer) ==
  /\ Call(op, on, {}, answer)
  /\ UNCHANGED <<apps, env, values, databases, passwords>>
Refuses(op, on) == Reads(op, on, {None})

-----------------------------------------------------------------------------
(* Services.  A new one may find variables under its name.                 *)

ListApps == Reads("listApps", None, apps)

CreateApp(a) ==
  /\ Call("createApp", a, {}, {})
  /\ apps' = apps \cup {a}
  /\ UNCHANGED <<env, values, databases, passwords>>

DeleteApp(a) ==
  /\ Call("deleteApp", a, {}, {})
  /\ apps' = apps \ {a}
  /\ \E left \in {{}, env[a]} : env' = [env EXCEPT ![a] = left]
  /\ UNCHANGED <<values, databases, passwords>>

UpdateAppHealthPath(a) == Reads("updateAppHealthPath", a, {})
RedeployApp(a) == Reads("redeployApp", a, {})

-----------------------------------------------------------------------------
(* Variables.                                                              *)

ListEnvVars(a) == Reads("listEnvVars", a, env[a])

(* The files there can be: a value for each name that one has.             *)
Files == UNION {[names -> Values] : names \in SUBSET Names}

Assigned(file) == {<<n, file[n]>> : n \in DOMAIN file}

(* What the file names is set to what it says, and answered; what is       *)
(* answered is kept.                                                       *)
UploadEnvFile(a, file) ==
  /\ \E kept \in SUBSET env[a], more \in SUBSET Names :
       /\ more \subseteq kept
       /\ env' = [env EXCEPT ![a] = DOMAIN file \cup kept]
       /\ Call("uploadEnvFile", a, Assigned(file), DOMAIN file \cup more)
  /\ values' = [values EXCEPT ![a] =
       [n \in Names |-> IF n \in DOMAIN file THEN file[n] ELSE values[a][n]]]
  /\ UNCHANGED <<apps, databases, passwords>>

SetEnvVar(a, n, v) ==
  /\ Call("setEnvVar", a, {<<n, v>>}, {})
  /\ env' = [env EXCEPT ![a] = @ \cup {n}]
  /\ values' = [values EXCEPT ![a] = [@ EXCEPT ![n] = v]]
  /\ UNCHANGED <<apps, databases, passwords>>

(* The value is the one last set, by itself or in a file, if one was.      *)
GetEnvVar(a, n) ==
  \E v \in Values \cup {None} :
    /\ values[a][n] # None => v = values[a][n]
    /\ Reads("getEnvVar", a, {v})

DeleteEnvVar(a, n) ==
  /\ Call("deleteEnvVar", a, {n}, {})
  /\ env' = [env EXCEPT ![a] = @ \ {n}]
  /\ UNCHANGED <<apps, values, databases, passwords>>

-----------------------------------------------------------------------------
(* Databases.                                                              *)

ListDatabases == Reads("listDatabases", None, databases)

CreateDatabase(d, p) ==
  /\ Call("createDatabase", d, {p}, {})
  /\ databases' = databases \cup {d}
  /\ passwords' = [passwords EXCEPT ![d] = p]
  /\ UNCHANGED <<apps, env, values>>

(* Only a database that is there has credentials.                          *)
GetDatabaseCredentials(d) ==
  d \in databases /\ Reads("getDatabaseCredentials", d, {passwords[d]})

DeleteDatabase(d) ==
  /\ Call("deleteDatabase", d, {}, {})
  /\ databases' = databases \ {d}
  /\ UNCHANGED <<apps, env, values, passwords>>

Operations == {"createApp", "deleteApp", "updateAppHealthPath", "redeployApp",
               "listEnvVars", "uploadEnvFile", "setEnvVar", "getEnvVar",
               "deleteEnvVar", "createDatabase", "getDatabaseCredentials",
               "deleteDatabase"}

Next ==
  \/ ListApps \/ ListDatabases
  \/ \E op \in Operations, on \in Apps \cup Databases : Refuses(op, on)
  \/ \E a \in Apps :
       \/ CreateApp(a) \/ DeleteApp(a)
       \/ UpdateAppHealthPath(a) \/ RedeployApp(a) \/ ListEnvVars(a)
       \/ \E file \in Files : UploadEnvFile(a, file)
       \/ \E n \in Names : \/ GetEnvVar(a, n) \/ DeleteEnvVar(a, n)
                           \/ \E v \in Values : SetEnvVar(a, n, v)
  \/ \E d \in Databases :
       \/ GetDatabaseCredentials(d) \/ DeleteDatabase(d)
       \/ \E p \in Passwords : CreateDatabase(d, p)

Spec == Init /\ [][Next]_vars
=============================================================================
