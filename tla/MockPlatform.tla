---------------------------- MODULE MockPlatform ----------------------------
(***************************************************************************)
(* Mock mode: the client of the platform API answers from arrays in memory *)
(* (platform/mock-data.ts), one synchronous function per call.  It is to   *)
(* keep the promises of PlatformStore with other data structures: entries  *)
(* found by name in arrays, and values and passwords kept on the side.     *)
(***************************************************************************)
CONSTANTS Apps, Names, Values, Databases, Passwords, HealthPaths,
          SampleApps, SampleDatabases,  \* what is there from the start
          None

App == [name : Apps, healthPath : HealthPaths,
        status : {"active", "reconciling"}, ready : BOOLEAN]
Database == [name : Databases, password : Passwords]

ASSUME SampleAssumption == SampleApps \subseteq Apps /\ SampleDatabases \subseteq Databases
ASSUME NoneAssumption == None \notin Values

VARIABLES apps,               \* the array, as a set of its entries
          envVars,            \* by service, the names of its variables
          envValues,          \* by service and name, a value set, or None
          fileValues,         \* what the code does not keep: the value in a
                              \* file uploaded since, or None
          databases,          \* the array; an entry keeps what was asked for
          databasePasswords,  \* by database
          call                \* the last call, and its answer

vars == <<apps, envVars, envValues, fileValues, databases, databasePasswords, call>>
envState == <<envVars, envValues, fileValues>>
databaseState == <<databases, databasePasswords>>

NamesOf(entries) == {x.name : x \in entries}
Without(entries, name) == {x \in entries : x.name # name}

TypeOK ==
  /\ apps \subseteq App
  /\ envVars \in [Apps -> SUBSET Names]
  /\ envValues \in [Apps -> [Names -> Values \cup {None}]]
  /\ fileValues \in [Apps -> [Names -> Values \cup {None}]]
  /\ databases \subseteq Database
  /\ databasePasswords \in [Databases -> Passwords]

(* The sample data: no value is set yet, and each database has a password. *)
Init ==
  /\ \E h \in HealthPaths :
       apps = {[name |-> a, healthPath |-> h, status |-> "active",
                ready |-> TRUE] : a \in SampleApps}
  /\ envVars \in [Apps -> SUBSET Names]
  /\ envValues = [a \in Apps |-> [n \in Names |-> None]]
  /\ fileValues = envValues
  /\ databasePasswords \in [Databases -> Passwords]
  /\ databases = {[name |-> d, password |-> databasePasswords[d]] : d \in SampleDatabases}
  /\ call = None

Call(op, on, given, answer) ==
  call' = [op |-> op, on |-> on, given |-> given, answer |-> answer]
Reads(op, on, answer) ==
  /\ Call(op, on, {}, answer)
  /\ UNCHANGED <<apps, envState, databaseState>>

-----------------------------------------------------------------------------
(* Services.                                                               *)

MockListApps == Reads("listApps", None, NamesOf(apps))

(* Mutant: the new entry is put in front, and the old one stays.           *)
OthersAll(entries, name) == entries
Others(entries, name) == Without(entries, name)

(* An app of the same name is replaced.                                    *)
MockCreateApp(a, healthPath) ==
  /\ apps' = Others(apps, a) \cup
       {[name |-> a, healthPath |-> healthPath, status |-> "active", ready |-> TRUE]}
  /\ Call("createApp", a, {}, {})
  /\ UNCHANGED <<envState, databaseState>>

Updated(x, healthPath, ready) ==
  [name |-> x.name, healthPath |-> healthPath, status |-> "reconciling", ready |-> ready]

(* Every entry of that name, of which there is one at most.                *)
MockUpdateAppHealthPath(a, healthPath) ==
  /\ IF a \in NamesOf(apps)
     THEN /\ apps' = Without(apps, a) \cup
               {Updated(x, healthPath, FALSE) : x \in {y \in apps : y.name = a}}
          /\ Call("updateAppHealthPath", a, {}, {})
     ELSE UNCHANGED apps /\ Call("updateAppHealthPath", a, {}, {None})
  /\ UNCHANGED <<envState, databaseState>>

(* Its variables stay behind.                                              *)
MockDeleteApp(a) ==
  /\ apps' = Without(apps, a)
  /\ Call("deleteApp", a, {}, {})
  /\ UNCHANGED <<envState, databaseState>>

MockRedeployApp(a) ==
  /\ apps' = Without(apps, a) \cup
       {Updated(x, x.healthPath, x.ready) : x \in {y \in apps : y.name = a}}
  /\ Call("redeployApp", a, {}, {})
  /\ UNCHANGED <<envState, databaseState>>

-----------------------------------------------------------------------------
(* Variables.                                                              *)

MockListEnvVars(a) == Reads("listEnvVars", a, envVars[a])

(* Mutant: what was there is lost when one is set.                         *)
MergeEnvNew(current, next) == next
(* Mutant: the array as one entry, where its entries belong.               *)
MergeEnvNested(current, next) == current \cup {next}
MergeEnv(current, next) == current \cup next

(* A file, a value for each name that it has.                              *)
Files == UNION {[names -> Values] : names \in SUBSET Names}
Assigned(file) == {<<n, file[n]>> : n \in DOMAIN file}

(* The names in the file are merged in, and only they are answered.  Of    *)
(* the values nothing is kept: envValues stays as it is.                   *)
MockUploadEnvFile(a, file) ==
  /\ envVars' = [envVars EXCEPT ![a] = MergeEnv(@, DOMAIN file)]
  /\ fileValues' = [fileValues EXCEPT ![a] =
       [n \in Names |-> IF n \in DOMAIN file THEN file[n] ELSE fileValues[a][n]]]
  /\ Call("uploadEnvFile", a, Assigned(file), DOMAIN file)
  /\ UNCHANGED <<apps, envValues, databaseState>>

MockSetEnvVar(a, n, v) ==
  /\ envVars' = [envVars EXCEPT ![a] = MergeEnv(@, {n})]
  /\ envValues' = [envValues EXCEPT ![a] = [@ EXCEPT ![n] = v]]
  /\ fileValues' = [fileValues EXCEPT ![a] = [@ EXCEPT ![n] = None]]
  /\ Call("setEnvVar", a, {<<n, v>>}, {})
  /\ UNCHANGED <<apps, databaseState>>

(* The value set, or else one made up from the name.                       *)
MockGetEnvVar(a, n) == Reads("getEnvVar", a, {envValues[a][n]})

(* The value stays behind.                                                 *)
MockDeleteEnvVar(a, n) ==
  /\ envVars' = [envVars EXCEPT ![a] = @ \ {n}]
  /\ Call("deleteEnvVar", a, {n}, {})
  /\ UNCHANGED <<apps, envValues, fileValues, databaseState>>

-----------------------------------------------------------------------------
(* Databases.                                                              *)

MockListDatabases == Reads("listDatabases", None, NamesOf(databases))

MockCreateDatabase(d, p) ==
  /\ databases' = Others(databases, d) \cup {[name |-> d, password |-> p]}
  /\ databasePasswords' = [databasePasswords EXCEPT ![d] = p]
  /\ Call("createDatabase", d, {p}, {})
  /\ UNCHANGED <<apps, envState>>

MockGetDatabaseCredentials(d) ==
  Reads("getDatabaseCredentials", d,
        IF d \in NamesOf(databases) THEN {databasePasswords[d]} ELSE {None})

(* The password stays behind.                                              *)
MockDeleteDatabase(d) ==
  /\ databases' = Without(databases, d)
  /\ Call("deleteDatabase", d, {}, {})
  /\ UNCHANGED <<apps, envState, databasePasswords>>

Next ==
  \/ MockListApps \/ MockListDatabases
  \/ \E a \in Apps :
       \/ \E h \in HealthPaths : MockCreateApp(a, h) \/ MockUpdateAppHealthPath(a, h)
       \/ MockDeleteApp(a) \/ MockRedeployApp(a) \/ MockListEnvVars(a)
       \/ \E file \in Files : MockUploadEnvFile(a, file)
       \/ \E n \in Names : \/ MockGetEnvVar(a, n) \/ MockDeleteEnvVar(a, n)
                           \/ \E v \in Values : MockSetEnvVar(a, n, v)
  \/ \E d \in Databases :
       \/ MockGetDatabaseCredentials(d) \/ MockDeleteDatabase(d)
       \/ \E p \in Passwords : MockCreateDatabase(d, p)

Spec == Init /\ [][Next]_vars

-----------------------------------------------------------------------------
(* No long sequence of calls lists a name twice, and a database that is    *)
(* listed shows the password it was created with (mockCreateApp,           *)
(* mockCreateDatabase, mockDeleteDatabase).                                *)
EntriesAreUnique ==
  /\ \A x, y \in apps : x.name = y.name => x = y
  /\ \A x, y \in databases : x.name = y.name => x = y
  /\ \A x \in databases : databasePasswords[x.name] = x.password

(* The value last given to each variable, by itself or in a file.          *)
LastGiven == [a \in Apps |-> [n \in Names |->
  IF fileValues[a][n] = None THEN envValues[a][n] ELSE fileValues[a][n]]]

Platform == INSTANCE PlatformStore WITH
              apps <- NamesOf(apps), env <- envVars, values <- LastGiven,
              databases <- NamesOf(databases), passwords <- databasePasswords

(* The promise that mock mode does not keep: the value of a variable that  *)
(* a file has set is asked for, and the one set before it, or one made up  *)
(* if there was none, is answered.                                         *)
FileValueForgotten ==
  \E a \in Apps, n \in Names :
    fileValues[a][n] # None /\ Platform!Reads("getEnvVar", a, {envValues[a][n]})

(* Mock mode keeps every other promise that the console relies on of the   *)
(* platform: the arrays are the services and databases there are, a call   *)
(* changes what it names only, a value or a password set by a call is the  *)
(* one that is answered, and what stays behind a deletion is not seen but  *)
(* by one of the same name (mock-data.ts).                                 *)
KeepsPromisesButFileValues ==
  Platform!Init /\ [][Platform!Next \/ FileValueForgotten]_(Platform!vars)
=============================================================================
