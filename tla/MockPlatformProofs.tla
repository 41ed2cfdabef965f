------------------------- MODULE MockPlatformProofs -------------------------
(***************************************************************************)
(* Mock mode keeps the promises of PlatformStore, but that of values read  *)
(* from files, for every set of names, values and passwords.               *)
(***************************************************************************)
EXTENDS MockPlatform, TLAPS

Inv == TypeOK /\ EntriesAreUnique

(* Leaving out a name, and adding an entry.                                *)
LEMMA NamesWithout ==
  ASSUME NEW entries, NEW name
  PROVE  NamesOf(Without(entries, name)) = NamesOf(entries) \ {name}
BY DEF NamesOf, Without

LEMMA NamesAdded ==
  ASSUME NEW entries, NEW x
  PROVE  NamesOf(entries \cup {x}) = NamesOf(entries) \cup {x.name}
<1>1. ASSUME NEW n \in NamesOf(entries \cup {x}) PROVE n \in NamesOf(entries) \cup {x.name}
  BY <1>1 DEF NamesOf
<1>2. ASSUME NEW n \in NamesOf(entries) \cup {x.name} PROVE n \in NamesOf(entries \cup {x})
  BY <1>2 DEF NamesOf
<1> QED BY <1>1, <1>2

(* The steps on services are those of the array of services only.          *)
LEMMA ServicesKeepInv ==
  ASSUME Inv, NEW a \in Apps,
         \/ \E h \in HealthPaths : MockCreateApp(a, h) \/ MockUpdateAppHealthPath(a, h)
         \/ MockDeleteApp(a) \/ MockRedeployApp(a)
  PROVE  Inv'
<1>1. UNCHANGED <<envState, databaseState>>
  BY DEF MockCreateApp, MockUpdateAppHealthPath, MockDeleteApp, MockRedeployApp
<1>2. apps' \subseteq App
  <2>1. Without(apps, a) \subseteq App
    BY DEF Inv, TypeOK, Without
  <2>2. CASE \E h \in HealthPaths : MockCreateApp(a, h)
    <3>1. PICK h \in HealthPaths : MockCreateApp(a, h)
      BY <2>2
    <3>2. [name |-> a, healthPath |-> h, status |-> "active", ready |-> TRUE] \in App
      BY DEF App
    <3> QED BY <2>1, <3>1, <3>2 DEF MockCreateApp, Others
  <2>3. CASE \E h \in HealthPaths : MockUpdateAppHealthPath(a, h)
    <3>1. PICK h \in HealthPaths : MockUpdateAppHealthPath(a, h)
      BY <2>3
    <3>2. ASSUME NEW y \in apps PROVE Updated(y, h, FALSE) \in App
      BY DEF Inv, TypeOK, App, Updated
    <3>3. {Updated(x, h, FALSE) : x \in {y \in apps : y.name = a}} \subseteq App
      BY <3>2
    <3>4. CASE a \in NamesOf(apps)
      BY <2>1, <3>1, <3>3, <3>4 DEF MockUpdateAppHealthPath
    <3>5. CASE a \notin NamesOf(apps)
      BY <3>1, <3>5 DEF MockUpdateAppHealthPath, Inv, TypeOK
    <3> QED BY <3>4, <3>5
  <2>4. CASE MockDeleteApp(a)
    BY <2>1, <2>4 DEF MockDeleteApp
  <2>5. CASE MockRedeployApp(a)
    <3>1. ASSUME NEW y \in apps PROVE Updated(y, y.healthPath, y.ready) \in App
      BY DEF Inv, TypeOK, App, Updated
    <3> QED BY <2>1, <2>5, <3>1 DEF MockRedeployApp
  <2> QED BY <2>2, <2>3, <2>4, <2>5
<1>3. \A x, y \in apps' : x.name = y.name => x = y
  <2> SUFFICES ASSUME NEW x \in apps', NEW y \in apps', x.name = y.name PROVE x = y
    OBVIOUS
  <2>1. CASE \E h \in HealthPaths : MockCreateApp(a, h)
    <3>1. PICK h \in HealthPaths : MockCreateApp(a, h)
      BY <2>1
    <3> DEFINE new == [name |-> a, healthPath |-> h, status |-> "active", ready |-> TRUE]
    <3>2. apps' = Without(apps, a) \cup {new} /\ new.name = a
      BY <3>1 DEF MockCreateApp, Others
    <3> HIDE DEF new
    <3> QED BY <3>2 DEF Inv, EntriesAreUnique, Without
  <2>2. CASE \E h \in HealthPaths : MockUpdateAppHealthPath(a, h)
    <3>1. PICK h \in HealthPaths : MockUpdateAppHealthPath(a, h)
      BY <2>2
    <3>2. ASSUME NEW z \in apps
          PROVE  Updated(z, h, FALSE).name = z.name
      BY DEF Updated
    <3>3. CASE a \in NamesOf(apps)
      <4>1. apps' = Without(apps, a) \cup
               {Updated(z, h, FALSE) : z \in {w \in apps : w.name = a}}
        BY <3>1, <3>3 DEF MockUpdateAppHealthPath
      <4>2. ASSUME NEW z \in apps'
            PROVE  \/ z \in apps /\ z.name # a
                   \/ \E w \in apps : w.name = a /\ z = Updated(w, h, FALSE)
        BY <4>1 DEF Without
      <4>3. CASE x.name = a
        <5>1. PICK w \in apps : w.name = a /\ x = Updated(w, h, FALSE)
          BY <4>2, <4>3
        <5>2. PICK v \in apps : v.name = a /\ y = Updated(v, h, FALSE)
          BY <4>2, <4>3
        <5>3. v = w
          BY <5>1, <5>2 DEF Inv, EntriesAreUnique
        <5> QED BY <5>1, <5>2, <5>3
      <4>4. CASE x.name # a
        <5>1. x \in apps /\ y \in apps
          BY <3>2, <4>2, <4>4
        <5> QED BY <5>1 DEF Inv, EntriesAreUnique
      <4> QED BY <4>3, <4>4
    <3>4. CASE a \notin NamesOf(apps)
      BY <3>1, <3>4 DEF Inv, EntriesAreUnique, MockUpdateAppHealthPath
    <3> QED BY <3>3, <3>4
  <2>3. CASE MockDeleteApp(a)
    BY <2>3 DEF Inv, EntriesAreUnique, MockDeleteApp, Without
  <2>4. CASE MockRedeployApp(a)
    <3>1. ASSUME NEW z \in apps PROVE Updated(z, z.healthPath, z.ready).name = z.name
      BY DEF Inv, TypeOK, App, Updated
    <3> QED BY <2>4, <3>1 DEF Inv, EntriesAreUnique, MockRedeployApp, Without
  <2> QED BY <2>1, <2>2, <2>3, <2>4
<1> QED BY <1>1, <1>2, <1>3 DEF Inv, TypeOK, EntriesAreUnique, envState, databaseState

LEMMA FileIsTyped ==
  ASSUME NEW file \in Files
  PROVE  file \in [DOMAIN file -> Values] /\ DOMAIN file \subseteq Names
BY DEF Files

(* The steps on variables.                                                 *)
LEMMA VariablesKeepInv ==
  ASSUME Inv, NEW a \in Apps,
         \/ \E file \in Files : MockUploadEnvFile(a, file)
         \/ \E n \in Names : \/ MockDeleteEnvVar(a, n)
                             \/ \E v \in Values : MockSetEnvVar(a, n, v)
  PROVE  Inv'
<1>1. UNCHANGED <<apps, databaseState>>
  BY DEF MockUploadEnvFile, MockDeleteEnvVar, MockSetEnvVar
<1>2. ASSUME NEW file \in Files, MockUploadEnvFile(a, file)
      PROVE  /\ envVars' \in [Apps -> SUBSET Names]
             /\ envValues' \in [Apps -> [Names -> Values \cup {None}]]
             /\ fileValues' \in [Apps -> [Names -> Values \cup {None}]]
  <2> DEFINE row == [n \in Names |-> IF n \in DOMAIN file THEN file[n] ELSE fileValues[a][n]]
  <2>1. envVars' \in [Apps -> SUBSET Names]
    BY <1>2, FileIsTyped DEF Inv, TypeOK, MockUploadEnvFile, MergeEnv
  <2>2. row \in [Names -> Values \cup {None}]
    BY FileIsTyped DEF Inv, TypeOK
  <2>3. fileValues' = [fileValues EXCEPT ![a] = row] /\ UNCHANGED envValues
    BY <1>2 DEF MockUploadEnvFile
  <2> HIDE DEF row
  <2> QED BY <2>1, <2>2, <2>3 DEF Inv, TypeOK
<1>3. ASSUME NEW n \in Names, MockDeleteEnvVar(a, n)
      PROVE  /\ envVars' \in [Apps -> SUBSET Names]
             /\ envValues' \in [Apps -> [Names -> Values \cup {None}]]
             /\ fileValues' \in [Apps -> [Names -> Values \cup {None}]]
  BY <1>3 DEF Inv, TypeOK, MockDeleteEnvVar
<1>4. ASSUME NEW n \in Names, NEW v \in Values, MockSetEnvVar(a, n, v)
      PROVE  /\ envVars' \in [Apps -> SUBSET Names]
             /\ envValues' \in [Apps -> [Names -> Values \cup {None}]]
             /\ fileValues' \in [Apps -> [Names -> Values \cup {None}]]
  <2>1. envVars' \in [Apps -> SUBSET Names]
    BY <1>4 DEF Inv, TypeOK, MockSetEnvVar, MergeEnv
  <2>2. [envValues[a] EXCEPT ![n] = v] \in [Names -> Values \cup {None}]
    BY DEF Inv, TypeOK
  <2>3. envValues' \in [Apps -> [Names -> Values \cup {None}]]
    BY <1>4, <2>2 DEF Inv, TypeOK, MockSetEnvVar
  <2>4. [fileValues[a] EXCEPT ![n] = None] \in [Names -> Values \cup {None}]
    BY DEF Inv, TypeOK
  <2>5. fileValues' \in [Apps -> [Names -> Values \cup {None}]]
    BY <1>4, <2>4 DEF Inv, TypeOK, MockSetEnvVar
  <2> QED BY <2>1, <2>3, <2>5
<1>5. /\ envVars' \in [Apps -> SUBSET Names]
      /\ envValues' \in [Apps -> [Names -> Values \cup {None}]]
      /\ fileValues' \in [Apps -> [Names -> Values \cup {None}]]
  BY <1>2, <1>3, <1>4
<1> QED BY <1>1, <1>5 DEF Inv, TypeOK, EntriesAreUnique, databaseState

(* The steps on databases.                                                 *)
LEMMA DatabasesKeepInv ==
  ASSUME Inv, NEW d \in Databases,
         MockDeleteDatabase(d) \/ \E p \in Passwords : MockCreateDatabase(d, p)
  PROVE  Inv'
<1>1. UNCHANGED <<apps, envState>>
  BY DEF MockDeleteDatabase, MockCreateDatabase
<1>2. CASE MockDeleteDatabase(d)
  <2>1. databases' \subseteq databases /\ UNCHANGED databasePasswords
    BY <1>2 DEF MockDeleteDatabase, Without
  <2> QED BY <1>1, <2>1 DEF Inv, TypeOK, EntriesAreUnique, envState
<1>3. ASSUME NEW p \in Passwords, MockCreateDatabase(d, p) PROVE Inv'
  <2> DEFINE new == [name |-> d, password |-> p]
  <2>1. /\ databases' = Without(databases, d) \cup {new}
        /\ databasePasswords' = [databasePasswords EXCEPT ![d] = p]
    BY <1>3 DEF MockCreateDatabase, Others
  <2>2. new \in Database /\ new.name = d /\ new.password = p
    BY DEF Database
  <2> HIDE DEF new
  <2>3. databases' \subseteq Database /\ databasePasswords' \in [Databases -> Passwords]
    BY <2>1, <2>2 DEF Inv, TypeOK, Without
  <2>4. ASSUME NEW x \in databases', NEW y \in databases', x.name = y.name PROVE x = y
    BY <2>1, <2>2, <2>4 DEF Inv, EntriesAreUnique, Without
  <2>5. ASSUME NEW x \in databases' PROVE databasePasswords'[x.name] = x.password
    <3>1. CASE x = new
      BY <2>1, <2>2, <3>1 DEF Inv, TypeOK
    <3>2. CASE x \in databases /\ x.name # d
      BY <2>1, <3>2 DEF Inv, TypeOK, EntriesAreUnique
    <3> QED BY <2>1, <3>1, <3>2 DEF Without
  <2> QED BY <1>1, <2>3, <2>4, <2>5 DEF Inv, TypeOK, EntriesAreUnique, envState
<1> QED BY <1>2, <1>3

LEMMA InvHolds == Spec => []Inv
<1>1. Init => Inv
  <2> SUFFICES ASSUME Init PROVE Inv
    OBVIOUS
  <2>1. apps \subseteq App
    <3>1. PICK h \in HealthPaths :
            apps = {[name |-> a, healthPath |-> h, status |-> "active",
                     ready |-> TRUE] : a \in SampleApps}
      BY DEF Init
    <3>2. ASSUME NEW a \in SampleApps
          PROVE  [name |-> a, healthPath |-> h, status |-> "active", ready |-> TRUE] \in App
      BY SampleAssumption DEF App
    <3> QED BY <3>1, <3>2
  <2>2. databases \subseteq Database
    BY SampleAssumption DEF Init, Database
  <2>3. \A x, y \in apps : x.name = y.name => x = y
    <3>1. PICK h \in HealthPaths :
            apps = {[name |-> a, healthPath |-> h, status |-> "active",
                     ready |-> TRUE] : a \in SampleApps}
      BY DEF Init
    <3>2. ASSUME NEW x \in apps
          PROVE  x = [name |-> x.name, healthPath |-> h, status |-> "active", ready |-> TRUE]
      BY <3>1
    <3> QED BY <3>2
  <2>4. ASSUME NEW x \in databases
        PROVE  x = [name |-> x.name, password |-> databasePasswords[x.name]]
    BY DEF Init
  <2>5. EntriesAreUnique
    BY <2>3, <2>4 DEF EntriesAreUnique
  <2> QED BY <2>1, <2>2, <2>5 DEF Init, Inv, TypeOK
<1>2. Inv /\ [Next]_vars => Inv'
  <2> SUFFICES ASSUME Inv, [Next]_vars PROVE Inv'
    OBVIOUS
  <2>1. CASE UNCHANGED <<apps, envState, databaseState>>
    BY <2>1 DEF Inv, TypeOK, EntriesAreUnique, envState, databaseState
  <2>2. ASSUME NEW a \in Apps,
               \/ \E h \in HealthPaths : MockCreateApp(a, h) \/ MockUpdateAppHealthPath(a, h)
               \/ MockDeleteApp(a) \/ MockRedeployApp(a)
        PROVE  Inv'
    BY <2>2, ServicesKeepInv
  <2>3. ASSUME NEW a \in Apps,
               \/ \E file \in Files : MockUploadEnvFile(a, file)
               \/ \E n \in Names : \/ MockDeleteEnvVar(a, n)
                                   \/ \E v \in Values : MockSetEnvVar(a, n, v)
        PROVE  Inv'
    BY <2>3, VariablesKeepInv
  <2>4. ASSUME NEW d \in Databases,
               MockDeleteDatabase(d) \/ \E p \in Passwords : MockCreateDatabase(d, p)
        PROVE  Inv'
    BY <2>4, DatabasesKeepInv
  <2>5. ASSUME \/ UNCHANGED vars \/ MockListApps \/ MockListDatabases
               \/ \E a \in Apps : MockListEnvVars(a) \/ \E n \in Names : MockGetEnvVar(a, n)
               \/ \E d \in Databases : MockGetDatabaseCredentials(d)
        PROVE  UNCHANGED <<apps, envState, databaseState>>
    BY <2>5 DEF vars, envState, databaseState, MockListApps, MockListDatabases,
                MockListEnvVars, MockGetEnvVar, MockGetDatabaseCredentials, Reads
  <2> QED BY <2>1, <2>2, <2>3, <2>4, <2>5 DEF Next
<1> QED BY <1>1, <1>2, PTL DEF Spec

(* However the calls of a session of mock mode follow one another, the     *)
(* sample data keeps its shape (mock-data.ts).                             *)
THEOREM SampleDataIsTyped == Spec => []TypeOK
BY InvHolds, PTL DEF Inv

(* No name is ever listed twice, and the password kept on the side is that *)
(* of the database listed (mockCreateApp, mockCreateDatabase).             *)
THEOREM SampleEntriesAreUnique == Spec => []EntriesAreUnique
BY InvHolds, PTL DEF Inv

-----------------------------------------------------------------------------
(* The refinement, one lemma for each part of the client.                  *)

LEMMA ServicesKeepPromises ==
  ASSUME Inv, NEW a \in Apps,
         \/ \E h \in HealthPaths : MockCreateApp(a, h) \/ MockUpdateAppHealthPath(a, h)
         \/ MockDeleteApp(a) \/ MockRedeployApp(a)
  PROVE  Platform!Next
<1>1. CASE \E h \in HealthPaths : MockCreateApp(a, h)
  <2>1. PICK h \in HealthPaths : MockCreateApp(a, h)
    BY <1>1
  <2>2. NamesOf(apps)' = NamesOf(apps) \cup {a}
    <3> DEFINE new == [name |-> a, healthPath |-> h, status |-> "active", ready |-> TRUE]
    <3>1. apps' = Without(apps, a) \cup {new} /\ new.name = a
      BY <2>1 DEF MockCreateApp, Others
    <3> HIDE DEF new
    <3>2. NamesOf(Without(apps, a) \cup {new}) = NamesOf(Without(apps, a)) \cup {new.name}
      BY NamesAdded
    <3>3. NamesOf(Without(apps, a)) = NamesOf(apps) \ {a}
      BY NamesWithout
    <3>4. NamesOf(apps)' = NamesOf(Without(apps, a) \cup {new})
      BY <3>1 DEF NamesOf
    <3> QED BY <3>1, <3>2, <3>3, <3>4
  <2>3. Platform!CreateApp(a)
    BY <2>1, <2>2 DEF Platform!CreateApp, MockCreateApp, Platform!Call, Call, envState,
                      databaseState, NamesOf, LastGiven
  <2> QED BY <2>3 DEF Platform!Next
<1>2. CASE \E h \in HealthPaths : MockUpdateAppHealthPath(a, h)
  <2>1. PICK h \in HealthPaths : MockUpdateAppHealthPath(a, h)
    BY <1>2
  <2>2. ASSUME NEW y \in apps
        PROVE  Updated(y, h, FALSE).name = y.name
    BY DEF Inv, TypeOK, App, Updated
  <2>3. NamesOf(apps)' = NamesOf(apps)
    BY <2>1, <2>2 DEF MockUpdateAppHealthPath, NamesOf, Without
  <2>4. \/ Platform!UpdateAppHealthPath(a)
        \/ Platform!Refuses("updateAppHealthPath", a)
    BY <2>1, <2>3 DEF MockUpdateAppHealthPath, Platform!UpdateAppHealthPath, Platform!Refuses,
         Platform!Reads, Platform!Call, Call, envState, databaseState, NamesOf, LastGiven
  <2> QED BY <2>4 DEF Platform!Next, Platform!Operations
<1>3. CASE MockDeleteApp(a)
  <2>1. NamesOf(apps)' = NamesOf(apps) \ {a}
    BY <1>3, NamesWithout DEF MockDeleteApp, NamesOf
  <2>2. envVars' = [envVars EXCEPT ![a] = envVars[a]]
    BY <1>3 DEF MockDeleteApp, envState, Inv, TypeOK
  <2>3. Platform!DeleteApp(a)
    BY <1>3, <2>1, <2>2 DEF MockDeleteApp, Platform!DeleteApp, Platform!Call, Call, envState,
                            databaseState, NamesOf, LastGiven
  <2> QED BY <2>3 DEF Platform!Next
<1>4. CASE MockRedeployApp(a)
  <2>1. ASSUME NEW y \in apps PROVE Updated(y, y.healthPath, y.ready).name = y.name
    BY DEF Inv, TypeOK, App, Updated
  <2>2. NamesOf(apps)' = NamesOf(apps)
    BY <1>4, <2>1 DEF MockRedeployApp, NamesOf, Without
  <2>3. Platform!RedeployApp(a)
    BY <1>4, <2>2 DEF MockRedeployApp, Platform!RedeployApp, Platform!Reads, Platform!Call,
                      Call, envState, databaseState, NamesOf, LastGiven
  <2> QED BY <2>3 DEF Platform!Next
<1> QED BY <1>1, <1>2, <1>3, <1>4

LEMMA VariablesKeepPromises ==
  ASSUME Inv, NEW a \in Apps,
         \/ \E file \in Files : MockUploadEnvFile(a, file)
         \/ \E n \in Names : \/ MockDeleteEnvVar(a, n)
                             \/ \E v \in Values : MockSetEnvVar(a, n, v)
  PROVE  Platform!Next
<1>1. ASSUME NEW file \in Files, MockUploadEnvFile(a, file)
      PROVE  Platform!UploadEnvFile(a, file)
  <2>1. envVars' = [envVars EXCEPT ![a] = DOMAIN file \cup envVars[a]]
    BY <1>1 DEF MockUploadEnvFile, MergeEnv, Inv, TypeOK
  <2>2. Platform!Call("uploadEnvFile", a, Platform!Assigned(file), DOMAIN file \cup {})
    BY <1>1 DEF MockUploadEnvFile, Platform!Call, Call, Platform!Assigned, Assigned
  <2>3. LastGiven' = [LastGiven EXCEPT ![a] =
          [n \in Names |-> IF n \in DOMAIN file THEN file[n] ELSE LastGiven[a][n]]]
    <3>1. UNCHANGED envValues
      BY <1>1 DEF MockUploadEnvFile
    <3>2. ASSUME NEW b \in Apps, NEW n \in Names
          PROVE  fileValues'[b][n] = IF b = a /\ n \in DOMAIN file THEN file[n]
                                                                   ELSE fileValues[b][n]
      BY <1>1 DEF MockUploadEnvFile, Inv, TypeOK
    <3>3. ASSUME NEW n \in DOMAIN file PROVE file[n] # None
      BY FileIsTyped, NoneAssumption
    <3>4. ASSUME NEW b \in Apps
          PROVE  LastGiven'[b] = [n \in Names |-> IF b = a /\ n \in DOMAIN file THEN file[n]
                                                                ELSE LastGiven[b][n]]
      BY <3>1, <3>2, <3>3 DEF LastGiven
    <3>5. LastGiven'[a] =
            [n \in Names |-> IF n \in DOMAIN file THEN file[n] ELSE LastGiven[a][n]]
      BY <3>4
    <3>6. ASSUME NEW b \in Apps, b # a PROVE LastGiven'[b] = LastGiven[b]
      BY <3>4, <3>6 DEF LastGiven
    <3>7. /\ LastGiven = [b \in Apps |-> LastGiven[b]]
          /\ LastGiven' = [b \in Apps |-> LastGiven'[b]]
      BY DEF LastGiven
    <3> QED BY <3>5, <3>6, <3>7
  <2>4. UNCHANGED <<NamesOf(apps), NamesOf(databases), databasePasswords>>
    BY <1>1 DEF MockUploadEnvFile, databaseState, NamesOf
  <2>5. \E kept \in SUBSET envVars[a], more \in SUBSET Names :
          /\ more \subseteq kept
          /\ envVars' = [envVars EXCEPT ![a] = DOMAIN file \cup kept]
          /\ Platform!Call("uploadEnvFile", a, Platform!Assigned(file), DOMAIN file \cup more)
    <3>1. envVars[a] \in SUBSET envVars[a] /\ {} \in SUBSET Names /\ {} \subseteq envVars[a]
      OBVIOUS
    <3> QED BY <2>1, <2>2, <3>1
  <2> QED BY <2>3, <2>4, <2>5 DEF Platform!UploadEnvFile
<1>2. ASSUME NEW n \in Names, MockDeleteEnvVar(a, n)
      PROVE  Platform!DeleteEnvVar(a, n)
  BY <1>2 DEF MockDeleteEnvVar, Platform!DeleteEnvVar, Platform!Call, Call, databaseState,
              NamesOf, LastGiven
<1>3. ASSUME NEW n \in Names, NEW v \in Values, MockSetEnvVar(a, n, v)
      PROVE  Platform!SetEnvVar(a, n, v)
  <2>1. LastGiven' = [LastGiven EXCEPT ![a] = [@ EXCEPT ![n] = v]]
    <3>1. ASSUME NEW b \in Apps, NEW m \in Names
          PROVE  /\ fileValues'[b][m] = IF b = a /\ m = n THEN None ELSE fileValues[b][m]
                 /\ envValues'[b][m] = IF b = a /\ m = n THEN v ELSE envValues[b][m]
      BY <1>3 DEF MockSetEnvVar, Inv, TypeOK
    <3>2. ASSUME NEW b \in Apps
          PROVE  LastGiven'[b] = [m \in Names |-> IF b = a /\ m = n THEN v
                                                                ELSE LastGiven[b][m]]
      BY <3>1 DEF LastGiven
    <3>3. LastGiven[a] = [m \in Names |-> LastGiven[a][m]]
      BY DEF LastGiven
    <3>4. LastGiven'[a] = [LastGiven[a] EXCEPT ![n] = v]
      BY <3>2, <3>3
    <3>5. ASSUME NEW b \in Apps, b # a PROVE LastGiven'[b] = LastGiven[b]
      BY <3>2, <3>5 DEF LastGiven
    <3>6. /\ LastGiven = [b \in Apps |-> LastGiven[b]]
          /\ LastGiven' = [b \in Apps |-> LastGiven'[b]]
      BY DEF LastGiven
    <3> QED BY <3>4, <3>5, <3>6
  <2> QED BY <1>3, <2>1 DEF MockSetEnvVar, MergeEnv, Platform!SetEnvVar, Platform!Call, Call,
                            databaseState, NamesOf
<1>4. Platform!Files = Files
  BY DEF Platform!Files, Files
<1> QED BY <1>1, <1>2, <1>3, <1>4 DEF Platform!Next

LEMMA DatabasesKeepPromises ==
  ASSUME Inv, NEW d \in Databases,
         MockDeleteDatabase(d) \/ \E p \in Passwords : MockCreateDatabase(d, p)
  PROVE  Platform!Next
<1>1. CASE MockDeleteDatabase(d)
  <2>1. NamesOf(databases)' = NamesOf(databases) \ {d}
    BY <1>1, NamesWithout DEF MockDeleteDatabase, NamesOf
  <2>2. Platform!DeleteDatabase(d)
    BY <1>1, <2>1 DEF MockDeleteDatabase, Platform!DeleteDatabase, Platform!Call, Call,
                      envState, NamesOf, LastGiven
  <2> QED BY <2>2 DEF Platform!Next
<1>2. ASSUME NEW p \in Passwords, MockCreateDatabase(d, p)
      PROVE  Platform!CreateDatabase(d, p)
  <2>1. NamesOf(databases)' = NamesOf(databases) \cup {d}
    <3> DEFINE new == [name |-> d, password |-> p]
    <3>1. databases' = Without(databases, d) \cup {new} /\ new.name = d
      BY <1>2 DEF MockCreateDatabase, Others
    <3> HIDE DEF new
    <3>2. NamesOf(Without(databases, d) \cup {new}) = NamesOf(Without(databases, d)) \cup {new.name}
      BY NamesAdded
    <3>3. NamesOf(Without(databases, d)) = NamesOf(databases) \ {d}
      BY NamesWithout
    <3>4. NamesOf(databases)' = NamesOf(Without(databases, d) \cup {new})
      BY <3>1 DEF NamesOf
    <3> QED BY <3>1, <3>2, <3>3, <3>4
  <2> QED BY <1>2, <2>1 DEF MockCreateDatabase, Platform!CreateDatabase, Platform!Call, Call,
                            envState, NamesOf, LastGiven
<1> QED BY <1>1, <1>2 DEF Platform!Next

(* A call that reads changes nothing, and answers what there is, unless it *)
(* asks for a value that a file has set.                                   *)
LEMMA ReadsKeepPromises ==
  ASSUME Inv,
         \/ MockListApps \/ MockListDatabases
         \/ \E a \in Apps : MockListEnvVars(a) \/ \E n \in Names : MockGetEnvVar(a, n)
         \/ \E d \in Databases : MockGetDatabaseCredentials(d)
  PROVE  Platform!Next \/ FileValueForgotten
<1>1. ASSUME NEW op, NEW on, NEW answer, Reads(op, on, answer)
      PROVE  Platform!Reads(op, on, answer)
  BY <1>1 DEF Reads, Platform!Reads, Platform!Call, Call, envState, databaseState, NamesOf, LastGiven
<1>2. CASE MockListApps
  BY <1>1, <1>2 DEF MockListApps, Platform!ListApps, Platform!Next
<1>3. CASE MockListDatabases
  BY <1>1, <1>3 DEF MockListDatabases, Platform!ListDatabases, Platform!Next
<1>4. ASSUME NEW a \in Apps, MockListEnvVars(a) PROVE Platform!ListEnvVars(a)
  BY <1>1, <1>4 DEF MockListEnvVars, Platform!ListEnvVars
<1>5. ASSUME NEW a \in Apps, NEW n \in Names, MockGetEnvVar(a, n)
      PROVE  Platform!GetEnvVar(a, n) \/ FileValueForgotten
  <2>1. envValues[a][n] \in Values \cup {None}
    BY DEF Inv, TypeOK
  <2>2. Platform!Reads("getEnvVar", a, {envValues[a][n]})
    BY <1>1, <1>5 DEF MockGetEnvVar
  <2>3. CASE fileValues[a][n] = None
    <3>1. LastGiven[a][n] = envValues[a][n]
      BY <2>3 DEF LastGiven
    <3> QED BY <2>1, <2>2, <3>1 DEF Platform!GetEnvVar
  <2>4. CASE fileValues[a][n] # None
    BY <2>1, <2>2, <2>4 DEF FileValueForgotten
  <2> QED BY <2>3, <2>4
<1>6. ASSUME NEW d \in Databases, MockGetDatabaseCredentials(d)
      PROVE  \/ Platform!GetDatabaseCredentials(d)
             \/ Platform!Refuses("getDatabaseCredentials", d)
  BY <1>1, <1>6 DEF MockGetDatabaseCredentials, Platform!GetDatabaseCredentials, Platform!Refuses
<1>7. "getDatabaseCredentials" \in Platform!Operations
  BY DEF Platform!Operations
<1> QED BY <1>2, <1>3, <1>4, <1>5, <1>6, <1>7 DEF Platform!Next

LEMMA StepsKeepPromises ==
  Inv /\ [Next]_vars => [Platform!Next \/ FileValueForgotten]_(Platform!vars)
<1> SUFFICES ASSUME Inv, [Next]_vars
             PROVE  [Platform!Next \/ FileValueForgotten]_(Platform!vars)
  OBVIOUS
<1>1. CASE UNCHANGED vars
  BY <1>1 DEF vars, envState, databaseState, Platform!vars, NamesOf, LastGiven
<1>2. CASE Next
  <2>1. Platform!Next \/ FileValueForgotten
    BY <1>2, ServicesKeepPromises, VariablesKeepPromises, DatabasesKeepPromises,
       ReadsKeepPromises DEF Next
  <2> QED BY <2>1
<1> QED BY <1>1, <1>2

(* What the console meets in mock mode it might have met at the platform,  *)
(* but for the values that a file has set: these are not kept, and a value *)
(* superseded by one is answered (mock-data.ts for api.ts).                *)
THEOREM MockKeepsPromisesButFileValues == Spec => KeepsPromisesButFileValues
<1>1. Init => Platform!Init
  <2> SUFFICES ASSUME Init PROVE Platform!Init
    OBVIOUS
  <2>1. PICK h \in HealthPaths :
          apps = {[name |-> a, healthPath |-> h, status |-> "active",
                   ready |-> TRUE] : a \in SampleApps}
    BY DEF Init
  <2>2. NamesOf(apps) = SampleApps
    <3>1. ASSUME NEW a \in SampleApps PROVE a \in NamesOf(apps)
      <4> DEFINE x == [name |-> a, healthPath |-> h, status |-> "active", ready |-> TRUE]
      <4>1. x \in apps /\ x.name = a
        BY <2>1
      <4> QED BY <4>1 DEF NamesOf
    <3>2. ASSUME NEW x \in apps PROVE x.name \in SampleApps
      BY <2>1
    <3> QED BY <3>1, <3>2 DEF NamesOf
  <2>3. NamesOf(databases) = SampleDatabases
    <3>1. ASSUME NEW d \in SampleDatabases PROVE d \in NamesOf(databases)
      <4> DEFINE x == [name |-> d, password |-> databasePasswords[d]]
      <4>1. x \in databases /\ x.name = d
        BY DEF Init
      <4> QED BY <4>1 DEF NamesOf
    <3>2. ASSUME NEW x \in databases PROVE x.name \in SampleDatabases
      BY DEF Init
    <3> QED BY <3>1, <3>2 DEF NamesOf
  <2>4. LastGiven \in [Apps -> [Names -> Values \cup {None}]]
    BY DEF Init, LastGiven
  <2> QED BY <2>2, <2>3, <2>4, SampleAssumption DEF Init, Platform!Init
<1>2. Inv /\ [Next]_vars => [Platform!Next \/ FileValueForgotten]_(Platform!vars)
  BY StepsKeepPromises
<1> QED BY <1>1, <1>2, InvHolds, PTL DEF Spec, KeepsPromisesButFileValues
=============================================================================
