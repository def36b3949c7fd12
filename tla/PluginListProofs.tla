--------------------------- MODULE PluginListProofs ---------------------------
(***************************************************************************)
(* KeysAreIds, ThreadsAreOwn, MappedAreListed and NothingSurvives of       *)
(* PluginList for any number of files and ids, as long as no id is in use  *)
(* already (Calm).  They are put as a property of every file by itself:    *)
(* an operation changes the entry, the library and the thread of one file, *)
(* or does the same to each of some.                                       *)
(***************************************************************************)
EXTENDS PluginList, TLAPS

Calm == Mishaps = {}

State == [list    : [Id -> File \cup {NoFile}],
          cfg     : [File -> Config],
          mapped  : SUBSET File,
          threads : [Id -> File \cup {NoFile}]]

\* File f has at most one key, the id of its library; the thread of this id
\* runs it as long as it is enabled; its library is open while it is loaded,
\* and then it is in the list.
GoodFile(s, f) ==
  /\ \A i \in Id : s.list[i] = f => s.cfg[f].id \in {i, NoId}
  /\ \A i, j \in Id : s.list[i] = f /\ s.list[j] = f => i = j
  /\ \A i \in Id : s.threads[i] = f <=> s.cfg[f].id = i /\ s.cfg[f].enabled
  /\ f \in s.mapped <=> s.cfg[f].id # NoId
  /\ f \in s.mapped => \E i \in Id : s.list[i] = f

Good(s) == s \in State /\ \A f \in File : GoodFile(s, f)

\* What is still to be registered is not there.
Unseen ==
  /\ stage # "registering" => unregistered = {}
  /\ \A f \in unregistered : ~Listed(f)

Inv == TypeOK /\ Good(S) /\ Unseen /\ NothingSurvives

-----------------------------------------------------------------------------

\* The state as a record.
LEMMA AsRecord ==
  ASSUME TypeOK
  PROVE  /\ S \in State /\ S.list = id_plugin_list /\ S.cfg = cfg
         /\ S.mapped = mapped /\ S.threads = thread_memory
  BY DEF TypeOK, S, State

\* A file that keeps everything stays as it is.
LEMMA Kept ==
  ASSUME NEW s \in State, NEW r \in State, NEW f \in File, GoodFile(s, f),
         \A i \in Id : (r.list[i] = f <=> s.list[i] = f) /\ (r.threads[i] = f <=> s.threads[i] = f),
         r.cfg[f] = s.cfg[f], f \in r.mapped <=> f \in s.mapped
  PROVE  GoodFile(r, f)
  BY DEF GoodFile

\* The configurations.
LEMMA Fresh ==
  ASSUME NEW i \in Id, NEW b \in BOOLEAN
  PROVE  /\ [id |-> i, enabled |-> b] \in Config
         /\ [id |-> i, enabled |-> b].id = i /\ [id |-> i, enabled |-> b].enabled = b
  BY DEF Config

LEMMA Nothing == Unloaded \in Config /\ Unloaded.id = NoId /\ Unloaded.enabled = FALSE /\ NoId \notin Id
  BY ListAssumption DEF Config, Unloaded

LEMMA Configs ==
  ASSUME NEW c \in Config
  PROVE  /\ c.id \in Id \cup {NoId} /\ c.enabled \in BOOLEAN
         /\ c.id = NoId => c.enabled = FALSE
         /\ c.id # NoId => \A b \in BOOLEAN : /\ [c EXCEPT !.enabled = b] \in Config
                                              /\ [c EXCEPT !.enabled = b].id = c.id
                                              /\ [c EXCEPT !.enabled = b].enabled = b
<1>1. CASE c = Unloaded
  BY <1>1, Nothing
<1>2. CASE c \in [id : Id, enabled : BOOLEAN]
  BY <1>2, ListAssumption DEF Config
<1>. QED
  BY <1>1, <1>2 DEF Config

\* One file's configuration is replaced.
LEMMA Replaced ==
  ASSUME NEW c \in [File -> Config], NEW f \in File, NEW v \in Config
  PROVE  /\ [c EXCEPT ![f] = v] \in [File -> Config]
         /\ [c EXCEPT ![f] = v][f] = v
         /\ \A g \in File \ {f} : [c EXCEPT ![f] = v][g] = c[g]
  OBVIOUS

\* The helpers, one field after the other.
LEMMA Enable ==
  ASSUME NEW s \in State, NEW f \in File, Loaded(s, f)
  PROVE  LET r == enable_plugin(s, f) IN
         /\ r \in State /\ r.list = s.list /\ r.mapped = s.mapped
         /\ r.cfg[f].id = s.cfg[f].id /\ r.cfg[f].enabled
         /\ \A g \in File \ {f} : r.cfg[g] = s.cfg[g]
         /\ \A i \in Id : r.threads[i] = IF i = s.cfg[f].id /\ s.threads[i] = NoFile
                                         THEN f ELSE s.threads[i]
<1>. DEFINE i == s.cfg[f].id
            v == [s.cfg[f] EXCEPT !.enabled = TRUE]
            c == [s.cfg EXCEPT ![f] = v]
            t == [s.threads EXCEPT ![i] = IF s.threads[i] = NoFile THEN f ELSE s.threads[i]]
<1>1. s.cfg[f] \in Config /\ i \in Id
  BY Configs DEF Loaded, State
<1>2. enable_plugin(s, f) = [s EXCEPT !.cfg = c, !.threads = t]
  BY DEF enable_plugin
<1>3. /\ c \in [File -> Config] /\ c[f].id = i /\ c[f].enabled
      /\ \A g \in File \ {f} : c[g] = s.cfg[g]
  <2>1. v \in Config /\ v.id = i /\ v.enabled = TRUE
    BY <1>1, Configs DEF Loaded
  <2>2. s.cfg \in [File -> Config]
    BY DEF State
  <2>. HIDE DEF v
  <2>. QED
    BY <2>1, <2>2, Replaced
<1>4. /\ t \in [Id -> File \cup {NoFile}]
      /\ \A j \in Id : t[j] = IF j = i /\ s.threads[j] = NoFile THEN f ELSE s.threads[j]
  BY <1>1 DEF State
<1>. HIDE DEF i, c, t
<1>5. /\ enable_plugin(s, f) \in State
      /\ enable_plugin(s, f).cfg = c /\ enable_plugin(s, f).threads = t
      /\ enable_plugin(s, f).list = s.list /\ enable_plugin(s, f).mapped = s.mapped
  BY <1>2, <1>3, <1>4 DEF State
<1>. QED
  BY <1>3, <1>4, <1>5 DEF i

LEMMA Disable ==
  ASSUME NEW s \in State, NEW f \in File
  PROVE  LET r == disable_plugin(s, f) IN
         /\ r \in State /\ r.list = s.list /\ r.mapped = s.mapped
         /\ r.cfg[f].id = s.cfg[f].id /\ ~r.cfg[f].enabled
         /\ \A g \in File \ {f} : r.cfg[g] = s.cfg[g]
         /\ \A i \in Id : r.threads[i] = IF i = s.cfg[f].id /\ s.cfg[f].enabled
                                         THEN NoFile ELSE s.threads[i]
<1>1. s.cfg[f] \in Config
  BY DEF State
<1>2. CASE Loaded(s, f) /\ s.cfg[f].enabled
  <2>. DEFINE i == s.cfg[f].id
              v == [s.cfg[f] EXCEPT !.enabled = FALSE]
              c == [s.cfg EXCEPT ![f] = v]
              t == [s.threads EXCEPT ![i] = NoFile]
  <2>1. i \in Id
    BY <1>1, <1>2, Configs DEF Loaded
  <2>2. disable_plugin(s, f) = [s EXCEPT !.cfg = c, !.threads = t]
    BY <1>2 DEF disable_plugin
  <2>3. /\ c \in [File -> Config] /\ c[f].id = i /\ c[f].enabled = FALSE
        /\ \A g \in File \ {f} : c[g] = s.cfg[g]
    <3>1. v \in Config /\ v.id = i /\ v.enabled = FALSE
      BY <1>1, <1>2, Configs DEF Loaded
    <3>2. s.cfg \in [File -> Config]
      BY DEF State
    <3>. HIDE DEF v
    <3>. QED
      BY <3>1, <3>2, Replaced
  <2>4. /\ t \in [Id -> File \cup {NoFile}]
        /\ \A j \in Id : t[j] = IF j = i THEN NoFile ELSE s.threads[j]
    BY <2>1 DEF State
  <2>. HIDE DEF i, c, t
  <2>5. /\ disable_plugin(s, f) \in State
        /\ disable_plugin(s, f).cfg = c /\ disable_plugin(s, f).threads = t
        /\ disable_plugin(s, f).list = s.list /\ disable_plugin(s, f).mapped = s.mapped
    BY <2>2, <2>3, <2>4 DEF State
  <2>. QED
    BY <1>2, <2>3, <2>4, <2>5 DEF i
<1>3. CASE ~(Loaded(s, f) /\ s.cfg[f].enabled)
  <2>1. disable_plugin(s, f) = s
    BY <1>3 DEF disable_plugin
  <2>2. s.cfg[f].enabled = FALSE
    BY <1>1, <1>3, Configs DEF Loaded
  <2>. QED
    BY <2>1, <2>2
<1>. QED
  BY <1>2, <1>3

LEMMA Unload ==
  ASSUME NEW s \in State, NEW f \in File
  PROVE  LET r == unload_plugin(s, f) IN
         /\ r \in State /\ r.list = s.list
         /\ r.mapped = IF Loaded(s, f) THEN s.mapped \ {f} ELSE s.mapped
         /\ r.cfg[f].id = NoId /\ ~r.cfg[f].enabled
         /\ \A g \in File \ {f} : r.cfg[g] = s.cfg[g]
         /\ \A i \in Id : r.threads[i] = IF i = s.cfg[f].id /\ s.cfg[f].enabled
                                         THEN NoFile ELSE s.threads[i]
<1>1. CASE Loaded(s, f)
  <2>. DEFINE d == disable_plugin(s, f)
  <2>1. /\ d \in State /\ d.list = s.list /\ d.mapped = s.mapped
        /\ \A g \in File \ {f} : d.cfg[g] = s.cfg[g]
        /\ \A i \in Id : d.threads[i] = IF i = s.cfg[f].id /\ s.cfg[f].enabled
                                        THEN NoFile ELSE s.threads[i]
    BY Disable
  <2>2. unload_plugin(s, f) = [d EXCEPT !.cfg = [d.cfg EXCEPT ![f] = Unloaded], !.mapped = d.mapped \ {f}]
    BY <1>1 DEF unload_plugin
  <2>. DEFINE c == [d.cfg EXCEPT ![f] = Unloaded]
  <2>. HIDE DEF d
  <2>3. c \in [File -> Config] /\ c[f] = Unloaded /\ \A g \in File \ {f} : c[g] = s.cfg[g]
    BY <2>1, Nothing, Replaced DEF State
  <2>. DEFINE m == d.mapped \ {f}
  <2>4. c \in [File -> Config] /\ m \in SUBSET File
    BY <2>1, <2>3 DEF State
  <2>5. unload_plugin(s, f) = [d EXCEPT !.cfg = c, !.mapped = m]
    BY <2>2
  <2>. HIDE DEF c, m
  <2>6. /\ unload_plugin(s, f) \in State /\ unload_plugin(s, f).cfg = c
        /\ unload_plugin(s, f).mapped = m
        /\ unload_plugin(s, f).list = d.list /\ unload_plugin(s, f).threads = d.threads
    BY <2>1, <2>4, <2>5 DEF State
  <2>. QED
    BY <1>1, <2>1, <2>3, <2>6, Nothing DEF m
<1>2. CASE ~Loaded(s, f)
  <2>1. unload_plugin(s, f) = s
    BY <1>2 DEF unload_plugin
  <2>2. s.cfg[f] \in Config /\ s.cfg[f].id = NoId
    BY <1>2 DEF Loaded, State
  <2>3. s.cfg[f].enabled = FALSE
    BY <2>2, Configs
  <2>. QED
    BY <1>2, <2>1, <2>2, <2>3
<1>. QED
  BY <1>1, <1>2

LEMMA Load ==
  ASSUME NEW s \in State, NEW f \in File, NEW i \in Id
  PROVE  /\ load_plugin(s, f, i) \in State
         /\ load_plugin(s, f, i).list = s.list
         /\ load_plugin(s, f, i).mapped = s.mapped \cup {f}
         /\ load_plugin(s, f, i).threads = s.threads
         /\ load_plugin(s, f, i).cfg[f].id = i
         /\ ~load_plugin(s, f, i).cfg[f].enabled
         /\ \A g \in File \ {f} : load_plugin(s, f, i).cfg[g] = s.cfg[g]
<1>. DEFINE v == [id |-> i, enabled |-> FALSE]
            c == [s.cfg EXCEPT ![f] = v]
<1>1. load_plugin(s, f, i) = [s EXCEPT !.cfg = c, !.mapped = s.mapped \cup {f}]
  BY DEF load_plugin
<1>2. /\ c \in [File -> Config] /\ c[f].id = i /\ c[f].enabled = FALSE
      /\ \A g \in File \ {f} : c[g] = s.cfg[g]
  <2>1. v \in Config /\ v.id = i /\ v.enabled = FALSE
    BY Fresh
  <2>2. s.cfg \in [File -> Config]
    BY DEF State
  <2>. HIDE DEF v
  <2>. QED
    BY <2>1, <2>2, Replaced
<1>. HIDE DEF c
<1>. DEFINE m == s.mapped \cup {f}
<1>3. c \in [File -> Config] /\ m \in SUBSET File
  BY <1>2 DEF State
<1>4. load_plugin(s, f, i) = [s EXCEPT !.cfg = c, !.mapped = m]
  BY <1>1
<1>. HIDE DEF m
<1>5. /\ load_plugin(s, f, i) \in State
      /\ load_plugin(s, f, i).list = s.list
      /\ load_plugin(s, f, i).mapped = m
      /\ load_plugin(s, f, i).threads = s.threads
      /\ load_plugin(s, f, i).cfg = c
  BY <1>3, <1>4 DEF State
<1>. QED
  BY <1>2, <1>5 DEF m

\* A file gets a free key, or is dropped.
LEMMA AddListed ==
  ASSUME NEW s \in State, NEW f \in File, NEW i \in Id, s.cfg[f].id = i, s.list[i] = NoFile
  PROVE  LET r == addNewPlugin(s, f) IN
         /\ r \in State /\ r.threads = s.threads /\ r.mapped = s.mapped /\ r.cfg = s.cfg
         /\ \A j \in Id : r.list[j] = IF j = i THEN f ELSE s.list[j]
<1>. DEFINE l == [s.list EXCEPT ![i] = f]
<1>1. addNewPlugin(s, f) = [s EXCEPT !.list = l]
  BY DEF addNewPlugin
<1>2. l \in [Id -> File \cup {NoFile}] /\ \A j \in Id : l[j] = IF j = i THEN f ELSE s.list[j]
  BY DEF State
<1>. HIDE DEF l
<1>. QED
  BY <1>1, <1>2 DEF State

LEMMA AddDropped ==
  ASSUME NEW s \in State, NEW f \in File, s.list[s.cfg[f].id] # NoFile
  PROVE  /\ addNewPlugin(s, f) \in State
         /\ addNewPlugin(s, f).threads = s.threads
         /\ addNewPlugin(s, f).list = s.list
         /\ addNewPlugin(s, f).mapped = s.mapped \ {f}
         /\ addNewPlugin(s, f).cfg = [s.cfg EXCEPT ![f] = Unloaded]
<1>. DEFINE c == [s.cfg EXCEPT ![f] = Unloaded]
<1>1. addNewPlugin(s, f) = [s EXCEPT !.mapped = s.mapped \ {f}, !.cfg = c]
  BY DEF addNewPlugin
<1>2. c \in [File -> Config]
  BY Nothing, Replaced DEF State
<1>. HIDE DEF c
<1>3. /\ addNewPlugin(s, f) \in State
      /\ addNewPlugin(s, f).threads = s.threads
      /\ addNewPlugin(s, f).list = s.list
      /\ addNewPlugin(s, f).mapped = s.mapped \ {f}
      /\ addNewPlugin(s, f).cfg = c
  BY <1>1, <1>2 DEF State
<1>. QED
  BY <1>3 DEF c

\* Its key is changed to a free one.
LEMMA ChangeKey ==
  ASSUME NEW s \in State, NEW i \in Id, NEW j \in Id, i # j, s.list[j] = NoFile
  PROVE  LET r == changeKey(s, i, j) IN
         /\ r \in State \/ s.list[i] = NoFile
         /\ r.threads = s.threads /\ r.cfg = s.cfg /\ r.mapped = s.mapped
         /\ \A k \in Id : r.list[k] = IF k = i THEN NoFile ELSE IF k = j THEN s.list[i] ELSE s.list[k]
<1>. DEFINE f == s.list[i]
            m == [s.list EXCEPT ![i] = NoFile]
            l == [m EXCEPT ![j] = f]
            t == [s EXCEPT !.list = m]
<1>1. m \in [Id -> File \cup {NoFile}] /\ \A k \in Id : m[k] = IF k = i THEN NoFile ELSE s.list[k]
  BY DEF State
<1>2. t.list = m /\ m[j] = NoFile
  BY <1>1 DEF State
<1>3. changeKey(s, i, j) = [t EXCEPT !.list[j] = f]
  BY <1>2 DEF changeKey
<1>4. changeKey(s, i, j) = [s EXCEPT !.list = l]
  BY <1>2, <1>3 DEF State
<1>5. /\ l \in [Id -> File \cup {NoFile}]
      /\ \A k \in Id : l[k] = IF k = i THEN NoFile ELSE IF k = j THEN f ELSE s.list[k]
  BY <1>1 DEF State
<1>. HIDE DEF l, f
<1>6. changeKey(s, i, j) \in State /\ changeKey(s, i, j).list = l
      /\ changeKey(s, i, j).threads = s.threads /\ changeKey(s, i, j).cfg = s.cfg
      /\ changeKey(s, i, j).mapped = s.mapped
  BY <1>4, <1>5 DEF State
<1>. QED
  BY <1>5, <1>6 DEF f

-----------------------------------------------------------------------------

\* An operation on one file leaves the others as they are.
LEMMA OneFile ==
  ASSUME NEW s, Good(s), NEW r \in State, NEW f \in File, GoodFile(r, f),
         \A g \in File \ {f} : /\ r.cfg[g] = s.cfg[g]
                               /\ g \in r.mapped <=> g \in s.mapped
                               /\ \A i \in Id : /\ r.list[i] = g <=> s.list[i] = g
                                                /\ r.threads[i] = g <=> s.threads[i] = g
  PROVE  Good(r)
<1>1. s \in State /\ \A g \in File : GoodFile(s, g)
  BY DEF Good
<1>2. ASSUME NEW g \in File PROVE GoodFile(r, g)
  <2>1. CASE g = f
    BY <2>1
  <2>2. CASE g # f
    BY <1>1, <2>2, Kept
  <2>. QED
    BY <2>1, <2>2
<1>. QED
  BY <1>2 DEF Good

\* A thread belongs to the plugin that is listed under its id.
LEMMA ThreadIsListed ==
  ASSUME NEW s, Good(s), NEW i \in Id, s.threads[i] # NoFile
  PROVE  /\ s.threads[i] \in File /\ s.list[i] = s.threads[i]
         /\ s.cfg[s.threads[i]].id = i /\ s.cfg[s.threads[i]].enabled
<1>1. s.threads[i] \in File
  BY DEF Good, State
<1>. DEFINE g == s.threads[i]
<1>2. GoodFile(s, g)
  BY <1>1 DEF Good
<1>3. s.cfg[g].id = i /\ s.cfg[g].enabled
  BY <1>1, <1>2 DEF GoodFile
<1>4. PICK k \in Id : s.list[k] = g
  BY <1>2, <1>3, Nothing DEF GoodFile
<1>5. k = i
  BY <1>2, <1>3, <1>4, Nothing DEF GoodFile
<1>. QED
  BY <1>1, <1>3, <1>4, <1>5

LEMMA GoodEnable ==
  ASSUME NEW s, Good(s), NEW i \in Id, NEW f \in File, s.list[i] = f, CanEnable(s, f)
  PROVE  Good(enable_plugin(s, f))
<1>. DEFINE r == enable_plugin(s, f)
<1>1. s \in State /\ GoodFile(s, f) /\ Loaded(s, f) /\ ~s.cfg[f].enabled
  BY DEF Good, CanEnable
<1>2. s.cfg[f].id = i
  BY <1>1 DEF GoodFile, Loaded
<1>3. s.threads[i] = NoFile
  BY <1>1, ThreadIsListed
<1>4. /\ r \in State /\ r.list = s.list /\ r.mapped = s.mapped
      /\ r.cfg[f].id = i /\ r.cfg[f].enabled
      /\ \A g \in File \ {f} : r.cfg[g] = s.cfg[g]
      /\ \A j \in Id : r.threads[j] = IF j = i THEN f ELSE s.threads[j]
  <2>1. /\ r \in State /\ r.list = s.list /\ r.mapped = s.mapped
        /\ r.cfg[f].id = s.cfg[f].id /\ r.cfg[f].enabled
        /\ \A g \in File \ {f} : r.cfg[g] = s.cfg[g]
        /\ \A j \in Id : r.threads[j] = IF j = s.cfg[f].id /\ s.threads[j] = NoFile
                                        THEN f ELSE s.threads[j]
    BY <1>1, Enable
  <2>. HIDE DEF r
  <2>. QED
    BY <1>2, <1>3, <2>1
<1>. HIDE DEF r
<1>5. GoodFile(r, f)
  BY <1>1, <1>2, <1>4 DEF GoodFile
<1>6. NoFile \notin File
  BY ListAssumption
<1>7. Good(r)
  BY <1>3, <1>4, <1>5, <1>6, OneFile
<1>. QED
  BY <1>7 DEF r

LEMMA GoodDisable ==
  ASSUME NEW s, Good(s), NEW f \in File
  PROVE  Good(disable_plugin(s, f))
<1>. DEFINE r == disable_plugin(s, f)
<1>1. s \in State /\ GoodFile(s, f)
  BY DEF Good
<1>2. /\ r \in State /\ r.list = s.list /\ r.mapped = s.mapped
      /\ r.cfg[f].id = s.cfg[f].id /\ ~r.cfg[f].enabled
      /\ \A g \in File \ {f} : r.cfg[g] = s.cfg[g]
      /\ \A i \in Id : r.threads[i] = IF i = s.cfg[f].id /\ s.cfg[f].enabled
                                      THEN NoFile ELSE s.threads[i]
  BY <1>1, Disable
<1>. HIDE DEF r
<1>3. NoFile \notin File
  BY ListAssumption
<1>4. GoodFile(r, f)
  BY <1>1, <1>2, <1>3 DEF GoodFile
<1>5. \A i \in Id : i = s.cfg[f].id /\ s.cfg[f].enabled => s.threads[i] = f
  BY <1>1 DEF GoodFile
<1>6. Good(r)
  BY <1>2, <1>3, <1>4, <1>5, OneFile
<1>. QED
  BY <1>6 DEF r

LEMMA GoodUnload ==
  ASSUME NEW s, Good(s), NEW f \in File
  PROVE  Good(unload_plugin(s, f))
<1>. DEFINE r == unload_plugin(s, f)
<1>1. s \in State /\ GoodFile(s, f)
  BY DEF Good
<1>2. /\ r \in State /\ r.list = s.list
      /\ r.mapped = IF Loaded(s, f) THEN s.mapped \ {f} ELSE s.mapped
      /\ r.cfg[f].id = NoId /\ ~r.cfg[f].enabled
      /\ \A g \in File \ {f} : r.cfg[g] = s.cfg[g]
      /\ \A i \in Id : r.threads[i] = IF i = s.cfg[f].id /\ s.cfg[f].enabled
                                      THEN NoFile ELSE s.threads[i]
  BY <1>1, Unload
<1>. HIDE DEF r
<1>3. NoFile \notin File
  BY ListAssumption
<1>4. f \notin r.mapped
  BY <1>1, <1>2 DEF GoodFile, Loaded
<1>5. GoodFile(r, f)
  BY <1>1, <1>2, <1>3, <1>4 DEF GoodFile
<1>6. \A i \in Id : i = s.cfg[f].id /\ s.cfg[f].enabled => s.threads[i] = f
  BY <1>1 DEF GoodFile
<1>7. Good(r)
  BY <1>2, <1>3, <1>5, <1>6, OneFile
<1>. QED
  BY <1>7 DEF r

\* A file that is not listed has no library and no thread.
LEMMA NotListed ==
  ASSUME NEW s, Good(s), NEW f \in File, \A i \in Id : s.list[i] # f
  PROVE  s.cfg[f].id = NoId /\ f \notin s.mapped /\ \A i \in Id : s.threads[i] # f
<1>1. GoodFile(s, f)
  BY DEF Good
<1>. QED
  BY <1>1, Nothing DEF GoodFile

\* A new library is listed, or closed again; it may be enabled before that.
LEMMA GoodNew ==
  ASSUME NEW s, Good(s), NEW f \in File, NEW i \in Id, \A j \in Id : s.list[j] # f,
         NEW e \in State, e.list = s.list, e.mapped = s.mapped \cup {f},
         e.cfg[f].id = i, \A g \in File \ {f} : e.cfg[g] = s.cfg[g],
         \/ ~e.cfg[f].enabled /\ e.threads = s.threads
         \/ /\ e.cfg[f].enabled
            /\ \A j \in Id : e.threads[j] = IF j = i /\ s.threads[j] = NoFile THEN f ELSE s.threads[j]
            /\ s.list[i] # NoFile => s.cfg[s.list[i]].enabled
  PROVE  Good(addNewPlugin(e, f))
<1>. DEFINE r == addNewPlugin(e, f)
<1>1. s \in State /\ NoFile \notin File /\ f # NoFile
  BY ListAssumption DEF Good
<1>2. s.cfg[f].id = NoId /\ f \notin s.mapped /\ \A j \in Id : s.threads[j] # f
  BY NotListed
<1>4. CASE s.list[i] = NoFile
  <2>a. /\ r \in State /\ r.threads = e.threads /\ r.mapped = e.mapped /\ r.cfg = e.cfg
        /\ \A j \in Id : r.list[j] = IF j = i THEN f ELSE e.list[j]
    BY <1>4, AddListed
  <2>. HIDE DEF r
  <2>1. s.threads[i] = NoFile
    BY <1>4, ThreadIsListed
  <2>2. /\ r.mapped = s.mapped \cup {f} /\ r.cfg[f].id = i
        /\ \A j \in Id : r.list[j] = IF j = i THEN f ELSE s.list[j]
        /\ \A g \in File \ {f} : r.cfg[g] = s.cfg[g]
        /\ r.cfg[f].enabled = e.cfg[f].enabled
    BY <2>a, <1>4
  <2>3. \/ r.cfg[f].enabled = FALSE /\ \A j \in Id : r.threads[j] = s.threads[j]
        \/ r.cfg[f].enabled = TRUE /\ \A j \in Id : r.threads[j] = IF j = i THEN f ELSE s.threads[j]
    BY <2>a, <2>1, <2>2
  <2>4. GoodFile(r, f)
    BY <1>2, <2>2, <2>3, Nothing DEF GoodFile
  <2>5. \A g \in File \ {f} : /\ g \in r.mapped <=> g \in s.mapped
                              /\ \A j \in Id : /\ r.list[j] = g <=> s.list[j] = g
                                               /\ r.threads[j] = g <=> s.threads[j] = g
    <3>1. ASSUME NEW g \in File \ {f} PROVE g \in r.mapped <=> g \in s.mapped
      BY <2>2
    <3>2. ASSUME NEW g \in File \ {f}, NEW j \in Id PROVE r.list[j] = g <=> s.list[j] = g
      BY <1>1, <1>4, <2>2
    <3>3. ASSUME NEW g \in File \ {f}, NEW j \in Id PROVE r.threads[j] = g <=> s.threads[j] = g
      BY <1>1, <2>1, <2>3
    <3>. QED
      BY <3>1, <3>2, <3>3
  <2>. QED
    BY <2>a, <2>2, <2>4, <2>5, OneFile DEF r
<1>5. CASE s.list[i] # NoFile
  <2>a. /\ r \in State /\ r.threads = e.threads /\ r.list = e.list /\ r.mapped = e.mapped \ {f}
        /\ r.cfg[f].id = NoId /\ ~r.cfg[f].enabled
        /\ \A g \in File \ {f} : r.cfg[g] = e.cfg[g]
    <3>1. e.list[e.cfg[f].id] # NoFile
      BY <1>5
    <3>2. /\ r \in State /\ r.threads = e.threads /\ r.list = e.list /\ r.mapped = e.mapped \ {f}
          /\ r.cfg = [e.cfg EXCEPT ![f] = Unloaded]
      BY <3>1, AddDropped, Zenon
    <3>. HIDE DEF r
    <3>3. e.cfg \in [File -> Config]
      BY DEF State
    <3>. QED
      BY <3>2, <3>3, Nothing, Replaced
  <2>. HIDE DEF r
  <2>1. \A j \in Id : r.threads[j] = s.threads[j]
    <3>1. CASE e.threads = s.threads
      BY <2>a, <3>1
    <3>2. CASE /\ \A j \in Id : e.threads[j] = IF j = i /\ s.threads[j] = NoFile THEN f ELSE s.threads[j]
               /\ s.cfg[s.list[i]].enabled
      <4>1. s.list[i] \in File
        BY <1>1, <1>5 DEF State
      <4>2. GoodFile(s, s.list[i]) /\ s.cfg[s.list[i]] \in Config
        BY <1>1, <4>1 DEF Good, State
      <4>3. s.cfg[s.list[i]].id = i
        BY <3>2, <4>2, Configs DEF GoodFile
      <4>4. s.threads[i] = s.list[i]
        BY <3>2, <4>2, <4>3 DEF GoodFile
      <4>. QED
        BY <2>a, <1>5, <3>2, <4>4
    <3>. QED
      BY <1>5, <3>1, <3>2
  <2>2. /\ r.list = s.list /\ r.mapped = s.mapped
        /\ r.cfg[f].id = NoId /\ ~r.cfg[f].enabled
        /\ \A g \in File \ {f} : r.cfg[g] = s.cfg[g]
    BY <1>2, <2>a, <1>5
  <2>3. GoodFile(r, f)
    BY <1>2, <2>1, <2>2, Nothing DEF GoodFile
  <2>. QED
    BY <2>a, <2>1, <2>2, <2>3, OneFile DEF r
<1>. QED
  BY <1>4, <1>5

\* A reloaded library comes under its new id, if nobody else has it.
LEMMA GoodReload ==
  ASSUME NEW s, Good(s), NEW i \in Id, NEW j \in Id, NEW f \in File, s.list[i] = f,
         s.list[j] \in {NoFile, f}
  PROVE  LET e == enable_plugin(load_plugin(unload_plugin(s, f), f, j), f)
         IN  Good(IF i = j THEN e ELSE changeKey(e, i, j))
<1>. DEFINE u == unload_plugin(s, f)
            l == load_plugin(u, f, j)
            e == enable_plugin(l, f)
            r == IF i = j THEN e ELSE changeKey(e, i, j)
<1>1. s \in State /\ GoodFile(s, f) /\ NoFile \notin File
  BY ListAssumption DEF Good
<1>2. /\ u \in State /\ u.list = s.list
      /\ u.mapped = IF Loaded(s, f) THEN s.mapped \ {f} ELSE s.mapped
      /\ \A g \in File \ {f} : u.cfg[g] = s.cfg[g]
      /\ \A k \in Id : u.threads[k] = IF k = s.cfg[f].id /\ s.cfg[f].enabled
                                      THEN NoFile ELSE s.threads[k]
  BY <1>1, Unload
<1>. HIDE DEF u
<1>3. /\ l \in State /\ l.list = u.list /\ l.mapped = u.mapped \cup {f}
      /\ l.threads = u.threads
      /\ l.cfg[f].id = j /\ ~l.cfg[f].enabled
      /\ \A g \in File \ {f} : l.cfg[g] = u.cfg[g]
  BY <1>2, Load
<1>. HIDE DEF l
<1>4. Loaded(l, f)
  BY <1>3, Nothing DEF Loaded
<1>5. /\ e \in State /\ e.list = l.list /\ e.mapped = l.mapped
      /\ e.cfg[f].id = l.cfg[f].id /\ e.cfg[f].enabled
      /\ \A g \in File \ {f} : e.cfg[g] = l.cfg[g]
      /\ \A k \in Id : e.threads[k] = IF k = l.cfg[f].id /\ l.threads[k] = NoFile
                                      THEN f ELSE l.threads[k]
  BY <1>3, <1>4, Enable
<1>. HIDE DEF e
<1>6. \A k \in Id : u.threads[k] # f /\ \A g \in File \ {f} : u.threads[k] = g <=> s.threads[k] = g
  BY <1>1, <1>2 DEF GoodFile
<1>7. u.threads[j] = NoFile
  <2>1. ASSUME s.threads[j] # NoFile PROVE u.threads[j] = NoFile
    <3>1. s.list[j] = s.threads[j] /\ s.cfg[s.threads[j]].id = j /\ s.cfg[s.threads[j]].enabled
      BY <2>1, ThreadIsListed
    <3>2. s.threads[j] = f
      BY <2>1, <3>1
    <3>. QED
      BY <1>2, <3>1, <3>2
  <2>. QED
    BY <1>2, <2>1
<1>8. /\ e \in State /\ e.list = s.list
      /\ e.cfg[f].id = j /\ e.cfg[f].enabled
      /\ \A g \in File \ {f} : e.cfg[g] = s.cfg[g] /\ (g \in e.mapped <=> g \in s.mapped)
      /\ f \in e.mapped
      /\ \A k \in Id : e.threads[k] = f <=> k = j
      /\ \A g \in File \ {f}, k \in Id : e.threads[k] = g <=> s.threads[k] = g
  <2>1. \A k \in Id : e.threads[k] = IF k = j THEN f ELSE u.threads[k]
    BY <1>3, <1>5, <1>7
  <2>2. \A g \in File \ {f} : g \in e.mapped <=> g \in s.mapped
    BY <1>2, <1>3, <1>5
  <2>3. \A k \in Id : e.threads[k] = f <=> k = j
    BY <1>6, <2>1
  <2>4. ASSUME NEW g \in File \ {f}, NEW k \in Id PROVE e.threads[k] = g <=> s.threads[k] = g
    BY <1>1, <1>6, <1>7, <2>1
  <2>. QED
    BY <1>2, <1>3, <1>5, <2>2, <2>3, <2>4
<1>9. /\ r \in State /\ r.threads = e.threads /\ r.cfg = e.cfg /\ r.mapped = e.mapped
      /\ \A k \in Id : r.list[k] = f <=> k = j
      /\ \A g \in File \ {f}, k \in Id : r.list[k] = g <=> s.list[k] = g
  <2>1. \A k \in Id : s.list[k] = f => k = i
    BY <1>1 DEF GoodFile
  <2>2. CASE i = j
    BY <1>8, <2>1, <2>2
  <2>3. CASE i # j
    <3>1. s.list[j] = NoFile
      BY <2>1, <2>3
    <3>2. r = changeKey(e, i, j)
      BY <2>3
    <3>3. /\ r \in State \/ e.list[i] = NoFile
          /\ r.threads = e.threads /\ r.cfg = e.cfg /\ r.mapped = e.mapped
          /\ \A k \in Id : r.list[k] = IF k = i THEN NoFile ELSE IF k = j THEN e.list[i] ELSE e.list[k]
      BY <1>8, <2>3, <3>1, <3>2, ChangeKey
    <3>. HIDE DEF r
    <3>4. \A k \in Id : r.list[k] = IF k = i THEN NoFile ELSE IF k = j THEN f ELSE s.list[k]
      BY <1>8, <3>3
    <3>5. r \in State
      BY <1>1, <1>8, <3>3
    <3>6. \A k \in Id : r.list[k] = f <=> k = j
      BY <1>1, <2>1, <2>3, <3>4
    <3>7. \A g \in File \ {f}, k \in Id : r.list[k] = g <=> s.list[k] = g
      BY <1>1, <3>1, <3>4
    <3>. QED
      BY <3>3, <3>5, <3>6, <3>7
  <2>. QED
    BY <2>2, <2>3
<1>. HIDE DEF r
<1>10. GoodFile(r, f)
  BY <1>8, <1>9, Nothing DEF GoodFile
<1>11. Good(r)
  BY <1>8, <1>9, <1>10, OneFile
<1>. QED
  BY <1>11 DEF r, e, l, u

\* All plugins of a set that can be enabled are.
LEMMA GoodEach ==
  ASSUME NEW s, Good(s), NEW fs \in SUBSET File,
         \A f \in fs : CanEnable(s, f) /\ \E i \in Id : s.list[i] = f
  PROVE  Good(EnableEach(s, fs))
<1>. DEFINE r == EnableEach(s, fs)
            v(f) == [s.cfg[f] EXCEPT !.enabled = TRUE]
            c == [f \in File |-> IF f \in fs THEN v(f) ELSE s.cfg[f]]
            t == [i \in Id |-> IF s.threads[i] = NoFile /\ s.list[i] \in fs
                               THEN s.list[i] ELSE s.threads[i]]
<1>1. s \in State /\ (\A f \in File : GoodFile(s, f)) /\ NoFile \notin File
  BY ListAssumption DEF Good
<1>2. \A f \in fs : v(f) \in Config /\ v(f).id = s.cfg[f].id /\ v(f).enabled = TRUE
  <2>1. ASSUME NEW f \in fs PROVE s.cfg[f] \in Config /\ s.cfg[f].id # NoId
    BY <1>1 DEF State, CanEnable, Loaded
  <2>. QED
    BY <2>1, Configs
<1>3. r = [s EXCEPT !.cfg = c, !.threads = t]
  BY DEF EnableEach
<1>. HIDE DEF v
<1>4. /\ c \in [File -> Config]
      /\ \A f \in File : /\ c[f].id = s.cfg[f].id
                         /\ c[f].enabled = IF f \in fs THEN TRUE ELSE s.cfg[f].enabled
  <2>1. s.cfg \in [File -> Config]
    BY <1>1 DEF State
  <2>2. c \in [File -> Config]
    BY <1>2, <2>1
  <2>3. \A f \in File : c[f] = IF f \in fs THEN v(f) ELSE s.cfg[f]
    OBVIOUS
  <2>. HIDE DEF c
  <2>. QED
    BY <1>2, <2>2, <2>3
<1>5. /\ t \in [Id -> File \cup {NoFile}]
      /\ \A i \in Id : t[i] = IF s.threads[i] = NoFile /\ s.list[i] \in fs
                              THEN s.list[i] ELSE s.threads[i]
  BY <1>1 DEF State
<1>. HIDE DEF c, t, r
<1>6. r \in State /\ r.list = s.list /\ r.mapped = s.mapped /\ r.cfg = c /\ r.threads = t
  BY <1>1, <1>3, <1>4, <1>5 DEF State
<1>7. ASSUME NEW f \in File PROVE GoodFile(r, f)
  <2>1. GoodFile(s, f)
    BY <1>1
  <2>2. \A i \in Id : r.threads[i] = f <=> r.cfg[f].id = i /\ r.cfg[f].enabled
    <3>1. CASE f \notin fs
      <4>1. \A i \in Id : r.threads[i] = f <=> s.threads[i] = f
        BY <1>1, <1>5, <1>6, <3>1
      <4>2. r.cfg[f].id = s.cfg[f].id /\ r.cfg[f].enabled = s.cfg[f].enabled
        BY <1>4, <1>6, <3>1
      <4>3. \A i \in Id : s.threads[i] = f <=> s.cfg[f].id = i /\ s.cfg[f].enabled
        BY <2>1 DEF GoodFile
      <4>. QED
        BY <4>1, <4>2, <4>3
    <3>2. CASE f \in fs
      <4>1. PICK i \in Id : s.list[i] = f
        BY <3>2
      <4>2. s.cfg[f].id = i /\ ~s.cfg[f].enabled
        BY <2>1, <3>2, <4>1 DEF GoodFile, CanEnable, Loaded
      <4>3. s.threads[i] = NoFile
        BY <4>1, <4>2, ThreadIsListed
      <4>4. \A j \in Id : s.threads[j] # f /\ (s.list[j] = f => j = i)
        BY <2>1, <4>1, <4>2 DEF GoodFile
      <4>5. \A j \in Id : t[j] = f <=> j = i
        BY <1>1, <1>5, <3>2, <4>1, <4>3, <4>4
      <4>. QED
        BY <1>4, <1>6, <3>2, <4>2, <4>5
    <3>. QED
      BY <3>1, <3>2
  <2>3. r.cfg[f].id = s.cfg[f].id
    BY <1>4, <1>6
  <2>. QED
    BY <1>6, <2>1, <2>2, <2>3 DEF GoodFile
<1>8. Good(r)
  BY <1>6, <1>7 DEF Good
<1>. QED
  BY <1>8 DEF r

\* Everything that is listed is unloaded.
LEMMA GoodShutdown ==
  ASSUME NEW s, Good(s), NEW r \in State, r.list = s.list, r.mapped = {},
         \A f \in File : r.cfg[f].id = NoId,
         \A i \in Id : r.threads[i] = NoFile
  PROVE  Good(r)
<1>1. \A f \in File : GoodFile(s, f)
  BY DEF Good
<1>2. NoFile \notin File /\ NoId \notin Id
  BY ListAssumption
<1>3. ASSUME NEW f \in File PROVE GoodFile(r, f)
  BY <1>1, <1>2 DEF GoodFile
<1>. QED
  BY <1>3 DEF Good

-----------------------------------------------------------------------------

\* What an operation's result makes of the variables.
LEMMA Becomes ==
  ASSUME NEW r, Good(r), Become(r)
  PROVE  /\ Good(S)'
         /\ id_plugin_list' \in [Id -> File \cup {NoFile}] /\ cfg' \in [File -> Config]
         /\ mapped' \subseteq File /\ thread_memory' \in [Id -> File \cup {NoFile}]
<1>1. r \in State
  BY DEF Good
<1>2. S' = r
  BY <1>1 DEF S, Become, State
<1>3. Good(S')
  BY <1>2
<1>. QED
  BY <1>1, <1>3 DEF Become, State

\* What an operation of a running loader does to the invariant.
LEMMA Running ==
  ASSUME Inv, stage \in {"starting", "running"}, stage' \in {"starting", "running", "exited"},
         unregistered' = unregistered, NEW r, Good(r), Become(r),
         stage' = "exited" => r.mapped = {} /\ \A i \in Id : r.threads[i] = NoFile
  PROVE  Inv'
<1>1. /\ Good(S)'
      /\ id_plugin_list' \in [Id -> File \cup {NoFile}] /\ cfg' \in [File -> Config]
      /\ mapped' \subseteq File /\ thread_memory' \in [Id -> File \cup {NoFile}]
  BY Becomes
<1>2. unregistered = {}
  BY DEF Inv, Unseen
<1>3. TypeOK'
  BY <1>1, <1>2 DEF TypeOK
<1>4. Unseen'
  BY <1>2 DEF Unseen
<1>5. NothingSurvives'
  BY DEF NothingSurvives, Become
<1>. QED
  BY <1>1, <1>3, <1>4, <1>5 DEF Inv

LEMMA InitInv == Init => Inv
<1>. SUFFICES ASSUME Init PROVE Inv
  OBVIOUS
<1>1. TypeOK
  BY ListAssumption DEF Init, TypeOK, Config
<1>2. S \in State /\ S.list = id_plugin_list /\ S.cfg = cfg
      /\ S.mapped = mapped /\ S.threads = thread_memory
  BY <1>1, AsRecord
<1>3. ASSUME NEW f \in File PROVE GoodFile(S, f)
  <2>1. /\ \A i \in Id : S.list[i] # f /\ S.threads[i] # f
        /\ S.cfg[f].id = NoId /\ f \notin S.mapped
    BY <1>2, ListAssumption DEF Init, Unloaded
  <2>. HIDE DEF S
  <2>. QED
    BY <2>1, Nothing DEF GoodFile
<1>4. Unseen /\ NothingSurvives
  BY ListAssumption DEF Init, Unseen, NothingSurvives, Listed
<1>. QED
  BY <1>1, <1>2, <1>3, <1>4 DEF Inv, Good

-----------------------------------------------------------------------------

\* What is known before a step.
LEMMA Before ==
  ASSUME Inv
  PROVE  /\ TypeOK /\ Good(S) /\ S \in State /\ NoFile \notin File
         /\ S.list = id_plugin_list /\ S.cfg = cfg /\ S.mapped = mapped /\ S.threads = thread_memory
  BY AsRecord, ListAssumption DEF Inv

LEMMA EntryStep ==
  ASSUME Inv, NEW i \in Id,
         enableById(i) \/ disableById(i) \/ unloadById(i) \/ ReloadFails(i)
  PROVE  Inv'
<1>. DEFINE f == id_plugin_list[i]
<1>1. /\ f \in File /\ S.list[i] = f /\ Good(S)
      /\ stage = "running" /\ stage' = stage /\ unregistered' = unregistered
  <2>1. /\ f # NoFile
        /\ stage = "running" /\ stage' = stage /\ unregistered' = unregistered
    BY DEF enableById, disableById, unloadById, ReloadFails
  <2>2. f \in File
    BY <2>1, Before DEF TypeOK
  <2>3. S.list[i] = f
    BY Before
  <2>. QED
    BY <2>1, <2>2, <2>3, Before
<1>2. CASE enableById(i)
  <2>1. CanEnable(S, f) /\ Become(enable_plugin(S, f))
    BY <1>2 DEF enableById
  <2>. HIDE DEF f
  <2>2. Good(enable_plugin(S, f))
    BY <1>1, <2>1, GoodEnable
  <2>. QED
    BY <1>1, <2>1, <2>2, Running
<1>3. CASE disableById(i)
  <2>1. Become(disable_plugin(S, f))
    BY <1>3 DEF disableById
  <2>. HIDE DEF f
  <2>2. Good(disable_plugin(S, f))
    BY <1>1, GoodDisable
  <2>. QED
    BY <1>1, <2>1, <2>2, Running
<1>4. CASE unloadById(i) \/ ReloadFails(i)
  <2>1. Become(unload_plugin(S, f))
    BY <1>4 DEF unloadById, ReloadFails
  <2>. HIDE DEF f
  <2>2. Good(unload_plugin(S, f))
    BY <1>1, GoodUnload
  <2>. QED
    BY <1>1, <2>1, <2>2, Running
<1>. QED
  BY <1>2, <1>3, <1>4

LEMMA ReloadStep ==
  ASSUME Calm, Inv, NEW i \in Id, NEW j \in Id, reloadById(i, j)
  PROVE  Inv'
<1>. DEFINE f == id_plugin_list[i]
            e == enable_plugin(load_plugin(unload_plugin(S, f), f, j), f)
            r == IF i = j THEN e ELSE changeKey(e, i, j)
<1>1. /\ f # NoFile /\ Free(j, f) /\ Become(r)
      /\ stage = "running" /\ stage' = stage /\ unregistered' = unregistered
  BY DEF reloadById, Calm
<1>2. f \in File /\ S.list[i] = f /\ S.list[j] \in {NoFile, f} /\ Good(S)
  <2>1. f \in File
    BY <1>1, Before DEF TypeOK
  <2>. QED
    BY <1>1, <2>1, Before DEF Free
<1>. HIDE DEF f
<1>3. Good(r)
  BY <1>2, GoodReload
<1>. HIDE DEF r
<1>. QED
  BY <1>1, <1>3, Running

LEMMA EnableAllStep ==
  ASSUME Inv, enableAll
  PROVE  Inv'
<1>1. PICK fs \in SUBSET File :
        /\ \A f \in fs : CanEnable(S, f) /\ Listed(f)
        /\ Become(EnableEach(S, fs))
  BY DEF enableAll
<1>2. stage \in {"starting", "running"} /\ stage' = "running" /\ unregistered' = unregistered
  BY DEF enableAll
<1>3. \A f \in fs : CanEnable(S, f) /\ \E i \in Id : S.list[i] = f
  BY <1>1, Before DEF Listed
<1>4. Good(EnableEach(S, fs))
  BY <1>3, Before, GoodEach
<1>. QED
  BY <1>1, <1>2, <1>4, Running

\* A library that is loaded and listed, without being enabled or enabled.
LEMMA LoadedThenListed ==
  ASSUME NEW s, Good(s), NEW f \in File, NEW i \in Id, \A j \in Id : s.list[j] # f
  PROVE  /\ Good(addNewPlugin(load_plugin(s, f, i), f))
         /\ \A j \in Id : addNewPlugin(load_plugin(s, f, i), f).list[j] \in {s.list[j], f}
<1>. DEFINE e == load_plugin(s, f, i)
<1>1. s \in State
  BY DEF Good
<1>2. /\ e \in State /\ e.list = s.list /\ e.mapped = s.mapped \cup {f}
      /\ e.threads = s.threads
      /\ e.cfg[f].id = i /\ ~e.cfg[f].enabled
      /\ \A g \in File \ {f} : e.cfg[g] = s.cfg[g]
  BY <1>1, Load
<1>. HIDE DEF e
<1>3. Good(addNewPlugin(e, f))
  BY <1>2, GoodNew
<1>4. \A j \in Id : addNewPlugin(e, f).list[j] \in {s.list[j], f}
  <2>1. CASE e.list[i] = NoFile
    <3>1. \A j \in Id : addNewPlugin(e, f).list[j] = IF j = i THEN f ELSE e.list[j]
      BY <1>2, <2>1, AddListed
    <3>. QED
      BY <1>2, <3>1
  <2>2. CASE e.list[i] # NoFile
    <3>1. e.list[e.cfg[f].id] # NoFile
      BY <1>2, <2>2
    <3>2. addNewPlugin(e, f).list = e.list
      BY <1>2, <3>1, AddDropped, Zenon
    <3>. QED
      BY <1>2, <3>2
  <2>. QED
    BY <2>1, <2>2
<1>. QED
  BY <1>3, <1>4 DEF e

LEMMA EnabledThenListed ==
  ASSUME NEW s, Good(s), NEW f \in File, NEW i \in Id, \A j \in Id : s.list[j] # f,
         s.list[i] # NoFile => s.cfg[s.list[i]].enabled
  PROVE  Good(addNewPlugin(enable_plugin(load_plugin(s, f, i), f), f))
<1>. DEFINE l == load_plugin(s, f, i)
            e == enable_plugin(l, f)
<1>1. s \in State
  BY DEF Good
<1>2. /\ l \in State /\ l.list = s.list /\ l.mapped = s.mapped \cup {f}
      /\ l.threads = s.threads
      /\ l.cfg[f].id = i /\ ~l.cfg[f].enabled
      /\ \A g \in File \ {f} : l.cfg[g] = s.cfg[g]
  BY <1>1, Load
<1>. HIDE DEF l
<1>3. Loaded(l, f)
  BY <1>2, Nothing DEF Loaded
<1>4. /\ e \in State /\ e.list = l.list /\ e.mapped = l.mapped
      /\ e.cfg[f].id = l.cfg[f].id /\ e.cfg[f].enabled
      /\ \A g \in File \ {f} : e.cfg[g] = l.cfg[g]
      /\ \A j \in Id : e.threads[j] = IF j = l.cfg[f].id /\ l.threads[j] = NoFile
                                      THEN f ELSE l.threads[j]
  BY <1>2, <1>3, Enable
<1>. HIDE DEF e
<1>5. /\ e \in State /\ e.list = s.list /\ e.mapped = s.mapped \cup {f}
      /\ e.cfg[f].id = i /\ e.cfg[f].enabled
      /\ \A g \in File \ {f} : e.cfg[g] = s.cfg[g]
      /\ \A j \in Id : e.threads[j] = IF j = i /\ s.threads[j] = NoFile THEN f ELSE s.threads[j]
  BY <1>2, <1>4
<1>6. Good(addNewPlugin(e, f))
  BY <1>5, GoodNew
<1>. QED
  BY <1>6 DEF e, l

LEMMA NewLibrary ==
  ASSUME Inv, NEW f \in File, NEW i \in Id, ~Listed(f)
  PROVE  /\ Good(addNewPlugin(load_plugin(S, f, i), f))
         /\ \A j \in Id : addNewPlugin(load_plugin(S, f, i), f).list[j] \in {S.list[j], f}
<1>1. Good(S) /\ \A j \in Id : S.list[j] # f
  BY Before DEF Listed
<1>. QED
  BY <1>1, LoadedThenListed

LEMMA RegisterStep ==
  ASSUME Inv, NEW f \in File, RegisterPlugin(f)
  PROVE  Inv'
<1>1. /\ stage = "registering" /\ stage' = stage
      /\ f \in unregistered /\ unregistered' = unregistered \ {f} /\ ~Listed(f)
  BY DEF RegisterPlugin, Inv, Unseen
<1>2. PICK r : /\ Good(r) /\ Become(r)
               /\ \A j \in Id : r.list[j] \in {S.list[j], f}
  <2>1. CASE Become(S)
    BY <2>1, Before
  <2>2. CASE \E i \in Id : Become(addNewPlugin(load_plugin(S, f, i), f))
    BY <1>1, <2>2, NewLibrary
  <2>. QED
    BY <2>1, <2>2 DEF RegisterPlugin
<1>3. /\ Good(S)'
      /\ id_plugin_list' \in [Id -> File \cup {NoFile}] /\ cfg' \in [File -> Config]
      /\ mapped' \subseteq File /\ thread_memory' \in [Id -> File \cup {NoFile}]
  BY <1>2, Becomes
<1>4. TypeOK'
  BY <1>1, <1>3, Before DEF TypeOK
<1>5. Unseen'
  <2>1. \A j \in Id : id_plugin_list'[j] \in {id_plugin_list[j], f}
    BY <1>2, Before DEF Become
  <2>2. \A g \in unregistered \ {f} : \A j \in Id : id_plugin_list[j] # g
    BY DEF Inv, Unseen, Listed
  <2>3. \A g \in unregistered \ {f} : \A j \in Id : id_plugin_list'[j] # g
    BY <2>1, <2>2
  <2>. QED
    BY <1>1, <2>3 DEF Unseen, Listed
<1>6. NothingSurvives'
  BY <1>1 DEF NothingSurvives
<1>. QED
  BY <1>3, <1>4, <1>5, <1>6 DEF Inv

LEMMA LoadStep ==
  ASSUME Calm, Inv, NEW f \in File, NEW i \in Id, NEW activateNow \in BOOLEAN,
         loadNewPluginByPath(f, i, activateNow)
  PROVE  Inv'
<1>. DEFINE l == load_plugin(S, f, i)
            e == enable_plugin(l, f)
<1>1. /\ stage = "running" /\ stage' = stage /\ unregistered' = unregistered /\ ~Listed(f)
      /\ Become(addNewPlugin(IF activateNow THEN e ELSE l, f))
      /\ activateNow /\ id_plugin_list[i] # NoFile => cfg[id_plugin_list[i]].enabled
  BY DEF loadNewPluginByPath, Calm
<1>2. CASE activateNow = FALSE
  <2>1. Become(addNewPlugin(l, f))
    BY <1>1, <1>2
  <2>2. Good(addNewPlugin(l, f))
    BY <1>1, NewLibrary
  <2>. HIDE DEF l
  <2>. QED
    BY <1>1, <2>1, <2>2, Running
<1>3. CASE activateNow = TRUE
  <2>1. Become(addNewPlugin(e, f))
    BY <1>1, <1>3
  <2>2. Good(S) /\ \A j \in Id : S.list[j] # f
    BY <1>1, Before DEF Listed
  <2>3. S.list[i] # NoFile => S.cfg[S.list[i]].enabled
    BY <1>1, <1>3, Before
  <2>4. Good(addNewPlugin(e, f))
    BY <2>2, <2>3, EnabledThenListed
  <2>. HIDE DEF e
  <2>. QED
    BY <1>1, <2>1, <2>4, Running
<1>. QED
  BY <1>2, <1>3

LEMMA ShutdownStep ==
  ASSUME Inv, shutdownLoader
  PROVE  Inv'
<1>. DEFINE gone == {f \in File : Listed(f)}
            c == [f \in File |-> IF f \in gone THEN Unloaded ELSE cfg[f]]
            t == [i \in Id |-> IF \E f \in gone : cfg[f].enabled /\ cfg[f].id = i
                               THEN NoFile ELSE thread_memory[i]]
            r == [list |-> id_plugin_list, cfg |-> c, mapped |-> {}, threads |-> t]
<1>1. /\ stage = "running" /\ stage' = "exited" /\ unregistered' = unregistered
      /\ id_plugin_list' = id_plugin_list /\ cfg' = c /\ mapped' = mapped \ gone
      /\ thread_memory' = t
  BY DEF shutdownLoader
<1>2. /\ c \in [File -> Config] /\ \A f \in File : c[f].id = NoId
  <2>1. c \in [File -> Config]
    BY Before, Nothing DEF TypeOK
  <2>2. ASSUME NEW f \in File, f \notin gone PROVE cfg[f].id = NoId
    <3>1. \A i \in Id : S.list[i] # f
      BY <2>2, Before DEF Listed
    <3>2. S.cfg[f].id = NoId
      BY <3>1, Before, NotListed
    <3>. QED
      BY <3>2, Before
  <2>3. \A f \in File : c[f] = IF f \in gone THEN Unloaded ELSE cfg[f]
    OBVIOUS
  <2>. HIDE DEF c, gone
  <2>. QED
    BY <2>1, <2>2, <2>3, Nothing
<1>3. mapped \ gone = {}
  <2>1. ASSUME NEW f \in mapped PROVE f \in gone
    <3>1. f \in File /\ GoodFile(S, f) /\ f \in S.mapped
      BY Before DEF TypeOK, Good
    <3>2. \E i \in Id : S.list[i] = f
      BY <3>1 DEF GoodFile
    <3>. QED
      BY <3>1, <3>2, Before DEF Listed
  <2>. QED
    BY <2>1
<1>4. t \in [Id -> File \cup {NoFile}] /\ \A i \in Id : t[i] = NoFile
  <2>1. ASSUME NEW i \in Id, thread_memory[i] # NoFile
        PROVE  \E f \in gone : cfg[f].enabled /\ cfg[f].id = i
    <3>1. S.threads[i] # NoFile
      BY <2>1, Before
    <3>2. /\ S.threads[i] \in File /\ S.list[i] = S.threads[i]
          /\ S.cfg[S.threads[i]].id = i /\ S.cfg[S.threads[i]].enabled
      BY <3>1, Before, ThreadIsListed
    <3>3. S.threads[i] \in gone
      BY <3>2, Before DEF Listed
    <3>. QED
      BY <3>2, <3>3, Before
  <2>. HIDE DEF gone
  <2>. QED
    BY <2>1, Before DEF TypeOK
<1>. HIDE DEF c, t, gone
<1>5. /\ r \in State /\ r.list = S.list /\ r.mapped = {} /\ r.cfg = c /\ r.threads = t
  BY <1>2, <1>4, Before DEF State, TypeOK
<1>6. Become(r)
  BY <1>1, <1>3 DEF Become
<1>. HIDE DEF r
<1>7. Good(r)
  BY <1>2, <1>4, <1>5, Before, GoodShutdown
<1>. QED
  BY <1>1, <1>4, <1>5, <1>6, <1>7, Running

LEMMA Step == ASSUME Calm, Inv, [Next]_vars PROVE Inv'
<1>1. ASSUME NEW f \in File, RegisterPlugin(f) PROVE Inv'
  BY <1>1, RegisterStep
<1>2. CASE Registration
  <2>1. /\ stage = "registering" /\ stage' = "starting"
        /\ unregistered = {} /\ unregistered' = unregistered /\ Become(S)
    BY <1>2 DEF Registration
  <2>2. /\ Good(S)'
        /\ id_plugin_list' \in [Id -> File \cup {NoFile}] /\ cfg' \in [File -> Config]
        /\ mapped' \subseteq File /\ thread_memory' \in [Id -> File \cup {NoFile}]
    BY <2>1, Before, Becomes
  <2>. QED
    BY <2>1, <2>2 DEF Inv, TypeOK, Unseen, NothingSurvives
<1>3. CASE enableAll
  BY <1>3, EnableAllStep
<1>4. ASSUME NEW i \in Id, enableById(i) \/ disableById(i) \/ unloadById(i) \/ ReloadFails(i)
      PROVE  Inv'
  BY <1>4, EntryStep
<1>5. ASSUME NEW i \in Id, NEW j \in Id, reloadById(i, j) PROVE Inv'
  BY <1>5, ReloadStep
<1>6. ASSUME NEW f \in File, NEW i \in Id, NEW activateNow \in BOOLEAN,
             loadNewPluginByPath(f, i, activateNow)
      PROVE  Inv'
  BY <1>6, LoadStep
<1>7. CASE shutdownLoader
  BY <1>7, ShutdownStep
<1>8. CASE UNCHANGED vars
  BY <1>8 DEF vars, Inv, TypeOK, Good, GoodFile, S, State, Unseen, Listed, NothingSurvives
<1>. QED
  BY <1>1, <1>2, <1>3, <1>4, <1>5, <1>6, <1>7, <1>8 DEF Next, Terminated

\* Without an id in use the list, the libraries and the threads agree after
\* every operation.
THEOREM ListInvariance == ASSUME Calm PROVE Spec => []Inv
<1>1. Inv /\ [Next]_vars => Inv'
  BY Step
<1>. QED
  BY InitInv, <1>1, PTL DEF Spec

\* The parts of the invariant are the properties of the runs.
LEMMA Means == ASSUME Inv PROVE KeysAreIds /\ ThreadsAreOwn /\ MappedAreListed /\ NothingSurvives
<1>1. \A f \in File : GoodFile(S, f)
  BY Before DEF Good
<1>2. ASSUME NEW f \in File
      PROVE  /\ \A i \in Id : id_plugin_list[i] = f => cfg[f].id \in {i, NoId}
             /\ \A i, j \in Id : id_plugin_list[i] = f /\ id_plugin_list[j] = f => i = j
             /\ \A i \in Id : thread_memory[i] = f <=> cfg[f].id = i /\ cfg[f].enabled
             /\ f \in mapped <=> cfg[f].id # NoId
             /\ f \in mapped => \E i \in Id : id_plugin_list[i] = f
  BY <1>1, Before DEF GoodFile
<1>3. KeysAreIds
  BY <1>2, Before DEF KeysAreIds, TypeOK
<1>4. ThreadsAreOwn
  BY <1>2 DEF ThreadsAreOwn
<1>5. MappedAreListed
  BY <1>2 DEF MappedAreListed, Listed
<1>. QED
  BY <1>3, <1>4, <1>5 DEF Inv

\* The key of a loaded plugin is the id its library reports, and no plugin
\* is listed twice (addNewPlugin, changeKey).
THEOREM KeysStayIds == ASSUME Calm PROVE Spec => []KeysAreIds
BY ListInvariance, Means, PTL

\* A plugin is enabled exactly as long as the thread of its id runs its code
\* (addThread, callThreadEnd).
THEOREM ThreadsStayOwn == ASSUME Calm PROVE Spec => []ThreadsAreOwn
BY ListInvariance, Means, PTL

\* Every open library is the one of an entry of the list, so shutdownLoader
\* can close it.
THEOREM MappedStayListed == ASSUME Calm PROVE Spec => []MappedAreListed
BY ListInvariance, Means, PTL

\* shutdownLoader leaves no library open and no thread.
THEOREM NothingIsLeft == ASSUME Calm PROVE Spec => []NothingSurvives
BY ListInvariance, Means, PTL
=============================================================================
