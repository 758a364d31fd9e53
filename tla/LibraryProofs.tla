--------------------------- MODULE LibraryProofs ---------------------------
(***************************************************************************)
(* What the library promises its clients: its settings and its memory, for  *)
(* one client of every discipline; its answers, for any number of clients   *)
(* in ag_search_ts().                                                       *)
(***************************************************************************)
EXTENDS Lifecycle, SearchTs, TLAPS

Word == {"null", "live", "dangling"}

\* From s to t the memory alone has changed.
SameButMemory(s, t) ==
  /\ t \in Lib
  /\ t.has_ag_init = s.has_ag_init /\ t.config = s.config /\ t.opts = s.opts
  /\ t.searched = s.searched /\ t.fresh = s.fresh

\* What became of each object and of the record of what went wrong.
FreeHeap(s, o) ==
  [s.heap EXCEPT ![o] = IF @ = "null" THEN "null" ELSE "dangling"]

\* A fault changes nothing else.
LEMMA HitKeeps ==
  ASSUME NEW s \in Lib,
         NEW f \in {"double_free", "use_after_free", "exit", "hang",
                    "uninitialized"}
  PROVE  /\ SameButMemory(s, Hit(s, f))
         /\ Hit(s, f).heap = s.heap
         /\ Hit(s, f).rc = s.rc
         /\ Hit(s, f).fault = IF s.fault = "none" THEN f ELSE s.fault
  BY DEF Hit, Lib, SameButMemory

\* free() changes the object and the fault alone.
LEMMA FreeKeeps ==
  ASSUME NEW s \in Lib, NEW o \in Object
  PROVE  /\ SameButMemory(s, Free(s, o))
         /\ Free(s, o).heap = FreeHeap(s, o)
         /\ Free(s, o).rc = s.rc
         /\ Free(s, o).fault = IF s.heap[o] = "dangling" /\ s.fault = "none"
                               THEN "double_free" ELSE s.fault
  BY HitKeeps DEF Free, Lib, SameButMemory, FreeHeap

\* To store a pointer changes no flag and no setting.
LEMMA PointKeeps ==
  ASSUME NEW s \in Lib, NEW o \in Object, NEW to \in Word
  PROVE  /\ SameButMemory(s, Point(s, o, to))
         /\ Point(s, o, to).heap = [s.heap EXCEPT ![o] = to]
         /\ Point(s, o, to).rc = s.rc
         /\ Point(s, o, to).fault = s.fault
  BY DEF Point, Lib, SameButMemory, Word

\* To return changes the result only.
LEMMA ReturnKeeps ==
  ASSUME NEW s \in Lib, NEW rc \in {0, -1}
  PROVE  /\ SameButMemory(s, Return(s, rc))
         /\ Return(s, rc).heap = s.heap
         /\ Return(s, rc).rc = rc
         /\ Return(s, rc).fault = s.fault
  BY DEF Return, Lib, SameButMemory

\* ag_stop_workers() leaves no worker, unless there is nothing it may use.
LEMMA StopKeeps ==
  ASSUME NEW s \in Lib
  PROVE  LET t == ag_stop_workers(s) IN
         /\ SameButMemory(s, t)
         /\ \A o \in Object \ {"workers", "root_ignores"} : t.heap[o] = s.heap[o]
         /\ t.heap["workers"] =
              IF s.heap["workers"] = "live" THEN "null" ELSE s.heap["workers"]
         /\ s.fault # "none" => t.fault = s.fault
         /\ s.heap["workers"] = "dangling" => t.fault # "none"
         /\ s.heap["workers"] = "null" => t.fault = s.fault
         /\ s.heap["workers"] = "live" /\ s.heap["root_ignores"] = "live" =>
              t.fault = s.fault
<1> DEFINE t1 == Free(s, "root_ignores")
           t2 == Point(t1, "workers", "null")
<1>1. "root_ignores" \in Object /\ "workers" \in Object  BY DEF Object
<1>2. /\ SameButMemory(s, t1) /\ t1.heap = FreeHeap(s, "root_ignores")
      /\ t1.fault = IF s.heap["root_ignores"] = "dangling" /\ s.fault = "none"
                    THEN "double_free" ELSE s.fault
  BY <1>1, FreeKeeps
<1>3. t1 \in Lib  BY <1>2 DEF SameButMemory
<1> HIDE DEF t1
<1>4. /\ SameButMemory(t1, t2) /\ t2.fault = t1.fault
      /\ t2.heap = [t1.heap EXCEPT !["workers"] = "null"]
  BY <1>1, <1>3, PointKeeps DEF Word
<1>5. t2 \in Lib  BY <1>4 DEF SameButMemory
<1> HIDE DEF t2
<1>6. CASE s.heap["workers"] = "null"
  <2>1. ag_stop_workers(s) = Return(s, -1)  BY <1>6 DEF ag_stop_workers
  <2> QED  BY <1>6, <2>1, ReturnKeeps
<1>7. CASE s.heap["workers"] = "dangling"
  <2>1. ag_stop_workers(s) = Hit(s, "use_after_free")
    BY <1>7 DEF ag_stop_workers
  <2> QED  BY <1>7, <2>1, HitKeeps
<1>8. CASE s.heap["workers"] = "live"
  <2>1. ag_stop_workers(s) = Return(t2, 0)
    BY <1>8 DEF ag_stop_workers, t1, t2
  <2>2. /\ SameButMemory(t2, Return(t2, 0))
        /\ Return(t2, 0).heap = t2.heap /\ Return(t2, 0).fault = t2.fault
    BY <1>5, ReturnKeeps
  <2>3. SameButMemory(s, Return(t2, 0))
    BY <1>2, <1>4, <2>2 DEF SameButMemory
  <2> QED  BY <1>1, <1>2, <1>3, <1>4, <1>5, <1>8, <2>1, <2>2, <2>3
             DEF Lib, FreeHeap
<1> QED  BY <1>1, <1>6, <1>7, <1>8 DEF Lib

\* ag_start_workers() makes workers where there are none.
LEMMA StartKeeps ==
  ASSUME NEW s \in Lib, NEW fails \in BOOLEAN
  PROVE  LET t == ag_start_workers(s, fails) IN
         /\ SameButMemory(s, t)
         /\ \A o \in Object \ {"workers"} : t.heap[o] = s.heap[o]
         /\ t.fault = s.fault
         /\ s.heap["workers"] = "null" /\ ~fails =>
              t.heap["workers"] = "live" /\ t.rc = 0
         /\ t.rc = 0 => t.heap["workers"] = "live"
         /\ s.heap["workers"] # "null" => t.heap["workers"] = s.heap["workers"]
<1>1. \A to \in Word :
        LET t == Point(s, "workers", to) IN
        /\ SameButMemory(s, t) /\ t.fault = s.fault /\ t \in Lib
        /\ t.heap = [s.heap EXCEPT !["workers"] = to]
  BY PointKeeps DEF Object, SameButMemory
<1>2. \A r \in Lib, rc \in {0, -1} :
        LET t == Return(r, rc) IN
        /\ SameButMemory(r, t) /\ t.fault = r.fault /\ t.heap = r.heap
        /\ t.rc = rc
  BY ReturnKeeps
<1>3. CASE s.heap["workers"] # "null"
  BY <1>2, <1>3 DEF ag_start_workers
<1>4. CASE s.heap["workers"] = "null" /\ fails
  <2>1. ag_start_workers(s, fails) = Return(Point(s, "workers", "dangling"), -1)
    BY <1>4 DEF ag_start_workers
  <2> DEFINE r == Point(s, "workers", "dangling")
  <2>2. /\ SameButMemory(s, r) /\ r.fault = s.fault /\ r \in Lib
        /\ r.heap = [s.heap EXCEPT !["workers"] = "dangling"]
    BY <1>1 DEF Word
  <2> HIDE DEF r
  <2>3. /\ SameButMemory(r, Return(r, -1)) /\ Return(r, -1).fault = r.fault
        /\ Return(r, -1).heap = r.heap /\ Return(r, -1).rc = -1
    BY <1>2, <2>2
  <2>4. s.heap \in [Object -> Word] /\ "workers" \in Object
    BY DEF Lib, Word, Object
  <2>5. SameButMemory(s, Return(r, -1))  BY <2>2, <2>3 DEF SameButMemory
  <2>6. ag_start_workers(s, fails) = Return(r, -1)  BY <2>1 DEF r
  <2>7. Return(r, -1).rc # 0  BY <2>3
  <2>8. \A o \in Object \ {"workers"} : Return(r, -1).heap[o] = s.heap[o]
    BY <2>2, <2>3, <2>4
  <2>9. Return(r, -1).fault = s.fault  BY <2>2, <2>3
  <2> QED  BY <1>4, <2>5, <2>6, <2>7, <2>8, <2>9
<1>5. CASE s.heap["workers"] = "null" /\ ~fails
  <2>1. ag_start_workers(s, fails) = Return(Point(s, "workers", "live"), 0)
    BY <1>5 DEF ag_start_workers
  <2> DEFINE r == Point(s, "workers", "live")
  <2>2. /\ SameButMemory(s, r) /\ r.fault = s.fault /\ r \in Lib
        /\ r.heap = [s.heap EXCEPT !["workers"] = "live"]
    BY <1>1 DEF Word
  <2> HIDE DEF r
  <2>3. /\ SameButMemory(r, Return(r, 0)) /\ Return(r, 0).fault = r.fault
        /\ Return(r, 0).heap = r.heap /\ Return(r, 0).rc = 0
    BY <1>2, <2>2
  <2>4. s.heap \in [Object -> Word] /\ "workers" \in Object
    BY DEF Lib, Word, Object
  <2>5. SameButMemory(s, Return(r, 0))  BY <2>2, <2>3 DEF SameButMemory
  <2>6. ag_start_workers(s, fails) = Return(r, 0)  BY <2>1 DEF r
  <2> QED  BY <1>5, <2>2, <2>3, <2>4, <2>5, <2>6
<1> QED  BY <1>3, <1>4, <1>5

\* ag_finish() leaves an uninitialized library, and one in order if it was.
LEMMA FinishKeeps ==
  ASSUME NEW s \in Lib
  PROVE  LET t == ag_finish(s) IN
         /\ t \in Lib /\ ~t.has_ag_init
         /\ t.config = s.config /\ t.opts = s.opts
         /\ s.has_ag_init /\ InOrder(s) => InOrder(t) /\ t.fault = s.fault
<1> DEFINE t1 == Free(s, "colors")
           t2 == Free(t1, "re")
           t3 == ag_stop_workers(t2)
           t4 == [t3 EXCEPT !.has_ag_init = FALSE]
<1>1. \A r \in Lib, o \in Object :
        /\ SameButMemory(r, Free(r, o)) /\ Free(r, o).heap = FreeHeap(r, o)
        /\ Free(r, o).fault =
             IF r.heap[o] = "dangling" /\ r.fault = "none"
             THEN "double_free" ELSE r.fault
  BY FreeKeeps
<1>2. {"colors", "re", "workers", "root_ignores"} \subseteq Object  BY DEF Object
<1>3. /\ SameButMemory(s, t1) /\ t1.heap = FreeHeap(s, "colors")
      /\ s.heap["colors"] = "live" => t1.fault = s.fault
  BY <1>1, <1>2
<1>4. t1 \in Lib  BY <1>3 DEF SameButMemory
<1> HIDE DEF t1
<1>5. /\ SameButMemory(t1, t2) /\ t2.heap = FreeHeap(t1, "re")
      /\ t1.heap["re"] = "null" => t2.fault = t1.fault
  BY <1>1, <1>2, <1>4
<1>6. t2 \in Lib  BY <1>5 DEF SameButMemory
<1> HIDE DEF t2
<1>7. /\ SameButMemory(t2, t3)
      /\ \A o \in Object \ {"workers", "root_ignores"} : t3.heap[o] = t2.heap[o]
      /\ t3.heap["workers"] =
           IF t2.heap["workers"] = "live" THEN "null" ELSE t2.heap["workers"]
      /\ t2.heap["workers"] = "live" /\ t2.heap["root_ignores"] = "live" =>
           t3.fault = t2.fault
  BY <1>6, StopKeeps
<1>8. t3 \in Lib  BY <1>7 DEF SameButMemory
<1> HIDE DEF t3
<1>9. /\ t4 \in Lib /\ ~t4.has_ag_init /\ t4.config = t3.config
      /\ t4.opts = t3.opts /\ t4.heap = t3.heap /\ t4.fault = t3.fault
  BY <1>8 DEF Lib
<1> HIDE DEF t4
<1> DEFINE t == Return(t4, 0)
<1>10. /\ SameButMemory(t4, t) /\ t.heap = t4.heap /\ t.fault = t4.fault
  BY <1>9, ReturnKeeps
<1>11. t = ag_finish(s)
  BY DEF t, t4, t3, t2, t1, ag_finish, cleanup_options
<1> HIDE DEF t
<1>12. /\ t \in Lib /\ ~t.has_ag_init
       /\ t.config = s.config /\ t.opts = s.opts
  BY <1>3, <1>5, <1>7, <1>9, <1>10 DEF SameButMemory
<1>13. ASSUME s.has_ag_init, InOrder(s)
       PROVE  InOrder(t) /\ t.fault = s.fault
  <2>1. /\ s.heap["re"] = "null" /\ s.heap["workers"] = "live"
        /\ s.heap["colors"] = "live" /\ s.heap["root_ignores"] = "live"
        /\ s.config.behavior = "start"
    BY <1>13 DEF InOrder
  <2>2. /\ t1.heap["re"] = "null" /\ t1.heap["workers"] = "live"
        /\ t1.heap["root_ignores"] = "live" /\ t1.fault = s.fault
    BY <1>2, <1>3, <2>1 DEF FreeHeap, Lib
  <2>3. /\ t2.heap["re"] = "null" /\ t2.heap["workers"] = "live"
        /\ t2.heap["root_ignores"] = "live" /\ t2.fault = s.fault
    BY <1>2, <1>4, <1>5, <2>2 DEF FreeHeap, Lib
  <2>4. t.heap["re"] = "null" /\ t.heap["workers"] = "null" /\ t.fault = s.fault
    BY <1>2, <1>7, <1>9, <1>10, <2>3
  <2> QED  BY <1>12, <2>1, <2>4 DEF InOrder
<1> QED  BY <1>11, <1>12, <1>13

\* ag_set_config() sets both flags or, given nothing or a setting it refuses,
\* none of them.
LEMMA SetConfigKeeps ==
  ASSUME NEW s \in Lib, NEW c \in Config \cup {NULL}
  PROVE  LET t == ag_set_config(s, c) IN
         /\ t \in Lib /\ t.has_ag_init = s.has_ag_init
         /\ t.heap = s.heap /\ t.fault = s.fault
         /\ t.config \in {s.config, c}
         /\ c = NULL => t.config = s.config
         /\ c # NULL => IF c.casing = "invalid"
                        THEN t.config = s.config /\ t.opts.stats = s.opts.stats
                        ELSE t.config = c /\ t.opts.stats = c.stats
<1>1. CASE c = NULL
  BY <1>1, ReturnKeeps DEF ag_set_config, SameButMemory
<1>2. CASE c # NULL
  <2>1. c \in Config  BY <1>2
  <2> DEFINE s1 == [s EXCEPT !.opts.literal = c.literal]
  <2>2. /\ s1 \in Lib /\ s1.has_ag_init = s.has_ag_init /\ s1.heap = s.heap
        /\ s1.fault = s.fault /\ s1.config = s.config
        /\ s1.opts.stats = s.opts.stats
    BY <2>1 DEF Lib, Config
  <2> HIDE DEF s1
  <2>3. CASE c.casing = "invalid"
    <3>1. ag_set_config(s, c) = Return(s1, -1)
      BY <1>2, <2>3 DEF ag_set_config, s1
    <3>2. /\ SameButMemory(s1, Return(s1, -1))
          /\ Return(s1, -1).heap = s1.heap /\ Return(s1, -1).fault = s1.fault
      BY <2>2, ReturnKeeps
    <3> QED  BY <1>2, <2>2, <2>3, <3>1, <3>2 DEF SameButMemory
  <2>4. CASE c.casing # "invalid"
    <3> DEFINE s2 == [s1 EXCEPT !.opts.casing = c.casing,
                                !.opts.stats = c.stats,
                                !.config = c]
    <3>1. /\ s2 \in Lib /\ s2.has_ag_init = s1.has_ag_init
          /\ s2.heap = s1.heap /\ s2.fault = s1.fault /\ s2.config = c
          /\ s2.opts.stats = c.stats
      BY <2>1, <2>2, <2>4 DEF Lib, Config, Casing
    <3> HIDE DEF s2
    <3>2. ag_set_config(s, c) = Return(s2, 0)
      BY <1>2, <2>4 DEF ag_set_config, s1, s2
    <3>3. /\ SameButMemory(s2, Return(s2, 0))
          /\ Return(s2, 0).heap = s2.heap /\ Return(s2, 0).fault = s2.fault
      BY <3>1, ReturnKeeps
    <3> QED  BY <1>2, <2>2, <2>4, <3>1, <3>2, <3>3 DEF SameButMemory
  <2> QED  BY <2>3, <2>4
<1> QED  BY <1>1, <1>2

\* init_options() makes the colours anew and clears the settings.
LEMMA InitOptionsKeeps ==
  ASSUME NEW s \in Lib
  PROVE  LET t == init_options(s) IN
         /\ t \in Lib /\ t.has_ag_init = s.has_ag_init /\ t.config = s.config
         /\ t.fault = s.fault
         /\ t.heap["re"] = "null" /\ t.heap["colors"] = "live"
         /\ \A o \in Object \ {"re", "colors"} : t.heap[o] = s.heap[o]
<1> DEFINE t1 == Point(s, "re", "null")
           t2 == Point(t1, "colors", "live")
<1>1. {"re", "colors"} \subseteq Object  BY DEF Object
<1>2. SameButMemory(s, t1) /\ t1.heap = [s.heap EXCEPT !["re"] = "null"]
      /\ t1.fault = s.fault
  BY <1>1, PointKeeps DEF Word
<1>3. t1 \in Lib  BY <1>2 DEF SameButMemory
<1> HIDE DEF t1
<1>4. SameButMemory(t1, t2) /\ t2.heap = [t1.heap EXCEPT !["colors"] = "live"]
      /\ t2.fault = t1.fault
  BY <1>1, <1>3, PointKeeps DEF Word
<1>5. t2 \in Lib  BY <1>4 DEF SameButMemory
<1> HIDE DEF t2
<1> DEFINE t == [t2 EXCEPT !.opts = [literal |-> FALSE, casing |-> "default",
                                     stats |-> FALSE]]
<1>6. /\ t \in Lib /\ t.has_ag_init = t2.has_ag_init /\ t.config = t2.config
      /\ t.heap = t2.heap /\ t.fault = t2.fault
  BY <1>5, ZenonT(60) DEF Lib
<1>7. t = init_options(s)  BY DEF t, t2, t1, init_options
<1> HIDE DEF t
<1>8. s.heap \in [Object -> Word]  BY DEF Lib, Word
<1> QED  BY <1>1, <1>2, <1>4, <1>6, <1>7, <1>8 DEF SameButMemory

\* ag_init_config() leaves the two flags agreed, and a library in order if it
\* was, whether or not it was initialized before.
LEMMA InitConfigKeeps ==
  ASSUME NEW s \in Lib, NEW c \in Config \cup {NULL}, NEW fails \in BOOLEAN
  PROVE  LET t == ag_init_config(s, c, fails) IN
         /\ t \in Lib
         /\ c # NULL /\ c.casing # "invalid" => t.opts.stats = t.config.stats
         /\ InOrder(s) /\ (c # NULL => c.behavior = "start") /\ ~fails =>
              InOrder(t) /\ t.fault = s.fault
<1> DEFINE s1 == IF s.has_ag_init THEN ag_finish(s) ELSE s
           r  == Point(s1, "root_ignores", "live")
           s2 == init_options(r)
           s3 == ag_set_config(s2, c)
           s4 == ag_start_workers(s3, fails)
           t  == ag_init_config(s, c, fails)
<1>1. /\ s1 \in Lib /\ s1.config = s.config
      /\ InOrder(s) => /\ s1.heap["workers"] = "null" /\ s1.fault = s.fault
                       /\ s1.config.behavior = "start"
  BY FinishKeeps DEF InOrder
<1> HIDE DEF s1
<1>2. {"re", "colors", "workers", "root_ignores"} \subseteq Object  BY DEF Object
<1>3. /\ SameButMemory(s1, r) /\ r.fault = s1.fault
      /\ r.heap = [s1.heap EXCEPT !["root_ignores"] = "live"]
  BY <1>1, <1>2, PointKeeps DEF Word
<1>4. /\ r \in Lib /\ r.config = s1.config
      /\ r.heap["root_ignores"] = "live"
      /\ r.heap["workers"] = s1.heap["workers"]
  BY <1>1, <1>2, <1>3 DEF SameButMemory, Lib
<1> HIDE DEF r
<1>5. /\ s2 \in Lib /\ s2.config = r.config /\ s2.fault = r.fault
      /\ s2.heap["re"] = "null" /\ s2.heap["colors"] = "live"
      /\ s2.heap["root_ignores"] = r.heap["root_ignores"]
      /\ s2.heap["workers"] = r.heap["workers"]
  BY <1>2, <1>4, InitOptionsKeeps
<1> HIDE DEF s2
<1>6. /\ s3 \in Lib /\ s3.heap = s2.heap /\ s3.fault = s2.fault
      /\ s3.config \in {s2.config, c} /\ (c = NULL => s3.config = s2.config)
      /\ c # NULL /\ c.casing # "invalid" =>
           s3.config = c /\ s3.opts.stats = c.stats
  BY <1>5, SetConfigKeeps
<1> HIDE DEF s3
<1>7. /\ SameButMemory(s3, s4) /\ s4.fault = s3.fault
      /\ \A o \in Object \ {"workers"} : s4.heap[o] = s3.heap[o]
      /\ s3.heap["workers"] = "null" /\ ~fails =>
           s4.heap["workers"] = "live" /\ s4.rc = 0
  BY <1>6, StartKeeps
<1>8. s4 \in Lib  BY <1>7 DEF SameButMemory
<1>9. t = IF s3.config.behavior # "start"
          THEN Return([s3 EXCEPT !.has_ag_init = TRUE], 0)
          ELSE IF s4.rc # 0 THEN s4
          ELSE [s4 EXCEPT !.has_ag_init = TRUE]
  BY DEF s4, s3, s2, r, s1, ag_init_config
<1> HIDE DEF s4, t
<1>10. \A u \in Lib :
         LET v == [u EXCEPT !.has_ag_init = TRUE] IN
         /\ v \in Lib /\ v.has_ag_init /\ v.config = u.config
         /\ v.opts = u.opts /\ v.heap = u.heap /\ v.fault = u.fault
  BY DEF Lib
<1>11. CASE s3.config.behavior # "start"
  <2> DEFINE v == [s3 EXCEPT !.has_ag_init = TRUE]
  <2>1. v \in Lib /\ v.config = s3.config /\ v.opts = s3.opts  BY <1>6, <1>10
  <2> HIDE DEF v
  <2>2. SameButMemory(v, Return(v, 0))  BY <2>1, ReturnKeeps
  <2>3. t = Return(v, 0)  BY <1>9, <1>11 DEF v
  <2>4. t \in Lib /\ t.config = s3.config /\ t.opts = s3.opts
    BY <2>1, <2>2, <2>3 DEF SameButMemory
  <2> QED  BY <1>1, <1>4, <1>5, <1>6, <1>11, <2>4 DEF t
<1>12. CASE s3.config.behavior = "start" /\ s4.rc # 0
  <2>1. t = s4 /\ t \in Lib /\ t.config = s3.config /\ t.opts = s3.opts
    BY <1>7, <1>8, <1>9, <1>12 DEF SameButMemory
  <2>2. ~(InOrder(s) /\ ~fails)  BY <1>1, <1>4, <1>5, <1>6, <1>7, <1>12
  <2> QED  BY <1>6, <2>1, <2>2 DEF t
<1>13. CASE s3.config.behavior = "start" /\ s4.rc = 0
  <2>1. t = [s4 EXCEPT !.has_ag_init = TRUE]  BY <1>9, <1>13
  <2>2. /\ t \in Lib /\ t.has_ag_init /\ t.config = s4.config
        /\ t.opts = s4.opts /\ t.heap = s4.heap /\ t.fault = s4.fault
    BY <1>8, <1>10, <2>1
  <2>3. t.config = s3.config /\ t.opts = s3.opts
    BY <1>7, <2>2 DEF SameButMemory
  <2>4. ASSUME InOrder(s), ~fails
        PROVE  InOrder(t) /\ t.fault = s.fault
    <3>1. t.fault = s.fault  BY <1>1, <1>3, <1>4, <1>5, <1>6, <1>7, <2>2, <2>4
    <3>2. /\ t.heap["re"] = "null" /\ t.heap["colors"] = "live"
          /\ t.heap["root_ignores"] = "live" /\ t.heap["workers"] = "live"
      BY <1>1, <1>2, <1>4, <1>5, <1>6, <1>7, <2>2, <2>4
    <3> QED  BY <1>13, <2>2, <2>3, <3>1, <3>2 DEF InOrder
  <2> QED  BY <1>6, <2>2, <2>3, <2>4 DEF t
<1> QED  BY <1>11, <1>12, <1>13

\* The casing a search for q goes by, given the settings.
SearchCasing(config, q) ==
  IF config.casing # "smart" THEN config.casing
  ELSE IF is_lowercase(q) THEN "insensitive" ELSE "sensitive"

\* setup_search() decides the casing from the settings, not from what the
\* search before has left, and makes the tables this search needs.
LEMMA SetupKeeps ==
  ASSUME NEW s \in Lib, NEW q \in Query
  PROVE  LET t == setup_search(s, q) IN
         /\ t \in Lib /\ t.has_ag_init = s.has_ag_init /\ t.config = s.config
         /\ t.opts.stats = s.opts.stats /\ t.fresh = s.fresh
         /\ t.searched # NoSearch
         /\ t.searched.query = q
         /\ t.searched.casing = SearchCasing(s.config, q)
         /\ \A o \in Object \ {"find_skip_lookup", "re"} : t.heap[o] = s.heap[o]
         /\ s.fault # "none" => t.fault = s.fault
         /\ ~is_regex(q) => /\ t.fault = s.fault /\ t.heap["re"] = s.heap["re"]
                            /\ t.heap["find_skip_lookup"] = "live"
<1> DEFINE casing  == SearchCasing(s.config, q)
           literal == s.opts.literal \/ ~is_regex(q)
           s1 == [s EXCEPT !.opts.casing = casing, !.opts.literal = literal,
                           !.searched = [query |-> q, literal |-> literal,
                                         casing |-> casing]]
           t  == setup_search(s, q)
<1>1. {"find_skip_lookup", "re"} \subseteq Object  BY DEF Object
<1>2. casing \in Casing
  BY DEF SearchCasing, Lib, Casing
<1>3. literal \in BOOLEAN  BY DEF Lib, is_regex
<1>4. t = IF literal THEN Point(s1, "find_skip_lookup", "live")
          ELSE IF q = "broken" THEN Hit(s1, "exit")
          ELSE Point(s1, "re", "live")
  BY DEF setup_search, SearchCasing
<1>5. ~is_regex(q) => literal  OBVIOUS
<1> HIDE DEF casing, literal, t
<1>6. /\ s1 \in Lib /\ s1.has_ag_init = s.has_ag_init /\ s1.config = s.config
      /\ s1.opts.stats = s.opts.stats /\ s1.fresh = s.fresh
      /\ s1.heap = s.heap /\ s1.fault = s.fault
      /\ s1.searched = [query |-> q, literal |-> literal, casing |-> casing]
  BY <1>2, <1>3 DEF Lib
<1>7. s1.searched # NoSearch
  BY <1>6 DEF NoSearch
<1>8. s1.searched.query = q /\ s1.searched.casing = casing  BY <1>6
<1> HIDE DEF s1
<1>9. s.heap \in [Object -> Word] /\ s1.heap \in [Object -> Word]
  BY <1>6 DEF Lib, Word
<1>10. \A o \in {"find_skip_lookup", "re"} :
         LET p == Point(s1, o, "live") IN
         /\ SameButMemory(s1, p) /\ p.fault = s1.fault
         /\ p.heap = [s1.heap EXCEPT ![o] = "live"]
  BY <1>1, <1>6, PointKeeps DEF Word
<1>11. CASE literal
  <2> DEFINE p == Point(s1, "find_skip_lookup", "live")
  <2>1. /\ SameButMemory(s1, p) /\ p.fault = s1.fault
        /\ p.heap = [s1.heap EXCEPT !["find_skip_lookup"] = "live"]
    BY <1>10
  <2>2. t = p  BY <1>4, <1>11
  <2> HIDE DEF p
  <2> QED  BY <1>1, <1>6, <1>7, <1>8, <1>9, <2>1, <2>2
           DEF SameButMemory, casing, t
<1>12. CASE ~literal /\ q = "broken"
  <2>1. t = Hit(s1, "exit")  BY <1>4, <1>12
  <2>2. /\ SameButMemory(s1, t) /\ t.heap = s1.heap
        /\ t.fault = IF s1.fault = "none" THEN "exit" ELSE s1.fault
    BY <1>6, <2>1, HitKeeps
  <2> QED  BY <1>5, <1>6, <1>7, <1>8, <1>12, <2>2 DEF SameButMemory, casing, t
<1>13. CASE ~literal /\ q # "broken"
  <2> DEFINE p == Point(s1, "re", "live")
  <2>1. /\ SameButMemory(s1, p) /\ p.fault = s1.fault
        /\ p.heap = [s1.heap EXCEPT !["re"] = "live"]
    BY <1>10
  <2>2. t = p  BY <1>4, <1>13
  <2> HIDE DEF p
  <2> QED  BY <1>1, <1>5, <1>6, <1>7, <1>8, <1>9, <1>13, <2>1, <2>2
           DEF SameButMemory, casing, t
<1> QED  BY <1>11, <1>12, <1>13

\* A search from "Reset stats" on: how it was carried out, whether the stats
\* are its own, which workers it leaves, and that it leaves the library in
\* order.
LEMMA RunSearchKeeps ==
  ASSUME NEW s \in Lib, NEW q \in Query, NEW paths \in BOOLEAN
  PROVE  LET t == run_search(s, q, paths) IN
         /\ t \in Lib /\ t.has_ag_init = s.has_ag_init /\ t.config = s.config
         /\ t.opts.stats = s.opts.stats /\ t.fresh = s.opts.stats
         /\ t.searched # NoSearch
         /\ t.searched.query = q
         /\ t.searched.casing = SearchCasing(s.config, q)
         /\ t.fault = "none" =>
              t.heap["workers"] =
                IF s.config.behavior = "onsearch" THEN "null" ELSE "live"
         /\ InOrder(s) /\ s.has_ag_init /\ s.fault = "none" /\ ~is_regex(q) =>
              InOrder(t) /\ t.fault \in {"none", "uninitialized"}
<1> DEFINE s1 == [s EXCEPT !.fresh = s.opts.stats]
           r  == setup_search(s1, q)
           s2 == walk_paths(r, paths)
           s3 == IF s.heap["workers"] = "live" THEN s2 ELSE Hit(s2, "hang")
           f  == Free(s3, "find_skip_lookup")
           s4 == Return(f, 0)
           t  == run_search(s, q, paths)
<1> DEFINE Kept(u, v) ==
             /\ v \in Lib /\ v.has_ag_init = u.has_ag_init
             /\ v.config = u.config /\ v.opts.stats = u.opts.stats
             /\ v.fresh = u.fresh /\ v.searched = u.searched
<1>1. \A u, v : SameButMemory(u, v) => Kept(u, v)  BY DEF SameButMemory
<1>2. {"find_skip_lookup", "workers", "re", "colors", "root_ignores"}
        \subseteq Object
  BY DEF Object
<1>3. \A u \in Lib : u.heap \in [Object -> Word]  BY DEF Lib, Word
<1>4. /\ s1 \in Lib /\ s1.has_ag_init = s.has_ag_init /\ s1.config = s.config
      /\ s1.opts = s.opts /\ s1.fresh = s.opts.stats /\ s1.heap = s.heap
      /\ s1.fault = s.fault
  BY DEF Lib
<1> HIDE DEF s1
<1>5. /\ r \in Lib /\ r.has_ag_init = s.has_ag_init /\ r.config = s.config
      /\ r.opts.stats = s.opts.stats /\ r.fresh = s.opts.stats
      /\ r.searched # NoSearch /\ r.searched.query = q
      /\ r.searched.casing = SearchCasing(s.config, q)
      /\ \A o \in Object \ {"find_skip_lookup", "re"} : r.heap[o] = s.heap[o]
      /\ ~is_regex(q) => /\ r.fault = s.fault /\ r.heap["re"] = s.heap["re"]
                         /\ r.heap["find_skip_lookup"] = "live"
  BY <1>4, SetupKeeps
<1> HIDE DEF r
<1>6. /\ SameButMemory(r, s2) /\ s2.heap = r.heap
      /\ r.fault = "none" /\ r.heap["root_ignores"] = "live" =>
           s2.fault \in {"none", "uninitialized"}
  BY <1>5, HitKeeps DEF walk_paths, SameButMemory
<1>7. Kept(r, s2) /\ s2 \in Lib  BY <1>1, <1>6
<1> HIDE DEF s2
<1>8. /\ SameButMemory(s2, s3) /\ s3.heap = s2.heap
      /\ s.heap["workers"] = "live" => s3.fault = s2.fault
      /\ s.heap["workers"] # "live" => s3.fault # "none"
  BY <1>7, HitKeeps DEF SameButMemory
<1>9. Kept(s2, s3) /\ s3 \in Lib  BY <1>1, <1>8
<1> HIDE DEF s3
<1>10. /\ SameButMemory(s3, f) /\ f.heap = FreeHeap(s3, "find_skip_lookup")
       /\ s3.heap["find_skip_lookup"] = "live" => f.fault = s3.fault
       /\ f.fault = "none" => s3.fault = "none"
  BY <1>2, <1>9, FreeKeeps
<1>11. Kept(s3, f) /\ f \in Lib  BY <1>1, <1>10
<1> HIDE DEF f
<1>12. SameButMemory(f, s4) /\ s4.heap = f.heap /\ s4.fault = f.fault
  BY <1>11, ReturnKeeps
<1>13. Kept(f, s4) /\ s4 \in Lib  BY <1>1, <1>12
<1>14. t = IF s4.config.behavior = "onsearch" THEN ag_stop_workers(s4) ELSE s4
  BY DEF s4, f, s3, s2, r, s1, run_search
<1> HIDE DEF s4, t
<1>15. /\ s4.has_ag_init = s.has_ag_init /\ s4.config = s.config
       /\ s4.opts.stats = s.opts.stats /\ s4.fresh = s.opts.stats
       /\ s4.searched # NoSearch /\ s4.searched.query = q
       /\ s4.searched.casing = SearchCasing(s.config, q)
  BY <1>5, <1>7, <1>9, <1>11, <1>13
<1>16. \A o \in Object \ {"find_skip_lookup", "re"} : s4.heap[o] = s.heap[o]
  BY <1>2, <1>3, <1>5, <1>6, <1>8, <1>9, <1>10, <1>12 DEF FreeHeap
<1>17. s4.fault = "none" => s.heap["workers"] = "live"
  BY <1>8, <1>10, <1>12
<1>18. CASE s4.config.behavior = "onsearch"
  <2>1. t = ag_stop_workers(s4)  BY <1>14, <1>18
  <2>2. /\ SameButMemory(s4, t)
        /\ t.heap["workers"] =
             IF s4.heap["workers"] = "live" THEN "null" ELSE s4.heap["workers"]
        /\ s4.fault # "none" => t.fault = s4.fault
    BY <1>13, <2>1, StopKeeps
  <2>3. Kept(s4, t)  BY <1>1, <2>2
  <2>4. t.fault = "none" => t.heap["workers"] = "null"
    BY <1>2, <1>16, <1>17, <2>2
  <2>5. ~InOrder(s)  BY <1>15, <1>18 DEF InOrder
  <2> QED  BY <1>15, <1>18, <2>3, <2>4, <2>5 DEF t
<1>19. CASE s4.config.behavior # "onsearch"
  <2>1. t = s4  BY <1>14, <1>19
  <2>2. s4.fault = "none" => s4.heap["workers"] = "live"
    BY <1>2, <1>16, <1>17
  <2>3. ASSUME InOrder(s), s.has_ag_init, s.fault = "none", ~is_regex(q)
        PROVE  InOrder(s4) /\ s4.fault \in {"none", "uninitialized"}
    <3>1. /\ s.config.behavior = "start" /\ s.heap["re"] = "null"
          /\ s.heap["workers"] = "live" /\ s.heap["colors"] = "live"
          /\ s.heap["root_ignores"] = "live"
      BY <2>3 DEF InOrder
    <3>2. /\ s4.heap["workers"] = "live" /\ s4.heap["colors"] = "live"
          /\ s4.heap["root_ignores"] = "live"
      BY <1>2, <1>16, <3>1
    <3>3. s4.heap["re"] = "null"
      BY <1>2, <1>3, <1>5, <1>6, <1>8, <1>9, <1>10, <1>12, <2>3, <3>1
      DEF FreeHeap
    <3>4. s4.fault \in {"none", "uninitialized"}
      BY <1>2, <1>5, <1>6, <1>8, <1>10, <1>12, <2>3, <3>1
    <3> QED  BY <1>15, <2>3, <3>1, <3>2, <3>3, <3>4 DEF InOrder
  <2> QED  BY <1>13, <1>15, <1>19, <2>1, <2>2, <2>3 DEF t
<1> QED  BY <1>18, <1>19

\* ag_search() carries a search out in an initialized library alone; one it
\* refuses changes the workers at most.
LEMMA SearchKeeps ==
  ASSUME NEW s \in Lib, NEW q \in Query, NEW paths \in BOOLEAN,
         NEW fails \in BOOLEAN
  PROVE  LET t == ag_search(s, q, paths, fails) IN
         /\ t \in Lib /\ t.config = s.config /\ t.opts.stats = s.opts.stats
         /\ t.searched # NoSearch =>
              /\ t.has_ag_init /\ t.fresh = s.opts.stats
              /\ t.searched.query = q
              /\ t.searched.casing = SearchCasing(s.config, q)
              /\ t.fault = "none" =>
                   t.heap["workers"] =
                     IF s.config.behavior = "onsearch" THEN "null" ELSE "live"
         /\ InOrder(s) /\ s.fault = "none" /\ ~is_regex(q) =>
              InOrder(t) /\ t.fault \in {"none", "uninitialized"}
<1> DEFINE s0 == [s EXCEPT !.searched = NoSearch]
           s1 == ag_start_workers(s0, fails)
           t  == ag_search(s, q, paths, fails)
<1>1. /\ s0 \in Lib /\ s0.has_ag_init = s.has_ag_init /\ s0.config = s.config
      /\ s0.opts = s.opts /\ s0.heap = s.heap /\ s0.fault = s.fault
      /\ s0.searched = NoSearch
  BY DEF Lib
<1>2. InOrder(s) => InOrder(s0)  BY <1>1 DEF InOrder
<1> HIDE DEF s0
<1>3. SameButMemory(s0, s1)  BY <1>1, StartKeeps
<1>4. /\ s1 \in Lib /\ s1.has_ag_init = s.has_ag_init /\ s1.config = s.config
      /\ s1.opts = s.opts /\ s1.searched = NoSearch
  BY <1>1, <1>3 DEF SameButMemory
<1>5. t = IF ~s.has_ag_init THEN Return(s0, -1)
          ELSE IF s.heap["workers"] # "null" THEN run_search(s0, q, paths)
          ELSE IF s.config.behavior # "onsearch" THEN Return(s0, -1)
          ELSE IF s1.rc # 0 THEN s1
          ELSE run_search(s1, q, paths)
  BY DEF ag_search, s0, s1
<1> HIDE DEF s1, t
<1>6. CASE t = Return(s0, -1)
  <2>1. SameButMemory(s0, t) /\ t.heap = s0.heap /\ t.fault = s0.fault
    BY <1>1, <1>6, ReturnKeeps
  <2>2. t.searched = NoSearch /\ t \in Lib /\ t.has_ag_init = s.has_ag_init
        /\ t.config = s.config /\ t.opts = s.opts
    BY <1>1, <2>1 DEF SameButMemory
  <2>3. InOrder(s) => InOrder(t)  BY <1>1, <2>1, <2>2 DEF InOrder
  <2> QED  BY <1>1, <2>1, <2>2, <2>3 DEF t
<1>7. CASE s.has_ag_init /\ t = run_search(s0, q, paths)
  <2> DEFINE u == run_search(s0, q, paths)
  <2>1. /\ u \in Lib /\ u.has_ag_init = s0.has_ag_init /\ u.config = s0.config
        /\ u.opts.stats = s0.opts.stats /\ u.fresh = s0.opts.stats
        /\ u.searched.query = q
        /\ u.searched.casing = SearchCasing(s0.config, q)
        /\ u.fault = "none" =>
             u.heap["workers"] =
               IF s0.config.behavior = "onsearch" THEN "null" ELSE "live"
        /\ InOrder(s0) /\ s0.has_ag_init /\ s0.fault = "none" /\ ~is_regex(q) =>
             InOrder(u) /\ u.fault \in {"none", "uninitialized"}
    BY <1>1, RunSearchKeeps
  <2> HIDE DEF u
  <2>3. t = u  BY <1>7 DEF u
  <2> QED  BY <1>1, <1>2, <1>7, <2>1, <2>3 DEF t
<1>8. CASE s.has_ag_init /\ s.config.behavior = "onsearch" /\ t = s1
  <2>1. ~InOrder(s)  BY <1>8 DEF InOrder
  <2> QED  BY <1>4, <1>8, <2>1 DEF t
<1>9. CASE /\ s.has_ag_init /\ s.config.behavior = "onsearch"
           /\ t = run_search(s1, q, paths)
  <2>1. ~InOrder(s)  BY <1>9 DEF InOrder
  <2> DEFINE u == run_search(s1, q, paths)
  <2>2. /\ u \in Lib /\ u.has_ag_init = s1.has_ag_init /\ u.config = s1.config
        /\ u.opts.stats = s1.opts.stats /\ u.fresh = s1.opts.stats
        /\ u.searched.query = q
        /\ u.searched.casing = SearchCasing(s1.config, q)
        /\ u.fault = "none" =>
             u.heap["workers"] =
               IF s1.config.behavior = "onsearch" THEN "null" ELSE "live"
    BY <1>4, RunSearchKeeps
  <2> HIDE DEF u
  <2>3. t = u  BY <1>9 DEF u
  <2> QED  BY <1>4, <1>9, <2>1, <2>2, <2>3 DEF t
<1> QED  BY <1>5, <1>6, <1>7, <1>8, <1>9

-----------------------------------------------------------------------------
(* The actions                                                              *)

\* What a call that is not a search has to leave.
LEMMA OtherCall ==
  ASSUME LifeInv, NEW s \in Lib,
         NEW name \in {"init", "init_config", "set_config", "start_workers",
                       "stop_workers", "get_stats", "finish"},
         Called(name, s),
         ~Does("init") /\ ~Does("bad_config") => s.opts.stats = s.config.stats,
         Plain => InOrder(s) /\ s.fault = "none"
  PROVE  LifeInv'
<1>1. client' = client /\ lib' = [s EXCEPT !.called = name]
  BY DEF Called
<1> DEFINE t == [s EXCEPT !.called = name]
<1>0. /\ t \in Lib /\ t.called = name
      /\ t.has_ag_init = s.has_ag_init /\ t.config = s.config
      /\ t.opts = s.opts /\ t.heap = s.heap /\ t.fault = s.fault
  BY DEF Lib
<1>2. /\ lib' \in Lib /\ lib'.called = name
      /\ lib'.has_ag_init = s.has_ag_init /\ lib'.config = s.config
      /\ lib'.opts = s.opts /\ lib'.heap = s.heap /\ lib'.fault = s.fault
  <2> HIDE DEF t
  <2> QED  BY <1>0, <1>1 DEF t
<1>3. ~JustSearched'  BY <1>2 DEF JustSearched
<1>4. \A call : Does(call)' = Does(call)  BY <1>1 DEF Does
<1>5. Plain' = Plain  BY <1>1 DEF Plain, Asked, Does, Fails
<1>6. TypeOK'  BY <1>1, <1>2 DEF LifeInv, TypeOK
<1>7. FlagsInv'  BY <1>2, <1>4 DEF FlagsInv
<1>8. PlainInv'
  BY <1>2, <1>5 DEF PlainInv, MemorySafe, InOrder
<1> QED  BY <1>3, <1>6, <1>7, <1>8
         DEF LifeInv, CasingFollowsConfig, WorkersAsConfigured,
             StatsOfLatestSearch

\* What a search has to leave.
LEMMA SearchCall ==
  ASSUME LifeInv, NEW q \in Asked, NEW paths \in BOOLEAN, NEW fails \in BOOLEAN,
         Called("search", ag_search(lib, q, paths, fails))
  PROVE  LifeInv'
<1> DEFINE s == ag_search(lib, q, paths, fails)
           t == [s EXCEPT !.called = "search"]
<1>1. client' = client /\ lib' = t /\ lib.fault = "none"
  BY DEF Called
<1>2. lib \in Lib /\ q \in Query
  BY LifecycleAssumption DEF LifeInv, TypeOK, Asked
<1>3. /\ s \in Lib /\ s.config = lib.config /\ s.opts.stats = lib.opts.stats
      /\ s.searched # NoSearch =>
           /\ s.has_ag_init /\ s.fresh = lib.opts.stats
           /\ s.searched.query = q
           /\ s.searched.casing = SearchCasing(lib.config, q)
           /\ s.fault = "none" =>
                s.heap["workers"] =
                  IF lib.config.behavior = "onsearch" THEN "null" ELSE "live"
      /\ InOrder(lib) /\ lib.fault = "none" /\ ~is_regex(q) =>
           InOrder(s) /\ s.fault \in {"none", "uninitialized"}
  BY <1>2, SearchKeeps
<1> HIDE DEF s
<1>4. /\ t \in Lib /\ t.called = "search"
      /\ t.has_ag_init = s.has_ag_init /\ t.config = s.config
      /\ t.opts = s.opts /\ t.searched = s.searched /\ t.fresh = s.fresh
      /\ t.heap = s.heap /\ t.fault = s.fault
  BY <1>3 DEF Lib
<1> HIDE DEF t
<1>5. \A call : Does(call)' = Does(call)  BY <1>1 DEF Does
<1>6. Plain' = Plain  BY <1>1 DEF Plain, Asked, Does, Fails
<1>7. TypeOK'  BY <1>1, <1>4 DEF LifeInv, TypeOK
<1>8. FlagsInv'  BY <1>1, <1>3, <1>4, <1>5 DEF LifeInv, FlagsInv
<1>9. PlainInv'
  <2>1. ASSUME Plain  PROVE  InOrder(s) /\ s.fault \in {"none", "uninitialized"}
    BY <1>1, <1>3, <2>1 DEF LifeInv, PlainInv, Plain
  <2> QED  BY <1>1, <1>4, <1>6, <2>1 DEF PlainInv, MemorySafe, InOrder
<1>10. CasingFollowsConfig'
  <2>1. JustSearched' =>
          lib'.searched.casing = SearchCasing(lib'.config, lib'.searched.query)
    BY <1>1, <1>3, <1>4 DEF JustSearched
  <2> QED  BY <2>1 DEF CasingFollowsConfig, SearchCasing
<1>11. WorkersAsConfigured'
  BY <1>1, <1>3, <1>4 DEF WorkersAsConfigured, JustSearched
<1>12. StatsOfLatestSearch'
  BY <1>1, <1>3, <1>4, <1>5
  DEF LifeInv, FlagsInv, StatsOfLatestSearch, JustSearched
<1> QED  BY <1>7, <1>8, <1>9, <1>10, <1>11, <1>12 DEF LifeInv

\* A process that has not called the library yet.
LEMMA LifeInit == Init => LifeInv
<1> SUFFICES ASSUME Init PROVE LifeInv  OBVIOUS
<1>1. Start \in Lib
  BY DEF Start, Lib, Zero, Behavior, Casing, NoSearch
<1>2. TypeOK  BY <1>1 DEF Init, TypeOK
<1>3. InOrder(Start)  BY DEF InOrder, Start, Zero, Object
<1>4. /\ Start.opts.stats = Start.config.stats /\ Start.called = "nothing"
      /\ Start.fault = "none"
  BY DEF Start, Zero
<1> QED  BY <1>2, <1>3, <1>4
         DEF Init, LifeInv, FlagsInv, PlainInv, MemorySafe, JustSearched,
             CasingFollowsConfig, WorkersAsConfigured, StatsOfLatestSearch

\* Every call of every client.
LEMMA LifeStep == LifeInv /\ [Next]_vars => LifeInv'
<1> SUFFICES ASSUME LifeInv, [Next]_vars PROVE LifeInv'  OBVIOUS
<1>1. lib \in Lib /\ client \in DOMAIN Discipline  BY DEF LifeInv, TypeOK
<1>2. Fails \subseteq BOOLEAN /\ (Plain => \A fails \in Fails : ~fails)
  BY DEF Fails, Plain
<1>3. \A c \in Passed :
        /\ c \in Config /\ c # NULL
        /\ ~Does("bad_config") => c.casing # "invalid"
        /\ Plain => c.behavior = "start"
  BY NullAssumption DEF Passed, Plain
<1>4. Plain => InOrder(lib)  BY DEF LifeInv, PlainInv
<1>5. ~Does("init") /\ ~Does("bad_config") => lib.opts.stats = lib.config.stats
  BY DEF LifeInv, FlagsInv
<1>6. \A name, s : Called(name, s) => lib.fault = "none"  BY DEF Called
<1>7. CASE AgInit
  <2>1. PICK fails \in Fails : Called("init", ag_init(lib, fails))
    BY <1>7 DEF AgInit
  <2> DEFINE s == ag_init_config(lib, NULL, fails)
             t == Return(s, 0)
  <2>2. /\ s \in Lib
        /\ InOrder(lib) /\ ~fails => InOrder(s) /\ s.fault = lib.fault
    BY <1>1, <1>2, InitConfigKeeps
  <2> HIDE DEF s
  <2>3. SameButMemory(s, t) /\ t.heap = s.heap /\ t.fault = s.fault
    BY <2>2, ReturnKeeps
  <2>4. t \in Lib /\ (InOrder(s) => InOrder(t))
    BY <2>3 DEF SameButMemory, InOrder
  <2>5. Called("init", t)  BY <2>1 DEF ag_init, s
  <2> HIDE DEF t
  <2> QED  BY <1>2, <1>4, <1>6, <1>7, <2>2, <2>3, <2>4, <2>5, OtherCall
           DEF AgInit
<1>8. CASE AgInitConfig
  <2>1. PICK c \in Passed, fails \in Fails :
          Called("init_config", ag_init_config(lib, c, fails))
    BY <1>8 DEF AgInitConfig
  <2> DEFINE s == ag_init_config(lib, c, fails)
  <2>2. /\ s \in Lib
        /\ c # NULL /\ c.casing # "invalid" => s.opts.stats = s.config.stats
        /\ InOrder(lib) /\ (c # NULL => c.behavior = "start") /\ ~fails =>
             InOrder(s) /\ s.fault = lib.fault
    BY <1>1, <1>2, <1>3, InitConfigKeeps
  <2>3. Called("init_config", s)  BY <2>1
  <2> HIDE DEF s
  <2> QED  BY <1>2, <1>3, <1>4, <1>6, <2>2, <2>3, OtherCall
<1>9. CASE AgSetConfig
  <2>1. PICK c \in Passed : /\ c.behavior = lib.config.behavior
                            /\ Called("set_config", ag_set_config(lib, c))
    BY <1>9 DEF AgSetConfig
  <2> DEFINE s == ag_set_config(lib, c)
  <2>2. /\ s \in Lib /\ s.has_ag_init = lib.has_ag_init
        /\ s.heap = lib.heap /\ s.fault = lib.fault
        /\ s.config \in {lib.config, c}
        /\ c # NULL => IF c.casing = "invalid"
                       THEN /\ s.config = lib.config
                            /\ s.opts.stats = lib.opts.stats
                       ELSE s.config = c /\ s.opts.stats = c.stats
    BY <1>1, <1>3, SetConfigKeeps
  <2>3. Called("set_config", s)  BY <2>1
  <2> HIDE DEF s
  <2>4. InOrder(lib) => InOrder(s)  BY <2>1, <2>2 DEF InOrder
  <2>5. ~Does("init") /\ ~Does("bad_config") => s.opts.stats = s.config.stats
    BY <1>3, <2>2
  <2> QED  BY <1>4, <1>6, <2>2, <2>3, <2>4, <2>5, OtherCall
<1>10. CASE AgStartWorkers
  <2>1. PICK fails \in Fails :
          Called("start_workers", ag_start_workers(lib, fails))
    BY <1>10 DEF AgStartWorkers
  <2> DEFINE s == ag_start_workers(lib, fails)
  <2>2. SameButMemory(lib, s)  BY <1>1, <1>2, StartKeeps
  <2>3. Called("start_workers", s)  BY <2>1
  <2> HIDE DEF s
  <2>4. ~Plain  BY <1>10 DEF AgStartWorkers, Plain
  <2> QED  BY <1>5, <2>2, <2>3, <2>4, OtherCall DEF SameButMemory
<1>11. CASE AgStopWorkers
  <2> DEFINE s == ag_stop_workers(lib)
  <2>2. SameButMemory(lib, s)  BY <1>1, StopKeeps
  <2>3. Called("stop_workers", s)  BY <1>11 DEF AgStopWorkers
  <2> HIDE DEF s
  <2>4. ~Plain  BY <1>11 DEF AgStopWorkers, Plain
  <2> QED  BY <1>5, <2>2, <2>3, <2>4, OtherCall DEF SameButMemory
<1>12. CASE AgSearch
  BY <1>2, <1>12, SearchCall DEF AgSearch
<1>13. CASE AgSearchNoPaths
  BY <1>2, <1>13, SearchCall DEF AgSearchNoPaths
<1>14. CASE AgGetStats
  <2> DEFINE s == ag_get_stats(lib)
  <2>2. SameButMemory(lib, s) /\ s.heap = lib.heap /\ s.fault = lib.fault
    BY <1>1, ReturnKeeps DEF ag_get_stats
  <2>3. Called("get_stats", s)  BY <1>14 DEF AgGetStats
  <2> HIDE DEF s
  <2>4. InOrder(lib) => InOrder(s)  BY <2>2 DEF SameButMemory, InOrder
  <2> QED  BY <1>4, <1>5, <1>6, <2>2, <2>3, <2>4, OtherCall DEF SameButMemory
<1>15. CASE AgFinish
  <2> DEFINE s == ag_finish(lib)
  <2>2. /\ s \in Lib /\ s.config = lib.config /\ s.opts = lib.opts
        /\ lib.has_ag_init /\ InOrder(lib) =>
             InOrder(s) /\ s.fault = lib.fault
    BY <1>1, FinishKeeps
  <2>3. Called("finish", s) /\ lib.has_ag_init  BY <1>15 DEF AgFinish
  <2> HIDE DEF s
  <2> QED  BY <1>4, <1>5, <1>6, <2>2, <2>3, OtherCall
<1>16. CASE Over \/ UNCHANGED vars
  BY <1>16
  DEF Over, vars, LifeInv, TypeOK, FlagsInv, PlainInv, Plain, Asked, Does, Fails,
      MemorySafe, InOrder, JustSearched, CasingFollowsConfig,
      WorkersAsConfigured, StatsOfLatestSearch
<1> QED  BY <1>7, <1>8, <1>9, <1>10, <1>11, <1>12, <1>13, <1>14, <1>15, <1>16
         DEF Next

-----------------------------------------------------------------------------
(* What the client is promised                                              *)

\* Whatever the client's discipline, every call leaves what the next one
\* relies on (the functions of libag.c from ag_init to ag_finish).
THEOREM LifeInvariance == Spec => []LifeInv
  BY LifeInit, LifeStep, PTL DEF Spec

\* Smart casing is decided anew for each query, from the settings in force
\* (setup_search).
THEOREM CasingRight == Spec => []CasingFollowsConfig
<1>1. LifeInv => CasingFollowsConfig  BY DEF LifeInv
<1> QED  BY <1>1, LifeInvariance, PTL

\* A search is carried out only by an initialized library with workers, and
\* one that manages them itself leaves none behind (ag_search).
THEOREM WorkersRight == Spec => []WorkersAsConfigured
<1>1. LifeInv => WorkersAsConfigured  BY DEF LifeInv
<1> QED  BY <1>1, LifeInvariance, PTL

\* After a search with stats enabled the stats are that search's
\* (ag_set_config, ag_search, ag_get_stats).
THEOREM StatsRight == Spec => []StatsOfLatestSearch
<1>1. LifeInv => StatsOfLatestSearch  BY DEF LifeInv
<1> QED  BY <1>1, LifeInvariance, PTL

\* A plain client never has the library free or use what it has freed, over
\* any number of searches and of starts (ag_finish, ag_init, setup_search).
THEOREM PlainClientSafe == Spec => []PlainClientMemorySafe
<1>1. LifeInv => PlainClientMemorySafe
  BY DEF LifeInv, PlainInv, PlainClientMemorySafe
<1> QED  BY <1>1, LifeInvariance, PTL

-----------------------------------------------------------------------------
(* Several clients in ag_search_ts(), with workers that outlive a search.    *)

\* The lock is held by the client in ag_search(), workers are there all along,
\* and while a search runs opts.query is the query of whoever runs it.
LockInv ==
  /\ search_mtx.live /\ workers
  /\ \A c \in Client :
       /\ InSearch(c) <=> search_mtx.owner = c
       /\ pc[c] # "stop"
       /\ pc[c] = "search" => query = asked[c]

TsInv == TsTypeOK /\ LockInv /\ AnswersOwnQuery

\* The invariant holds of an initialized library with no call in progress.
LEMMA TsInvInit ==
  ASSUME TsInit, WorkersBehavior = "start"
  PROVE  TsInv
<1>1. TsTypeOK
  BY DEF TsInit, TsTypeOK
<1>2. LockInv
  BY SearchTsAssumption DEF TsInit, LockInv, InSearch
<1>3. AnswersOwnQuery
  BY DEF TsInit, AnswersOwnQuery
<1> QED
  BY <1>1, <1>2, <1>3 DEF TsInv

\* No step of a client in ag_search_ts() breaks it.
LEMMA TsInvStep ==
  ASSUME TsInv, [TsNext]_ts_vars, WorkersBehavior = "start"
  PROVE  TsInv'
<1> USE SearchTsAssumption DEF TsInv, TsTypeOK, LockInv, AnswersOwnQuery, InSearch
<1>1. ASSUME NEW c \in Client, NEW q \in TsQuery, Call(c, q)
      PROVE  TsInv'
  BY <1>1 DEF Call, GoTo
<1>2. ASSUME NEW c \in Client, Lock(c)
      PROVE  TsInv'
  BY <1>2 DEF Lock, GoTo
<1>3. ASSUME NEW c \in Client, EnterWithWorkers(c)
      PROVE  TsInv'
  BY <1>3 DEF EnterWithWorkers, GoTo
<1>4. ASSUME NEW c \in Client, SetQuery(c)
      PROVE  TsInv'
  BY <1>4 DEF SetQuery, GoTo
<1>5. ASSUME NEW c \in Client, Search(c)
      PROVE  TsInv'
  BY <1>5 DEF Search, GoTo
<1>6. ASSUME NEW c \in Client, Unlock(c)
      PROVE  TsInv'
  BY <1>6 DEF Unlock, GoTo
<1>7. ASSUME UNCHANGED ts_vars
      PROVE  TsInv'
  BY <1>7 DEF ts_vars
<1> QED
  BY <1>1, <1>2, <1>3, <1>4, <1>5, <1>6, <1>7 DEF TsNext, Step

\* With workers that outlive a search, calls of ag_search_ts() by any number
\* of threads are sequential.
THEOREM OneClientAtATime ==
  ASSUME WorkersBehavior = "start"
  PROVE  TsSpec => []Sequential
<1>1. TsInit => TsInv
  BY TsInvInit
<1>2. TsInv /\ [TsNext]_ts_vars => TsInv'
  BY TsInvStep
<1>3. TsInv => Sequential
  BY DEF TsInv, LockInv, Sequential
<1> QED
  BY <1>1, <1>2, <1>3, PTL DEF TsSpec

\* And none of them gets the answer to another's query, although all of them
\* search for the one opts.query.
THEOREM OwnAnswers ==
  ASSUME WorkersBehavior = "start"
  PROVE  TsSpec => []AnswersOwnQuery
<1>1. TsInit => TsInv
  BY TsInvInit
<1>2. TsInv /\ [TsNext]_ts_vars => TsInv'
  BY TsInvStep
<1>3. TsInv => AnswersOwnQuery
  BY DEF TsInv
<1> QED
  BY <1>1, <1>2, <1>3, PTL DEF TsSpec

=============================================================================
