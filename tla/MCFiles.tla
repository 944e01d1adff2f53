------------------------------ MODULE MCFiles ------------------------------
(***************************************************************************)
(* The modules between a disk and its files, on small instances.  They     *)
(* share no state; a behaviour exercises the part that is chosen in its    *)
(* first state, and the others stay as they begin.                         *)
(*   IDECopy:    sectors of eight bytes, reads of up to three sectors      *)
(*               from every position of two sectors                        *)
(*   PupCache:   two threads read up to three blocks of four, of which a   *)
(*               cache entry holds two                                     *)
(*   PupVolume:  two threads, blocks of two bytes of two bits, volumes of  *)
(*               8 to 30 blocks, whose sizes do not wrap                   *)
(*   CachePages: four pages of two cache entries                           *)
(*   Mkfs:       five lines of a session                                   *)
(***************************************************************************)
EXTENDS IDECopy, PupCache, PupVolume, CachePages

CONSTANT Parts

VARIABLES part,
          cmd_str_buffer, interactive, input, argument, typed, ram_disk, mounted, files, left, lines

AnyRead == [start : 0 .. 15, size : 0 .. 24]
ServedReads == {r \in AnyRead : Served(r)}

(* Lines of mkfs, a word or a character that sets words off in each place. *)
Commands ==
  { <<"interactive">>, <<"quit">>, <<"dir">>, <<"tree">>, <<"mkfrom", " ", "a">>,
    <<"mkdir", " ", "a">>, <<"mkdir", " ", "name", " ", "a">>,
    <<"cd">>, <<"cd", " ", "a">>, <<" ", "cd", " ", "a">>,
    <<"cd", " ", "a", " ", "b">>, <<"cd", " ", "a", "=", "b">>,
    <<"create", " ", "block_count", " ", "=", " ", "8">>,
    <<"create", " ", "block_count", "=", "30">>,
    <<"save", " ", "image", " ", "f">>, <<"save", " ", "image", "=", "fg">>,
    <<"save", " ", " ", "image">>,
    <<"mount", " ", "image", "=", "f">>, <<"mount", " ", "image", " ", "=", " ", "fg">> }

LessOf == [w \in {"a", "b", "8", "3", "f"} |-> "0"]
            @@ [w \in {"30", "fg"} |-> IF w = "30" THEN "3" ELSE "f"]

Mkfs == INSTANCE Mkfs WITH buffer <- cmd_str_buffer, volume <- mounted, Lines <- Commands,
          Counts <- {<<"3", 3>>, <<"8", 8>>, <<"30", 30>>}, FileNames <- {"f", "fg"}, Less <- LessOf,
          BufferSize <- 12, MaxLines <- 5

ASSUME CacheAssumption
ASSUME VolumeAssumption

mkfsVars == <<cmd_str_buffer, interactive, input, argument, typed, ram_disk, mounted, files, left, lines>>
allVars == <<part, vars, cacheVars, volumeVars, pagesVars, mkfsVars>>

AllInit ==
  /\ part \in Parts
  /\ Init /\ CacheInit /\ VolumeInit /\ PagesInit /\ Mkfs!Init
  /\ part = "copy" \/ request = CHOOSE r \in Requests : TRUE
  /\ part = "pages" \/ cur_page = 1

AllNext ==
  \/ part = "copy" /\ Next /\ UNCHANGED <<part, cacheVars, volumeVars, pagesVars, mkfsVars>>
  \/ part = "cache" /\ CacheNext /\ UNCHANGED <<part, vars, volumeVars, pagesVars, mkfsVars>>
  \/ part = "volume" /\ VolumeNext /\ UNCHANGED <<part, vars, cacheVars, pagesVars, mkfsVars>>
  \/ part = "pages" /\ PagesNext /\ UNCHANGED <<part, vars, cacheVars, volumeVars, mkfsVars>>
  \/ part = "mkfs" /\ Mkfs!Next /\ UNCHANGED <<part, vars, cacheVars, volumeVars, pagesVars>>

AllSpec == AllInit /\ [][AllNext]_allVars /\ Fairness

-----------------------------------------------------------------------------
(* The variables stay in their types. *)
TypesOK == TypeOK /\ CacheTypeOK

(* The properties of the instances, under names of their own. *)
SessionRight == Mkfs!SessionRight
=============================================================================
