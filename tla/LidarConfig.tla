------------------------------ MODULE LidarConfig ------------------------------
(***************************************************************************)
(* The configuration file of the lidar driver: what ParseCfgFile and       *)
(* LivoxLidarConfigParser take from it, and what InitLivoxLidar puts into  *)
(* the device table.                                                       *)
(*                                                                         *)
(* A document is whether it can be opened and is JSON, the lidar type (or  *)
(* NULL) and the entries of lidar_configs; an entry is the lidar its "ip"  *)
(* names (or NULL) and the options it gives, as integers.                  *)
(***************************************************************************)
EXTENDS Integers, FiniteSetsExt, SequenceSelection

CONSTANTS
  Options,       (* pcl_data_type, pattern_mode, blind_spot_set, ...        *)
  MaxSource,     (* kMaxSourceLidar, size of the device table               *)
  NULL

kLivoxLidarType == 8
NotGiven == -1

(* static_cast<int8_t> *)
Int8(v) == ((v + 128) % 256) - 128

(* The type is kept as a byte, and its bits are the families of lidars. *)
ParseSummaryInfo(file) == file.opens /\ file.parses /\ file.lidar_type # NULL
InitLidars(file) == ParseSummaryInfo(file) /\ (file.lidar_type \div kLivoxLidarType) % 2 = 1

UserConfig(entry) ==
  [o \in Options |-> IF o \in DOMAIN entry.given THEN Int8(entry.given[o]) ELSE NotGiven]

(* Entries without an address are passed over. *)
ParseUserConfigs(entries) ==
  Select(entries, {entries[k] : k \in {j \in DOMAIN entries : entries[j].ip # NULL}})

(* Whatever is wrong with the file, InitLivoxLidar goes on without entries. *)
Parse(file) == IF file.opens /\ file.parses THEN ParseUserConfigs(file.entries) ELSE << >>

(* CacheIndex::GetFreeIndex: the entry a lidar has, or one that is free. *)
HasIndex(registered, h) == h \in registered \/ Cardinality(registered) < MaxSource

(* Mutant: a lidar that has an entry keeps it. *)
Put_first(table, entry) ==
  IF HasIndex(DOMAIN table, entry.ip) /\ entry.ip \notin DOMAIN table
  THEN [h \in DOMAIN table \cup {entry.ip} |->
          IF h = entry.ip THEN UserConfig(entry) ELSE table[h]]
  ELSE table

(* Of two entries for a lidar the later one counts, and one for which there *)
(* is no room is passed over.                                               *)
Put(table, entry) ==
  IF HasIndex(DOMAIN table, entry.ip)
  THEN [h \in DOMAIN table \cup {entry.ip} |->
          IF h = entry.ip THEN UserConfig(entry) ELSE table[h]]
  ELSE table

(* The device table after each of the entries ... *)
Tables(entries) ==
  LET table[n \in 0 .. Len(entries)] ==
        IF n = 0 THEN << >> ELSE Put(table[n - 1], entries[n])
  IN table

(* ... and after the last. *)
InitLivoxLidar(file) == Tables(Parse(file))[Len(Parse(file))]
===============================================================================
