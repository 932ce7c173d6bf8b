----------------------------- MODULE Migrations -----------------------------
(***************************************************************************)
(* The migrations of the database (up of 2024-07-01_initial_create.mts and *)
(* of 2024-11-16_game_metadata_support.mts), statement by statement, and   *)
(* what the rest of the code takes for granted of the schema they make:    *)
(* the types of AppDatabase.mts and the columns that upserts name.         *)
(***************************************************************************)
EXTENDS Schema

TagTables == <<
  CreateTable("tag_category", {"tag_category", "description"}, {{"tag_category"}}, {}),
  Insert("tag_category", {"tag_category", "description"}),
  CreateTable("tag", {"tag_category", "tag", "tag_name"},
    {{"tag_category", "tag"}, {"tag_category", "tag_name"}},
    {To("tag_category", "tag_category")}),
  CreateTable("official_tag", {"tag_category", "tag", "tfgames_tag_id"},
    {{"tag_category", "tag"}, {"tfgames_tag_id"}},
    {Reference({"tag_category", "tag"}, "tag", {"tag_category", "tag"})}) >>

FilesystemTables == <<
  CreateTable("node_type", {"node_type", "name"}, {{"node_type"}}, {}),
  Insert("node_type", {"node_type", "name"}),
  CreateTable("node", {"node_no", "node_type"}, {{"node_no"}}, {To("node_type", "node_type")}),
  CreateTable("node_directory", {"directory_no"}, {{"directory_no"}},
    {Reference({"directory_no"}, "node", {"node_no"})}),
  CreateTable("node_member", {"node_no", "name", "node_no_parent"},
    {{"node_no"}, {"node_no_parent", "name"}},
    {To("node", "node_no"), Reference({"node_no_parent"}, "node_directory", {"directory_no"})}),
  CreateTable("node_file_content", {"blake3_hash", "size", "data"}, {{"blake3_hash"}}, {}),
  CreateTable("node_file", {"file_no", "unix_mode", "blake3_hash"}, {{"file_no"}},
    {Reference({"file_no"}, "node", {"node_no"}), To("node_file_content", "blake3_hash")}),
  CreateIndex("node_file_____blake3_hash", "node_file", "blake3_hash"),
  Insert("node", {"node_no", "node_type"}),
  Insert("node_directory", {"directory_no"}),
  Insert("node_member", {"node_no", "name", "node_no_parent"}) >>

GameTables == <<
  CreateTable("game", {"game_id"}, {{"game_id"}}, {}),
  CreateTable("game_description",
    {"game_id", "name", "last_change_datetime", "last_played_datetime", "user_rating", "note"},
    {{"game_id"}}, {To("game", "game_id")}),
  CreateIndex("game_description_____name", "game_description", "name"),
  CreateIndex("game_description_____last_change_datetime",
    "game_description", "last_change_datetime"),
  CreateIndex("game_description_____last_played_datetime",
    "game_description", "last_played_datetime"),
  CreateTable("game_tag", {"tag_category", "tag", "game_id"},
    {{"tag_category", "tag", "game_id"}}, {To("game", "game_id")}),
  CreateIndex("game_tag_____game_id", "game_tag", "game_id") >>

ListingTables == <<
  CreateTable("game_official_listing",
    {"game_id", "tfgames_game_id", "name", "num_likes", "last_update_datetime"},
    {{"game_id"}, {"tfgames_game_id"}}, {To("game", "game_id")}),
  CreateIndex("game_official_listing_____name", "game_official_listing", "name"),
  CreateIndex("game_official_listing_____num_likes", "game_official_listing", "num_likes"),
  CreateIndex("game_official_listing_____last_update_datetime",
    "game_official_listing", "last_update_datetime"),
  CreateTable("game_official_blacklist", {"game_id", "last_crawl_datetime"},
    {{"game_id"}}, {To("game_official_listing", "game_id")}),
  CreateTable("game_official_listing_details",
    {"game_id", "last_crawl_datetime", "release_datetime", "synopsis"},
    {{"game_id"}}, {To("game_official_listing", "game_id")}),
  CreateTable("tfgames_author", {"tfgames_profile_id", "username"},
    {{"tfgames_profile_id"}, {"username"}}, {}),
  CreateTable("game_official_tfgames_author", {"game_id", "tfgames_profile_id"},
    {{"game_id", "tfgames_profile_id"}},
    {To("game", "game_id"), To("tfgames_author", "tfgames_profile_id")}),
  CreateIndex("game_official_tfgames_author_____tfgames_profile_id",
    "game_official_tfgames_author", "tfgames_profile_id") >>

ToVersion == Reference({"game_id", "version"}, "game_version", {"game_id", "version"})

VersionTables == <<
  CreateTable("game_version", {"game_id", "version", "note"},
    {{"game_id", "version"}}, {To("game", "game_id")}),
  CreateTable("game_version_source", {"game_id", "version", "uri", "official_note"},
    {{"game_id", "version", "uri"}}, {ToVersion}),
  CreateTable("artifact_platform", {"platform_type", "name", "user_defined"},
    {{"platform_type"}, {"name"}}, {}),
  Insert("artifact_platform", {"platform_type", "name", "user_defined"}),
  CreateTable("game_version_artifact", {"game_id", "version", "platform_type", "node_no"},
    {{"game_id", "version", "platform_type"}, {"node_no"}},
    {ToVersion, To("artifact_platform", "platform_type")}) >>

OutdatedView == <<
  CreateView("game_official_listing_outdated_v",
    {"game_id", "tfgames_game_id", "name", "last_update_datetime", "last_crawl_datetime"},
    {[table |-> "game_official_listing",
      columns |-> {"game_id", "tfgames_game_id", "name", "last_update_datetime"}],
     [table |-> "game_official_listing_details",
      columns |-> {"game_id", "last_crawl_datetime"}],
     [table |-> "game_official_blacklist",
      columns |-> {"game_id", "last_crawl_datetime"}]}) >>

InitialCreate ==
  TagTables \o FilesystemTables \o GameTables \o ListingTables \o VersionTables \o OutdatedView

(* One platform goes, the official tags come. *)
OfficialTags == <<
  Delete("artifact_platform", "platform_type"),
  InsertUnless("tag", {"tag_category", "tag", "tag_name"}, {"tag_category", "tag"}),
  InsertUnless("official_tag", {"tag_category", "tag", "tfgames_tag_id"},
    {"tag_category", "tag"}) >>

(* Mutant: the column keeps its name. *)
UserNotesNamed == <<
  DropIndex("game_description_____name"),
  DropIndex("game_description_____last_change_datetime"),
  DropIndex("game_description_____last_played_datetime"),
  RenameTable("game_description", "game_user_notes") >>

UserNotes == <<
  DropIndex("game_description_____name"),
  DropIndex("game_description_____last_change_datetime"),
  DropIndex("game_description_____last_played_datetime"),
  RenameTable("game_description", "game_user_notes"),
  RenameColumn("game_user_notes", "name", "custom_name"),
  CreateIndex("game_user_notes_____custom_name", "game_user_notes", "custom_name"),
  CreateIndex("game_user_notes_____last_change_datetime",
    "game_user_notes", "last_change_datetime"),
  CreateIndex("game_user_notes_____last_played_datetime",
    "game_user_notes", "last_played_datetime") >>

MetadataTables == <<
  CreateTable("game_metadata",
    {"game_id", "metadata_timestamp", "name", "tfgames_site_game_id", "synopsis",
     "full_description", "last_update_datetime"},
    {{"game_id"}}, {To("game", "game_id")}),
  CreateIndex("game_metadata_____name", "game_metadata", "name"),
  CreateIndex("game_metadata_____last_update_datetime",
    "game_metadata", "last_update_datetime"),
  CreateTable("author",
    {"author_id", "metadata_timestamp", "name", "tfgames_site_profile_id"},
    {{"author_id"}, {"tfgames_site_profile_id"}}, {}),
  CreateIndex("author_____name", "author", "name"),
  CreateTable("game_author", {"game_id", "author_id"}, {{"game_id", "author_id"}},
    {To("game", "game_id"), To("author", "author_id")}),
  CreateIndex("game_author_____author_id", "game_author", "author_id"),
  DropIndex("game_official_tfgames_author_____tfgames_profile_id"),
  DropTable("game_official_tfgames_author"),
  DropTable("tfgames_author") >>

GameMetadataSupport == OfficialTags \o UserNotes \o MetadataTables

(* In the order of the names of their files. *)
Up == <<InitialCreate, GameMetadataSupport>>
Latest == Len(Up)

(* After[n]: the schema of a database on which n migrations have run. *)
After ==
  LET after[n \in 0 .. Latest] == IF n = 0 THEN NoSchema ELSE Run(after[n - 1], Up[n])
  IN after

(* Migration m can be executed on the schema that n migrations have made. *)
Runs == [n \in 0 .. Latest |-> [m \in 1 .. Latest |-> ~Run(After[n], Up[m]).broken]]

(* Each migration can be executed after those before it, as TLC finds out  *)
(* by executing them.                                                      *)
ASSUME MigrationsFit == \A n \in 0 .. Latest - 1 : Runs[n][n + 1]

-----------------------------------------------------------------------------
TagColumns == [
  tag_category |-> {"tag_category", "description"},
  tag          |-> {"tag_category", "tag", "tag_name"},
  official_tag |-> {"tag_category", "tag", "tfgames_tag_id"},
  game_tag     |-> {"tag_category", "tag", "game_id"}]

FilesystemColumns == [
  node_type         |-> {"node_type", "name"},
  node              |-> {"node_no", "node_type"},
  node_directory    |-> {"directory_no"},
  node_member       |-> {"node_no", "name", "node_no_parent"},
  node_file         |-> {"file_no", "unix_mode", "blake3_hash"},
  node_file_content |-> {"blake3_hash", "size", "data"}]

GameColumns == [
  game            |-> {"game_id"},
  game_user_notes |-> {"game_id", "custom_name", "last_change_datetime",
                       "last_played_datetime", "user_rating", "note"},
  game_metadata   |-> {"game_id", "metadata_timestamp", "name", "tfgames_site_game_id",
                       "synopsis", "full_description", "last_update_datetime"},
  game_official_listing |->
    {"game_id", "tfgames_game_id", "name", "num_likes", "last_update_datetime"},
  game_official_blacklist |-> {"game_id", "last_crawl_datetime"},
  game_official_listing_details |->
    {"game_id", "last_crawl_datetime", "release_datetime", "synopsis"},
  game_official_listing_outdated_v |->
    {"game_id", "tfgames_game_id", "name", "last_update_datetime", "last_crawl_datetime"}]

VersionColumns == [
  game_version          |-> {"game_id", "version", "note"},
  artifact_platform     |-> {"platform_type", "name", "user_defined"},
  game_version_artifact |-> {"game_id", "version", "platform_type", "node_no"},
  game_version_source   |-> {"game_id", "version", "uri", "official_note"}]

AuthorColumns == [
  author      |-> {"author_id", "metadata_timestamp", "name", "tfgames_site_profile_id"},
  game_author |-> {"game_id", "author_id"}]

(* The types the queries are written against. *)
AppDatabase ==
  TagColumns @@ FilesystemColumns @@ GameColumns @@ VersionColumns @@ AuthorColumns

(* The columns named by ON CONFLICT: SQLite refuses them unless they are a *)
(* key of the table.                                                       *)
Upserts == {[table |-> "game_version", key |-> {"game_id", "version"}],
            [table |-> "node_file_content", key |-> {"blake3_hash"}]}

(* The columns of each table and view. *)
ColumnsOf(s) == [t \in DOMAIN s.tables |-> s.tables[t].columns]
                @@ [v \in DOMAIN s.views |-> s.views[v].columns]

(* A statement that changes a table with a reference fails unless what is  *)
(* referred to is a key.                                                   *)
ReferencesKeys(s) ==
  \A t \in DOMAIN s.tables : \A r \in s.tables[t].references :
    /\ r.columns \subseteq s.tables[t].columns
    /\ r.table \in DOMAIN s.tables /\ r.parents \in s.tables[r.table].keys

(* The schema is the one the code is written for. *)
Serves(s) ==
  /\ ~s.broken
  /\ ColumnsOf(s) = AppDatabase
  /\ ViewsResolve(s) /\ ReferencesKeys(s)
  /\ \A u \in Upserts : u.key \in s.tables[u.table].keys
=============================================================================
