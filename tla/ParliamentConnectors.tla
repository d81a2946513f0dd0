------------------------ MODULE ParliamentConnectors ------------------------
(****************************************************************************)
(* The connectors of the parliamentary and national political sources:       *)
(* what each one does to the database, in the order its Go function does    *)
(* it.  An operator is named after the package and the function it models;  *)
(* the vocabulary is that of Scripts.  A lower-case function is a part of   *)
(* the exported one that calls it, and is a sequence of operations.         *)
(****************************************************************************)
EXTENDS Scripts

----------------------------------------------------------------------------
\* internal/an: Assemblée nationale

an_mergeAmendements == <<Unlink("core.amendement"), SyncOf("core.amendement", "ASSEMBLEE_NATIONALE")>>
an_attributeAmendements == <<SyncOf("core.amendement_author", "ASSEMBLEE_NATIONALE"),
    SyncOf("core.amendement_attribution", "ASSEMBLEE_NATIONALE")>>
an_IngestAmendements ==
    InOneTransaction(<<Fetch, Read>>, an_mergeAmendements \o an_attributeAmendements)
an_NormalizeDeports == WithoutRun(<<Read, Begin, Sync("core.deport"), Commit>>)
an_copyAuthors(table) == <<UpsertOf(table, "ASSEMBLEE_NATIONALE")>>
an_normalizeDocuments == <<Read, Begin, SyncOf("core.texte", "ASSEMBLEE_NATIONALE")>>
    \o an_copyAuthors("core.texte_author") \o <<Commit>>
an_linkScrutins == <<Read, Begin, UpsertOf("core.scrutin dossier", "ASSEMBLEE_NATIONALE"), Commit>>
an_NormalizeDossiers ==
    <<Read, Begin, SyncOf("core.dossier", "ASSEMBLEE_NATIONALE")>> \o an_copyAuthors("core.dossier_author")
    \o <<Commit>> \o an_normalizeDocuments \o an_linkScrutins
an_IngestExposes == Closing(<<EnsureSource, StartRun, Read>>
    \o Twice(<<Fetch, Upsert("core.texte_expose"), Upsert("core.texte_expose_verification")>>) \o <<EndRun>>)
an_ReparseExposes == WithoutRun(<<Read, Upsert("core.texte_expose")>>)
an_Download == Closing(Twice(<<EnsureSource, StartRun, Fetch, EndRun>>))
an_Extract == WithoutRun(<<Read, Upsert("raw.record")>>)
an_IngestInterventions == InOneTransaction(<<Fetch, Read>>, <<SyncOf("core.intervention", "ASSEMBLEE_NATIONALE")>>)
an_mergeBodies == <<Upsert("core.organization"), Upsert("core.organization_identifier")>>
an_normalizeBodies == <<Read, Begin>> \o an_mergeBodies \o <<Commit>>
an_mergeActors == <<Upsert("core.person"), Upsert("core.person_identifier")>>
an_normalizeActors == <<Read, Begin>> \o an_mergeActors \o <<Commit>>
an_copyMandates == <<UpsertOf("core.mandate", "ASSEMBLEE_NATIONALE")>>
an_copyAffiliations == <<UpsertOf("core.affiliation", "ASSEMBLEE_NATIONALE")>>
an_normalizeMandates == <<Read, Begin>> \o an_copyMandates \o an_copyAffiliations \o <<Commit>>
an_recordWatermark == <<Upsert("core.ingest_watermark")>>
an_copyScrutins == <<Begin, Upsert("core.scrutin"), Commit>>
an_insertGroupBallot == <<UpsertOf("core.ballot_group", "ASSEMBLEE_NATIONALE")>>
an_normalizeScrutins == <<Upsert("core.legislature"), Read>> \o an_copyScrutins \o an_insertGroupBallot
    \o <<Begin, Unlink("core.ballot"), SyncOf("core.ballot", "ASSEMBLEE_NATIONALE")>> \o an_recordWatermark \o <<Commit>>
an_Normalize ==
    WithoutRun(<<Read, Begin, Erase("core.ballot_group", "ASSEMBLEE_NATIONALE"), Erase("core.ballot", "ASSEMBLEE_NATIONALE"),
    Erase("core.affiliation", "ASSEMBLEE_NATIONALE"), Erase("core.mandate", "ASSEMBLEE_NATIONALE"), Erase("core.scrutin dossier", "ASSEMBLEE_NATIONALE"),
    Erase("core.dossier_author", "ASSEMBLEE_NATIONALE"), Erase("core.texte_author", "ASSEMBLEE_NATIONALE"), Commit>>
    \o an_normalizeBodies \o an_recordWatermark \o an_normalizeActors \o an_normalizeMandates
    \o an_normalizeScrutins \o an_NormalizeDossiers)
an_PromulgationDossiers == WithoutRun(<<Begin, Sync("core.dossier_promulgation"), Commit, Read>>)

----------------------------------------------------------------------------
\* internal/partis: reference lists of parties

\* CHES and PopuList: an error of the file ends the loop as its end does (ches.go:133-136),
\* so that what is loaded may be a part: CutShort, in Ingestion.
partis_upsertCHESParty == <<Read, Upsert("core.organization"), Upsert("core.organization_identifier")>>
partis_IngestCHES == Leaving(<<EnsureSource, StartRun, Fetch, Read, Upsert("ref.classification_set"),
    Erase("core.party_classification", "CHES")>> \o partis_upsertCHESParty
    \o <<UpsertOf("core.party_classification", "CHES"), EndRun>>)
partis_upsertParty == <<Read, Upsert("core.organization"), Upsert("core.organization_identifier")>>
partis_loadAccounts == partis_upsertParty \o <<Begin, Upsert("core.party_account_line"), Commit>>
partis_IngestAccounts ==
    Releasing(<<EnsureSource, Read>> \o Twice(<<StartRun, Fetch>> \o partis_loadAccounts \o <<EndRun>>))
partis_upsertClassifiedParty == <<Read, Upsert("core.organization"), Upsert("core.organization_identifier")>>
partis_IngestPopuList == Leaving(<<EnsureSource, StartRun, Fetch, Read, Upsert("ref.classification_set"),
    Erase("core.party_classification", "PopuList")>> \o partis_upsertClassifiedParty
    \o <<UpsertOf("core.party_classification", "PopuList"), EndRun>>)

----------------------------------------------------------------------------
\* internal/carto: editorial mapping

carto_currentRevision == <<Begin, Upsert("core.mapping_lineage"), Upsert("core.mapping_revision")>>
carto_Ingest == WithoutRun(carto_currentRevision \o <<SyncOf("core.party_group_link", "the revision"),
    SyncOf("core.party_referential_link", "the revision"), Commit>>)
carto_IngestGouvernements == WithoutRun(<<Begin, Sync("core.gouvernement"), Commit>>)
carto_IngestPresidents == WithoutRun(<<Begin, SyncOf("core.mandate", "PRESIDENT_REPUBLIQUE"),
    Upsert("core.person"), Commit>>)
carto_Themes == WithoutRun(<<Begin, Sync("derived.scrutin_topic"), Upsert("derived.coverage"), Commit>>)

----------------------------------------------------------------------------
\* internal/senat: Sénat

senat_IngestCommissions == Loads(<<SyncOf("core.affiliation", "SENAT"), Upsert("core.organization"),
    Upsert("core.organization_identifier")>>)
senat_MergePersons ==
    WithoutRun(<<Begin, Upsert("core.person"), Upsert("core.mandate"), Upsert("core.affiliation"),
    Upsert("core.ballot"), Commit>>)
senat_NormalizeMandates == WithoutRun(<<Begin, SyncOf("core.mandate", "SENAT"), Commit>>)
senat_NormalizePresentations == WithoutRun(<<Read, Begin, SyncOf("core.dossier_presentation", "SENAT"), Commit>>)
senat_restore == <<Read, Sync("senat_raw")>>
senat_votes == <<Begin, Unlink("core.ballot"), SyncOf("core.ballot", "SENAT"), Commit>>
senat_billsAndTopics ==
    <<Erase("core.topic_assignment", "SENAT"), Erase("core.dossier", "SENAT"), UpsertOf("core.dossier", "SENAT"),
      Upsert("ref.taxonomy"), Upsert("ref.topic"), UpsertOf("core.topic_assignment", "SENAT")>>
senat_extract == <<Erase("core.mandate", "SENAT"), Read, Upsert("core.legislature"), Upsert("core.person"),
    Upsert("core.person_identifier"), Upsert("core.scrutin")>> \o senat_votes \o senat_billsAndTopics
senat_Ingest ==
    Releasing(<<EnsureSource, StartRun, Fetch, Read, SkipIfRecorded>> \o senat_restore \o senat_extract
    \o <<Record, EndRun>>)
senat_IngestSenateurs == Loads(<<Upsert("core.person"), Upsert("core.person_identifier")>>)

----------------------------------------------------------------------------
\* internal/europe: European Parliament

europe_loadGroups == <<Read, Upsert("core.organization"), Upsert("core.organization_identifier")>>
europe_loadMembers == <<Read, Upsert("core.person"), Upsert("core.person_identifier")>>
europe_loadAffiliations == <<Erase("core.mandate", "PARLEMENT_EUROPEEN"), Erase("core.affiliation", "EP_GROUP"),
    UpsertOf("core.mandate", "PARLEMENT_EUROPEEN"), UpsertOf("core.affiliation", "EP_GROUP")>>
europe_loadVotes == <<Upsert("core.legislature"), Begin, Upsert("core.scrutin"), Commit>>
europe_loadNominalVotes == <<Begin, Unlink("core.ballot"), SyncOf("core.ballot", "PARLEMENT_EUROPEEN"), Commit>>
europe_loadEuroVoc == <<Upsert("ref.taxonomy"), Upsert("ref.topic"),
    Begin, SyncOf("core.topic_assignment", "PARLEMENT_EUROPEEN"), Commit>>
\* read ends on any error as on the end of a file (europe.go:225-229): CutShort, in Ingestion.
\* The watermark is read before the groups are loaded, and used after: only the
\* Record of this function writes it, so that it is read here, where it is used.
europe_Ingest ==
    Leaving(<<EnsureSource, StartRun, Fetch, Fetch, Read>> \o europe_loadGroups \o europe_loadMembers
    \o europe_loadAffiliations \o <<SkipIfRecorded>> \o europe_loadVotes \o europe_loadNominalVotes \o <<Record>>
    \o europe_loadEuroVoc \o <<EndRun>>)

----------------------------------------------------------------------------
\* internal/campagne: campaign accounts

\* the accounts of a ballot, then their lines
campagne_accountLines ==
    <<Unlink("core.compte_campagne_poste"), SyncOf("core.compte_campagne_poste", "the ballot")>>
campagne_Ingest == InOneTransaction(<<>>,
    Twice(<<Fetch, SyncOf("core.compte_campagne", "the ballot")>> \o campagne_accountLines))

----------------------------------------------------------------------------
\* internal/jorf: Journal officiel

jorf_IngestComplet ==
    Closing(<<EnsureSource, StartRun, Fetch, Sync("jo_staging.sommaire"), Upsert("jo_staging.sommaire"),
    Upsert("jo.sommaire"), Upsert("jo.texte"), Upsert("jo.lien"), Upsert("jo.bloc"), EndRun>>)
jorf_NormalizeElus == WithoutRun(<<Begin, Sync("ref.elu_recherche"), Commit, Erase("jo.acte_elu", All),
    UpsertOf("jo.acte_elu", All), Sync("jo.recherche_elu"), Read>>)
jorf_walkFullArchive == <<Begin, Upsert("core.acte_jo"), Commit>>
jorf_IngestGouvernement == Released(<<Fetch>>, jorf_walkFullArchive)
jorf_copyActs == <<Upsert("core.acte_jo")>>
jorf_copyMentions == <<SyncOf("core.acte_jo_mention", "the archive")>>
jorf_loadArchive == <<Begin>> \o jorf_copyActs \o jorf_copyMentions \o <<Commit>>
jorf_Ingest == Released(<<Fetch>>, Twice(<<Fetch>> \o jorf_loadArchive))
jorf_NormalizeMembres == WithoutRun(<<Read, Begin, Sync("core.gouvernement_membre"), Commit>>)

----------------------------------------------------------------------------
\* internal/presidentielle: presidential election

presidentielle_chargerMaires == <<Begin, SyncOf("core.parrainage_maire", "the election"), Commit>>
presidentielle_IngestParrainages == Released(<<>>,
    Twice(<<Fetch, Fetch, Begin, SyncOf("core.parrainage_presidentielle", "the election"), Commit>>
          \o presidentielle_chargerMaires))
presidentielle_IngestPopulation == Loads(<<Sync("core.population_age")>>)
presidentielle_Ingest == InOneTransaction(<<Read>>,
    Twice(<<Fetch, Upsert("core.pdr_resultat"), SyncOf("core.pdr_voix", "the round")>>))
presidentielle_IngestTurnout == Loads(<<Sync("core.turnout_election")>>)

----------------------------------------------------------------------------
\* internal/hatvp: declarations of interests

\* the items, then the persons that the declarations are of
hatvp_items == <<Unlink("core.declaration_item"), Sync("core.declaration_item"), Upsert("core.declaration")>>
hatvp_Ingest == Loads(<<Sync("core.declaration")>> \o hatvp_items)

----------------------------------------------------------------------------
\* internal/prefets: prefects

prefets_Ingest == Loads(<<Sync("core.prefet")>>)

----------------------------------------------------------------------------
\* internal/ingest: steps of internal/ingest

ingest_recalculerEmpreintes == WithoutRun(<<Read, Upsert("core.section_checksum")>>)
ingest_ingestMedia == <<Upsert("core.person"), Read>>

----------------------------------------------------------------------------
\* internal/media: portraits and logos

media_deleteExisting == <<Erase("core.media", "the target")>>
media_insert == media_deleteExisting \o <<UpsertOf("core.media", "the target")>>
media_Ingest ==
    Silent(ingest_ingestMedia \o <<EnsureSource, StartRun>> \o media_deleteExisting \o media_insert \o <<EndRun>>)
============================================================================
