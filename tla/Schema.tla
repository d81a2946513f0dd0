------------------------------- MODULE Schema -------------------------------
(****************************************************************************)
(* The foreign keys of db/migrations that decide which table locks meet:    *)
(* those towards the tables that some connector locks exclusively, and      *)
(* those towards raw.source.                                                *)
(****************************************************************************)
EXTENDS TLC

\* people and organizations
identityReferences ==
    "core.affiliation" :> {"core.organization", "core.person"}
 @@ "core.mandate" :> {"core.person"}
 @@ "core.organization_identifier" :> {"core.organization"}
 @@ "core.person_identifier" :> {"core.person"}

\* votes and texts
parlementReferences ==
    "core.amendement" :> {"core.lecture", "core.texte"}
 @@ "core.amendement_attribution" :> {"core.amendement", "core.organization"}
 @@ "core.amendement_author" :> {"core.amendement", "core.organization", "core.person"}
 @@ "core.ballot" :> {"core.organization", "core.person", "core.scrutin"}
 @@ "core.ballot_group" :> {"core.organization", "core.scrutin"}
 @@ "core.intervention" :> {"core.person"}
 @@ "core.scrutin" :> {"core.amendement", "core.lecture", "core.texte"}

\* the subjects that later migrations added
subjectReferences ==
    "core.commune_indicator" :> {"ref.commune", "ref.indicator"}
 @@ "core.topic_assignment" :> {"core.amendement", "core.scrutin", "core.texte"}
 @@ "core.party_group_link" :> {"core.organization"}
 @@ "core.party_classification" :> {"core.organization"}
 @@ "core.texte_author" :> {"core.organization", "core.person", "core.texte"}
 @@ "core.party_account_line" :> {"core.organization"}
 @@ "core.media" :> {"core.organization", "core.person"}
 @@ "core.dossier_author" :> {"core.organization", "core.person"}
 @@ "core.party_referential_link" :> {"core.organization"}
 @@ "derived.scrutin_topic" :> {"core.scrutin"}
 @@ "core.municipal_list" :> {"ref.commune", "ref.nuance_politique"}
 @@ "core.epci_competence" :> {"core.epci", "ref.competence"}
 @@ "core.epci_membre" :> {"core.epci", "ref.commune"}
 @@ "core.declaration" :> {"core.person"}
 @@ "core.declaration_item" :> {"core.declaration"}
 @@ "core.gouvernement" :> {"core.person"}
 @@ "core.commune_delinquance" :> {"ref.commune", "ref.indicateur_delinquance"}
 @@ "core.texte_expose" :> {"core.texte"}
 @@ "core.collectivite_budget" :> {"ref.indicator"}
 @@ "core.association" :> {"ref.commune"}
 @@ "core.deport" :> {"core.person"}
 @@ "core.compte_campagne" :> {"core.person"}
 @@ "core.compte_campagne_poste" :> {"core.compte_campagne"}
 @@ "core.acte_jo_mention" :> {"core.person"}
 @@ "core.gouvernement_membre" :> {"core.person"}
 @@ "jo.acte_elu" :> {"core.person"}
 @@ "ref.elu_recherche" :> {"core.person"}
 @@ "ref.fait_dossier" :> {"core.person"}
 @@ "core.texte_expose_verification" :> {"core.texte"}

references == identityReferences @@ parlementReferences @@ subjectReferences

\* the tables without a column source_id
unsourced ==
    {"core.acte_jo_mention", "core.affiliation", "core.amendement",
     "core.amendement_attribution", "core.amendement_author", "core.ballot",
     "core.ballot_group", "core.cbcr_agregat", "core.compte_campagne_poste",
     "core.declaration_item", "core.dette_observation", "core.dossier", "core.dossier_author",
     "core.dossier_promulgation", "core.entreprise", "core.entreprise_comptes",
     "core.epci_competence", "core.epci_membre", "core.eptb_epage_membre", "core.fats_controle",
     "core.fiscalite_pays", "core.gouvernement", "core.gouvernement_membre",
     "core.groupe_resultat_sec", "core.ide_revenu", "core.ingest_watermark", "core.legislature",
     "core.mandate", "core.mapping_lineage", "core.mapping_revision", "core.marche_numerique",
     "core.marche_public_cible", "core.media", "core.menage_heritage", "core.organization",
     "core.organization_identifier", "core.party_classification", "core.party_group_link",
     "core.party_referential_link", "core.pdr_voix", "core.person", "core.person_identifier",
     "core.qualification_secnumcloud", "core.revenu_part_groupe", "core.sanction_cnil",
     "core.scrutin", "core.section_checksum", "core.sill_logiciel", "core.texte",
     "core.texte_author", "core.texte_expose_verification", "core.topic_assignment",
     "derived.coverage", "derived.scrutin_topic", "geo.territoire_colonial", "jo.acte_elu",
     "jo.bloc", "jo.lien", "jo.recherche_elu", "jo.sommaire", "jo.texte", "raw.record",
     "ref.acteur_numerique", "ref.bulletin_cas", "ref.circonscription_variable", "ref.commune",
     "ref.commune_change", "ref.competence", "ref.dossier_mission", "ref.dossier_terme",
     "ref.elu_recherche", "ref.groupe_statut_fiscal", "ref.indicateur_delinquance",
     "ref.macro_serie", "ref.poste_fiscal", "ref.produit_alimentaire", "ref.taxonomy",
     "ref.topic"}

foreignKeys(t) ==
    (IF t \in DOMAIN references THEN references[t] ELSE {})
    \union (IF t \in unsourced THEN {} ELSE {"raw.source"})
============================================================================
