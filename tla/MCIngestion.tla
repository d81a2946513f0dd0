----------------------------- MODULE MCIngestion -----------------------------
\* The catalogue of sources on the connections and the graph of the code:
\* every source alone, and the sources that meet.
EXTENDS Catalogue, Schema, Ingestion

\* every source: as the default chain runs it, or as it is asked for by itself
everySource(sources) == registreComplet(sources) @@ sources
MCChain == everySource(catalogue)
MCForeignKeys(t) == foreignKeys(t)

\* the pairs that write a same table, in the default chain and in the catalogue,
\* which a category or the full command launches by the waves of its dependencies;
\* of the parts of fiscalite, ten alike, two beside the whole
Tables(s) == {op.table : op \in {o \in OpsOf(s) : o.do \in Writes}}
Neighbours == {c \in {{a, b} : a, b \in DOMAIN MCChain} :
    /\ Cardinality(c) = 2
    /\ \E a \in c : \E b \in c \ {a} : Tables(a) \intersect Tables(b) # {}
    /\ "fiscalite" \in c => c \ {"fiscalite"} \subseteq {"fiscalite-comptes", "fiscalite-ide"}}

MCCrews ==
    {{s} : s \in DOMAIN MCChain} \union Neighbours
    \union {{"ademe", "minimis"}, {"aides-nominatives", "tam"}, {"communes-collectivites", "sdis"},
            {"macro-rsa", "sdis"}, {"hatvp", "campagne"}, {"amendements", "europe"},
            {"controle-fiscal", "ecart-prix-dom", "francophonie", "accord-paris"}}
\* what the Assemblée, the Sénat, the European Parliament, the lists of parties,
\* the media and the two bulk readings of the JORF delete before they load
MCErasedFirst ==
    {"core.ballot_group", "core.ballot", "core.affiliation", "core.mandate", "core.scrutin dossier",
     "core.dossier_author", "core.texte_author"} \X {"ASSEMBLEE_NATIONALE"}
    \union {"core.dossier", "core.mandate", "core.topic_assignment"} \X {"SENAT"}
    \union {<<"core.mandate", "PARLEMENT_EUROPEEN">>, <<"core.affiliation", "EP_GROUP">>}
    \union {"core.party_classification"} \X {"CHES", "PopuList"}
    \union {<<"core.media", "the target">>}
    \union {<<"jo.acte_elu", All>>, <<"jo_staging.sommaire", "jorf-complet">>}
\* The loops that end on an error as on the end of what they read.  Files: the
\* European Parliament, the lists and the accounts of parties, the SSMSI, ...
\* Rows of the database, whose error nobody asks for: the Assemblée, ...
MCCutShort ==
    {"core.organization", "core.organization_identifier", "core.person", "core.person_identifier",
     "core.scrutin"} \X {"europe", "normalize"}
    \union {"core.organization", "core.organization_identifier", "core.party_account_line"} \X {"partis"}
    \union {"core.party_classification"} \X {"CHES", "PopuList"}
    \union {"core.mandate", "core.ballot", "core.topic_assignment"} \X {"PARLEMENT_EUROPEEN"}
    \union {"core.mandate", "core.affiliation", "core.ballot_group", "core.ballot", "core.dossier",
            "core.dossier_author", "core.texte", "core.texte_author", "core.scrutin dossier"}
           \X {"ASSEMBLEE_NATIONALE"}
    \union {"core.texte_expose", "core.texte_expose_verification"} \X {"exposes", "exposes-reparse"}
    \union {"ref.indicateur_delinquance"} \X {"communes-ssmsi", "ssmsi"}
    \union {<<"core.affiliation", "EP_GROUP">>, <<"ref.topic", "europe">>,
            <<"ref.produit_alimentaire", "agriculture">>,
            <<"core.pdr_resultat", "presidentielle">>, <<"core.pdr_voix", "the round">>,
            <<"core.indicateur_mondial", "esperance">>, <<"core.indicateur_mondial", "depense">>}
    \union {"core.association", "core.commune_delinquance", "core.education_depense_eleve",
            "core.education_effectif_eleves_historique", "core.bilan_alimentaire",
            "core.agriculture_indicateur", "core.deport", "core.gouvernement_membre",
            "core.entreprise_comptes", "core.marche_public_cible", "core.eptb_epage",
            "core.eptb_epage_membre"} \X {All}
\* two runs of a source alone, whose only partner is the crash of the process
MCMaxStarts(c) == IF Cardinality(c) = 1 THEN 2 ELSE 1
\* and one group of rows in part, which is nothing to the other sources
MCMaxParts(c) == IF Cardinality(c) = 1 THEN 1 ELSE 0
============================================================================
