---------------------------- MODULE Publications ----------------------------
(***************************************************************************)
(* The documents the API gives to machines: feeds of the site, of a member *)
(* and of a playlist (feeds.service.ts), the sitemap (sitemap.service.ts), *)
(* previews (preview.service.ts).  Their readers keep what they were given *)
(* for years: addresses, and the last copy of a document, which they renew *)
(* by its ETag.  Names that differ only by their case are not in question: *)
(* Accounts says when there may be any.                                    *)
(***************************************************************************)
EXTENDS Integers, FiniteSets, SequencesExt

CONSTANTS
  Deposants,   \* accounts
  Appels,      \* usernames
  SansNom,     \* no username yet
  Parti,       \* the account is deleted
  SlugsPris,   \* slugs
  MaxItems,    \* FEED_MAX_ITEMS
  MaxParus,    \* bound: mixes ever created
  MaxActes     \* bound: changes

ASSUME PublicationsAssumption ==
  /\ {SansNom, Parti} \cap Appels = {} /\ SansNom # Parti /\ IsFiniteSet(Deposants)
  /\ MaxItems \in Nat /\ MaxParus \in Nat /\ MaxActes \in Nat

VARIABLES
  noms,        \* the username of each account
  parus,       \* mixes in the order of creation; an identifier is never given again
  liste,       \* the mixes of one playlist, by position
  actes,       \* changes so far
  requete,     \* a request that takes several queries: what it has read
  lien,        \* an address some reader holds, and what it was given for
  copie        \* a copy some reader holds

publicationsVars == <<noms, parus, liste, actes, requete, lien, copie>>

-----------------------------------------------------------------------------
Presents == {i \in DOMAIN parus : parus[i].la}
De(c) == {i \in Presents : parus[i].auteur = c}
Nommes == {c \in Deposants : noms[c] \in Appels}
PasLu == SansNom
Audios == {"fichier", "distant", "cadre"}
NouveauMix(c, s, a) == [auteur |-> c, slug |-> s, audio |-> a, titre |-> 1, la |-> TRUE]
Corrige(m, a) == [m EXCEPT !.titre = 3 - @, !.audio = a]
Retire(m) == [m EXCEPT !.la = FALSE]
SansRequete == [doc |-> <<"aucun">>, mixes |-> PasLu, comptes |-> PasLu, intacte |-> FALSE]
SansCopie == [doc |-> <<"aucun">>, contenu |-> <<>>, etag |-> <<>>, fraiche |-> FALSE]

PublicationsInit ==
  /\ noms \in [Deposants -> Appels \cup {SansNom}]
  /\ \A c, d \in Nommes : noms[c] = noms[d] => c = d
  /\ \E c, d \in Deposants, s, t \in SlugsPris, a \in Audios :
       /\ c = d => s # t
       /\ parus = <<NouveauMix(c, s, a), NouveauMix(d, t, a)>>
  /\ liste \in {<<>>, <<2, 1>>} /\ actes = 0
  /\ requete = SansRequete /\ lien = [adresse |-> <<"accueil">>, objet |-> <<"site">>]
  /\ copie = SansCopie

\* pagePourMix: the old address while the account has no name.
AdresseCanonique(i) ==
  IF parus[i].auteur \in Nommes THEN <<"mixes", noms[parus[i].auteur], parus[i].slug>>
  ELSE <<"mixes id", i>>

\* audioSourceFor: the player of Mixcloud has no file.
Adressable(i) == parus[i].audio \in {"fichier", "distant"}

Entree(adresse, objet, titre, piece) ==
  [adresse |-> adresse, objet |-> objet, titre |-> titre, piece |-> piece]

\* toFeedItem
Item(i) ==
  Entree(<<"mixes id", i>>, <<"mix", i>>, parus[i].titre,
         IF Adressable(i) THEN <<"audio", i>> ELSE <<>>)

Premiers(s) == SubSeq(s, 1, IF Len(s) < MaxItems THEN Len(s) ELSE MaxItems)
Items(s) == [k \in DOMAIN Premiers(s) |-> Item(s[k])]
Recents(mixes) == SetToSortSeq(mixes, LAMBDA i, k : i > k)

\* SitemapService.build, once it has its rows; their dates, which order them, are
\* left out.
LignesDeComptes == {<<c, noms[c]>> : c \in Nommes}
Plan(mixes, comptes) ==
  SetToSeq({Entree(<<"mixes id", i>>, <<"mix", i>>, 0, <<>>) : i \in mixes}
           \cup {Entree(<<"users", l[2]>>, <<"compte", l[1]>>, 0, <<>>) : l \in comptes})

FluxDuSite == Items(Recents(Presents))
FluxDuMembre(c) == Items(Recents(De(c)))
FluxDePlaylist == Items(liste)

\* Previews; <<>> for a 404.
ApercuDuMix(i) ==
  IF i \notin Presents THEN <<>>
  ELSE <<Entree(AdresseCanonique(i), <<"mix", i>>, parus[i].titre, Item(i).piece)>>

ApercuDuMembre(c) ==
  IF c \notin Nommes THEN <<>>
  ELSE <<Entree(<<"users", noms[c]>>, <<"compte", c>>, Len(Recents(De(c))), <<>>)>>

ApercuDePlaylist == <<Entree(<<"playlists">>, <<"playlist">>, Len(liste), <<>>)>>

\* The document of each address as the database is now.
Rendu(doc) ==
  CASE doc[1] = "site"     -> FluxDuSite
    [] doc[1] = "membre"   -> FluxDuMembre(doc[2])
    [] doc[1] = "playlist" -> FluxDePlaylist
    [] doc[1] = "plan"     -> Plan(Presents, LignesDeComptes)
    [] doc[1] = "apercu"   -> ApercuDuMix(doc[2])
    [] doc[1] = "profil"   -> ApercuDuMembre(doc[2])
    [] doc[1] = "vignette" -> ApercuDePlaylist

\* Mutant: the ETag of the first plan, the number of items and what dates them.
EmpreinteDuPerimetre(contenu) == {<<Len(contenu), e.objet, e.titre>> : e \in ToSet(contenu)}

\* etagOf: the hash of the document itself.
Empreinte(contenu) == contenu

-----------------------------------------------------------------------------
\* sendFeed and the two `serve`: a 304 when the reader has this very document,
\* the document otherwise.
Servir(doc, contenu, intacte) ==
  /\ copie' = IF copie.doc = doc /\ copie.etag = Empreinte(contenu)
              THEN [copie EXCEPT !.fraiche = intacte]
              ELSE [doc |-> doc, contenu |-> contenu, etag |-> Empreinte(contenu),
                    fraiche |-> intacte]
  /\ lien' \in IF contenu = <<>> THEN {lien}
              ELSE {[adresse |-> e.adresse, objet |-> e.objet] : e \in ToSet(contenu)}
  /\ UNCHANGED <<noms, parus, liste, actes>>

\* Documents of one query.
LireDocument(doc) == Servir(doc, Rendu(doc), TRUE) /\ UNCHANGED requete
DemanderFeed(doc) == doc[1] \in {"site", "playlist"} /\ LireDocument(doc)
DemanderApercu(doc) == doc[1] \in {"apercu", "profil", "vignette"} /\ Rendu(doc) # <<>> /\ LireDocument(doc)

\* FeedsService.user finds the account by its name, then its mixes.
DemanderMembre(c) ==
  /\ requete = SansRequete /\ c \in Nommes
  /\ requete' = [doc |-> <<"membre", c>>, mixes |-> PasLu, comptes |-> {<<c, noms[c]>>}, intacte |-> TRUE]
  /\ UNCHANGED <<noms, parus, liste, actes, lien, copie>>

\* SitemapService.build sends its queries together.
DemanderPlan ==
  /\ requete = SansRequete
  /\ requete' = [doc |-> <<"plan">>, mixes |-> PasLu, comptes |-> PasLu, intacte |-> TRUE]
  /\ UNCHANGED <<noms, parus, liste, actes, lien, copie>>

LireMixesDuPlan ==
  /\ requete.doc = <<"plan">> /\ requete.mixes = PasLu
  /\ requete' = [requete EXCEPT !.mixes = Presents]
  /\ UNCHANGED <<noms, parus, liste, actes, lien, copie>>

LireComptesDuPlan ==
  /\ requete.doc = <<"plan">> /\ requete.comptes = PasLu
  /\ requete' = [requete EXCEPT !.comptes = LignesDeComptes]
  /\ UNCHANGED <<noms, parus, liste, actes, lien, copie>>

RepondrePlan ==
  /\ requete.doc = <<"plan">> /\ PasLu \notin {requete.mixes, requete.comptes}
  /\ Servir(requete.doc, Plan(requete.mixes, requete.comptes), requete.intacte)
  /\ requete' = SansRequete

RepondreMembre ==
  /\ requete.doc[1] = "membre"
  /\ Servir(requete.doc, Rendu(requete.doc), requete.intacte)
  /\ requete' = SansRequete

-----------------------------------------------------------------------------
\* Something changes: no copy is known to be of the day any more.
Bouger ==
  /\ actes < MaxActes /\ actes' = actes + 1
  /\ copie' = [copie EXCEPT !.fraiche = FALSE]
  /\ requete' = [requete EXCEPT !.intacte = FALSE]
  /\ UNCHANGED lien

\* MixesService.create: a slug no other mix of the account has.
Deposer(c, s, a) ==
  /\ Bouger /\ noms[c] # Parti /\ Len(parus) < MaxParus
  /\ \A i \in De(c) : parus[i].slug # s
  /\ parus' = Append(parus, NouveauMix(c, s, a))
  /\ UNCHANGED <<noms, liste>>

\* MixesService.update: the title changes and the slug stays, a source may be
\* corrected into one of the other kind.
Retoucher(i, a) ==
  /\ Bouger /\ i \in Presents
  /\ a # parus[i].audio => "fichier" \notin {a, parus[i].audio}
  /\ parus' = [parus EXCEPT ![i] = Corrige(parus[i], a)]
  /\ UNCHANGED <<noms, liste>>

\* MixesService.remove; the items of playlists go with the row.
OterMix(i) ==
  /\ Bouger /\ i \in Presents
  /\ parus' = [parus EXCEPT ![i] = Retire(parus[i])]
  /\ liste' = SelectSeq(liste, LAMBDA k : k # i) /\ UNCHANGED noms

\* setUsername, once, to a name nobody has.
Nommer(c, n) ==
  /\ Bouger /\ noms[c] = SansNom /\ n \notin {noms[d] : d \in Deposants}
  /\ noms' = [noms EXCEPT ![c] = n] /\ UNCHANGED <<parus, liste>>

\* deleteAccount: the mixes of the account go with it, and its name is free.
QuitterSite(c) ==
  /\ Bouger /\ noms[c] # Parti
  /\ noms' = [noms EXCEPT ![c] = Parti]
  /\ parus' = [i \in DOMAIN parus |-> IF parus[i].auteur = c THEN Retire(parus[i]) ELSE parus[i]]
  /\ liste' = SelectSeq(liste, LAMBDA k : parus[k].auteur # c)

\* addMix at the end, or removeMix.
Ranger(i) ==
  /\ Bouger /\ i \in Presents
  /\ liste' = IF i \in ToSet(liste) THEN SelectSeq(liste, LAMBDA k : k # i) ELSE Append(liste, i)
  /\ UNCHANGED <<noms, parus>>

PublicationsNext ==
  \/ DemanderFeed(<<"site">>) \/ DemanderFeed(<<"playlist">>) \/ DemanderApercu(<<"vignette">>)
  \/ \E i \in DOMAIN parus : DemanderApercu(<<"apercu", i>>)
  \/ \E c \in Deposants : DemanderApercu(<<"profil", c>>) \/ DemanderMembre(c)
  \/ DemanderPlan \/ LireMixesDuPlan \/ LireComptesDuPlan \/ RepondrePlan \/ RepondreMembre
  \/ \E c \in Deposants, s \in SlugsPris, a \in Audios : Deposer(c, s, a)
  \/ \E i \in DOMAIN parus, a \in Audios : Retoucher(i, a)
  \/ \E i \in DOMAIN parus : OterMix(i) \/ Ranger(i)
  \/ \E c \in Deposants, n \in Appels : Nommer(c, n)
  \/ \E c \in Deposants : QuitterSite(c)

-----------------------------------------------------------------------------
\* What an address leads to, on the site or on the API: findOne, findBySlug,
\* getPublicProfile.
ParIdentifiant(i) == {<<"mix", k>> : k \in Presents \cap {i}}
ParSlug(nom, slug) ==
  {<<"mix", k>> : k \in {i \in Presents : parus[i].slug = slug /\ noms[parus[i].auteur] = nom}}
ParNom(nom) == {<<"compte", c>> : c \in {d \in Nommes : noms[d] = nom}}
Mene(adresse) ==
  CASE adresse[1] = "mixes id"  -> ParIdentifiant(adresse[2])
    [] adresse[1] = "mixes"     -> IF adresse[2] \in Appels THEN ParSlug(adresse[2], adresse[3]) ELSE {}
    [] adresse[1] = "users"     -> IF adresse[2] \in Appels THEN ParNom(adresse[2]) ELSE {}
    [] adresse[1] = "playlists" -> {<<"playlist">>}
    [] OTHER                    -> {}

Vivant(objet) ==
  CASE objet[1] = "mix"    -> objet[2] \in Presents
    [] objet[1] = "compte" -> objet[2] \in Nommes
    [] OTHER               -> objet[1] = "playlist"

\* What readers hold stays good.  An address that a feed, a preview or the
\* sitemap gave leads to what it was given for, and nothing else, for as long as
\* that exists, whatever names are chosen, titles corrected and accounts deleted
\* since.  And a copy renewed after the last change is the document: no change
\* hides behind an ETag, not even that of an order.
WhatIsHeldStaysGood ==
  /\ Vivant(lien.objet) => Mene(lien.adresse) = {lien.objet}
  /\ copie.fraiche => copie.contenu = Rendu(copie.doc)
===============================================================================
