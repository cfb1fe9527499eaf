--------------------------- MODULE SettingsProofs ---------------------------
(***************************************************************************)
(* A proof about Settings, for any values, lists, threads and number of    *)
(* saves and crashes, with the scan changing the list at any moment: what  *)
(* was stored before a save stays readable throughout it.                  *)
(***************************************************************************)
EXTENDS Settings, ListProofs

\* Between saves nothing waits in the cache, so that the event loop cannot
\* touch the file before it is copied; from the copy on, the copy is the one
\* that counts.  Only the thread that saves is past "no".
PrevioInv ==
  /\ (paso = "no") <=> (cerrojo = Nadie)
  /\ paso \in {"no", "copia"} => cache = fichero
  /\ paso = "copia" => Lee(fichero) = previo
  /\ paso \notin {"no", "copia"} => copia # <<>> /\ Lee(copia[1]) = previo

LEMMA PrevioPaso == PrevioInv /\ [Next]_vars => PrevioInv'
<1> SUFFICES ASSUME PrevioInv, [Next]_vars PROVE PrevioInv'
  OBVIOUS
<1>f. ASSUME UNCHANGED fichero PROVE Lee(fichero)' = Lee(fichero)
  BY <1>f DEF Lee, Elementos
<1>c. ASSUME UNCHANGED copia PROVE Lee(copia[1])' = Lee(copia[1])
  BY <1>c DEF Lee, Elementos
<1>1. CASE UNCHANGED <<paso, cerrojo, disco, previo>>
  BY <1>1, <1>f, <1>c DEF PrevioInv, disco
<1>2. CASE Metodo
  <2>1. UNCHANGED <<paso, cerrojo, disco, previo>>
    BY <1>2 DEF Metodo, PonerOpciones, CambiaTimer, PonerUsuario, PonerClave, AnadirAuth,
                BorrarAuth, AnadirRegexp, BorrarRegexpI, Cambia, disco
  <2>2. QED
    BY <1>1, <2>1
<1>3. CASE Escaneo
  BY <1>1, <1>3 DEF Escaneo, disco
<1>4. ASSUME NEW q \in Clientes \cup {Principal}, Guardar(q) PROVE PrevioInv'
  <2>1. paso = "no" /\ q # Nadie
    BY <1>4, SettingsAssumption DEF Guardar, PrevioInv
  <2>2. UNCHANGED <<cache, fichero, copia>>
    BY <1>4 DEF Guardar, disco
  <2>3. Lee(fichero)' = Lee(fichero) /\ previo' = Lee(fichero) /\ paso' = "copia" /\ cerrojo' = q
    BY <1>4, <1>f, <2>2 DEF Guardar
  <2>4. QED
    BY <2>1, <2>2, <2>3 DEF PrevioInv
<1>5. CASE CopiaSeguridad
  <2>1. /\ paso = "copia" /\ paso' = "principal" /\ UNCHANGED <<cerrojo, fichero, previo>>
        /\ copia' = <<fichero>>
    BY <1>5 DEF CopiaSeguridad, Escribe
  <2>2. copia' # <<>> /\ copia'[1] = fichero
    BY <2>1
  <2>3. Lee(copia[1])' = Lee(fichero)
    BY <2>2 DEF Lee, Elementos
  <2>4. QED
    BY <2>1, <2>2, <2>3 DEF PrevioInv
<1>6. CASE EscribePrincipal \/ VaciaReglas \/ EscribeRegla \/ CierraReglas
           \/ VaciaAuths \/ EscribeAuth \/ CierraAuths
  <2>1. /\ paso \notin {"no", "copia"} /\ paso' \notin {"no", "copia"}
        /\ UNCHANGED <<cerrojo, copia, previo>>
    BY <1>6 DEF EscribePrincipal, VaciaReglas, EscribeRegla, CierraReglas, VaciaAuths,
                EscribeAuth, CierraAuths, Escribe
  <2>2. QED
    BY <1>c, <2>1 DEF PrevioInv
<1>7. CASE Sync
  BY <1>7 DEF Sync, Escribe, PrevioInv
<1>8. CASE Vuelca
  <2>1. paso \notin {"no", "copia"} /\ UNCHANGED <<paso, cerrojo, copia, previo>>
    BY <1>8 DEF Vuelca, PrevioInv
  <2>2. QED
    BY <1>c, <2>1 DEF PrevioInv
<1>9. CASE Cae
  BY <1>9 DEF Cae, PrevioInv
<1>10. CASE UNCHANGED vars
  BY <1>1, <1>10 DEF vars
<1>11. QED
  BY <1>2, <1>3, <1>4, <1>5, <1>6, <1>7, <1>8, <1>9, <1>10
     DEF Next, SinEscaneo, writeSettings

\* At every moment of a save the state from before it can be read, from the
\* file or from the copy of the day, whatever the event loop flushes, and even
\* though the scan may change the list meanwhile.
THEOREM PrevioSiempreEnDisco == Spec => []PrevioEnDisco
<1>1. Init => PrevioInv
  BY DEF Init, PrevioInv
<1>2. PrevioInv => PrevioEnDisco
  BY DEF PrevioInv, PrevioEnDisco
<1>3. QED
  BY <1>1, <1>2, PrevioPaso, PTL DEF Spec
-----------------------------------------------------------------------------
(* Types.                                                                  *)

\* In the loops of writeSettings the cache holds the elements before the index.
EscritosInv ==
  /\ paso = "reglas" => Len(cache.reglas.item) = n - 1
  /\ paso = "auths" => Len(cache.auths.item) = n - 1

TInv == TypeOK /\ EscritosInv

\* What a start makes of a well formed file.
LEMMA LeeBien ==
  ASSUME NEW f, BienFormado(f)
  PROVE  /\ f.opc \in Opciones /\ f.usuario \in Usuarios /\ f.clave \in Claves
         /\ Lee(f).tiempo \in Nat \ {0}
         /\ Lee(f).reglas \in Seq(Regla) /\ Lee(f).auths \in Seq(Auth)
<1>1. f \in Archivo
  BY DEF BienFormado
<1>2. /\ f.opc \in Opciones /\ f.usuario \in Usuarios /\ f.clave \in Claves /\ f.tiempo \in Int
      /\ f.reglas.item \in Seq(Regla) /\ f.reglas.tam \in Nat
      /\ f.auths.item \in Seq(Auth) /\ f.auths.tam \in Nat
  BY <1>1 DEF Archivo
<1>3. ASSUME NEW S, NEW s \in Seq(S), NEW m \in Nat, m <= Len(s)
      PROVE  SubSeq(s, 1, m) \in Seq(S)
  <2>1. \A j \in 1 .. m : s[j] \in S
    BY <1>3, ElementOfSeq
  <2>2. QED
    BY <2>1, 1 \in Int, m \in Int, SubSeqProperties
<1>4. SubSeq(f.reglas.item, 1, f.reglas.tam) \in Seq(Regla)
  BY <1>2, <1>3 DEF BienFormado
<1>5. SubSeq(f.auths.item, 1, f.auths.tam) \in Seq(Auth)
  BY <1>2, <1>3 DEF BienFormado
<1>6. QED
  BY <1>2, <1>4, <1>5 DEF Lee, Elementos, PorDefecto

\* The hash of a list has the trackers of its auths.
LEMMA HashTipo ==
  ASSUME NEW l \in Seq(Auth)
  PROVE  DOMAIN HashDe(l) \subseteq Trackers
<1>1. \A k \in DOMAIN l : l[k].tracker \in Trackers
  <2>1. \A k \in DOMAIN l : l[k] \in Auth
    BY ElementOfSeq
  <2>2. QED
    BY <2>1 DEF Auth
<1>2. QED
  BY <1>1 DEF HashDe

\* Setting one element.
LEMMA PonTipo ==
  ASSUME NEW S, NEW s \in Seq(S), NEW k \in Nat \ {0}, NEW e \in S
  PROVE  Pon(s, k, e) \in Seq(S)
  BY DEF Pon

LEMMA ConFechaTipo ==
  ASSUME NEW s \in Seq(Regla), NEW k \in Nat, NEW r \in Regla
  PROVE  ConFecha(s, k, r) \in Regla
<1>1. \A j \in DOMAIN s : s[j] \in Regla
  BY ElementOfSeq
<1>2. QED
  BY <1>1 DEF ConFecha, Regla

\* Changing one value, or one array, of what is stored.
LEMMA ArchivoValor ==
  ASSUME NEW f \in Archivo, NEW g,
         \/ \E o \in Opciones : g = [f EXCEPT !.opc = o]
         \/ \E t \in Int : g = [f EXCEPT !.tiempo = t]
         \/ \E u \in Usuarios : g = [f EXCEPT !.usuario = u]
         \/ \E p \in Claves : g = [f EXCEPT !.clave = p]
  PROVE  g \in Archivo /\ g.reglas = f.reglas /\ g.auths = f.auths
  BY DEF Archivo

LEMMA ReglasItem ==
  ASSUME NEW f, BienFormado(f), NEW i \in Seq(Regla), f.reglas.tam <= Len(i)
  PROVE  /\ BienFormado([f EXCEPT !.reglas.item = i])
         /\ [f EXCEPT !.reglas.item = i].reglas.item = i
<1> DEFINE g == [f EXCEPT !.reglas.item = i]
<1>1. f \in Archivo /\ f.auths.tam <= Len(f.auths.item)
  BY DEF BienFormado
<1>2. g \in Archivo /\ g.reglas.item = i /\ g.reglas.tam = f.reglas.tam /\ g.auths = f.auths
  BY <1>1 DEF Archivo
<1>3. QED
  BY <1>1, <1>2 DEF BienFormado

LEMMA ReglasTam ==
  ASSUME NEW f, BienFormado(f), NEW t \in Nat, t <= Len(f.reglas.item)
  PROVE  BienFormado([f EXCEPT !.reglas.tam = t])
<1> DEFINE g == [f EXCEPT !.reglas.tam = t]
<1>1. f \in Archivo /\ f.auths.tam <= Len(f.auths.item)
  BY DEF BienFormado
<1>2. g \in Archivo /\ g.reglas.item = f.reglas.item /\ g.reglas.tam = t /\ g.auths = f.auths
  BY <1>1 DEF Archivo
<1>3. QED
  BY <1>1, <1>2 DEF BienFormado

LEMMA ReglasVacia ==
  ASSUME NEW f, BienFormado(f)
  PROVE  /\ BienFormado([f EXCEPT !.reglas = [item |-> <<>>, tam |-> 0]])
         /\ Len([f EXCEPT !.reglas = [item |-> <<>>, tam |-> 0]].reglas.item) = 0
<1> DEFINE g == [f EXCEPT !.reglas = [item |-> <<>>, tam |-> 0]]
<1>1. f \in Archivo /\ f.auths.tam <= Len(f.auths.item)
  BY DEF BienFormado
<1>2. <<>> \in Seq(Regla) /\ Len(<<>>) = 0
  BY EmptySeq
<1>3. g \in Archivo /\ g.reglas.item = <<>> /\ g.reglas.tam = 0 /\ g.auths = f.auths
  BY <1>1, <1>2 DEF Archivo
<1>4. QED
  BY <1>1, <1>2, <1>3 DEF BienFormado

LEMMA AuthsItem ==
  ASSUME NEW f, BienFormado(f), NEW i \in Seq(Auth), f.auths.tam <= Len(i)
  PROVE  /\ BienFormado([f EXCEPT !.auths.item = i])
         /\ [f EXCEPT !.auths.item = i].auths.item = i
<1> DEFINE g == [f EXCEPT !.auths.item = i]
<1>1. f \in Archivo /\ f.reglas.tam <= Len(f.reglas.item)
  BY DEF BienFormado
<1>2. g \in Archivo /\ g.auths.item = i /\ g.auths.tam = f.auths.tam /\ g.reglas = f.reglas
  BY <1>1 DEF Archivo
<1>3. QED
  BY <1>1, <1>2 DEF BienFormado

LEMMA AuthsTam ==
  ASSUME NEW f, BienFormado(f), NEW t \in Nat, t <= Len(f.auths.item)
  PROVE  BienFormado([f EXCEPT !.auths.tam = t])
<1> DEFINE g == [f EXCEPT !.auths.tam = t]
<1>1. f \in Archivo /\ f.reglas.tam <= Len(f.reglas.item)
  BY DEF BienFormado
<1>2. g \in Archivo /\ g.auths.item = f.auths.item /\ g.auths.tam = t /\ g.reglas = f.reglas
  BY <1>1 DEF Archivo
<1>3. QED
  BY <1>1, <1>2 DEF BienFormado

LEMMA AuthsVacia ==
  ASSUME NEW f, BienFormado(f)
  PROVE  /\ BienFormado([f EXCEPT !.auths = [item |-> <<>>, tam |-> 0]])
         /\ Len([f EXCEPT !.auths = [item |-> <<>>, tam |-> 0]].auths.item) = 0
<1> DEFINE g == [f EXCEPT !.auths = [item |-> <<>>, tam |-> 0]]
<1>1. f \in Archivo /\ f.reglas.tam <= Len(f.reglas.item)
  BY DEF BienFormado
<1>2. <<>> \in Seq(Auth) /\ Len(<<>>) = 0
  BY EmptySeq
<1>3. g \in Archivo /\ g.auths.item = <<>> /\ g.auths.tam = 0 /\ g.reglas = f.reglas
  BY <1>1, <1>2 DEF Archivo
<1>4. QED
  BY <1>1, <1>2, <1>3 DEF BienFormado

LEMMA TInvInicial == Init => TInv
<1> SUFFICES ASSUME Init PROVE TInv
  OBVIOUS
<1>1. BienFormado(fichero)
  BY SettingsAssumption DEF Init
<1>2. /\ opc \in Opciones /\ tiempo \in Nat \ {0} /\ usuario \in Usuarios /\ clave \in Claves
      /\ lista \in Seq(Regla) /\ listAuths \in Seq(Auth)
  BY <1>1, LeeBien DEF Init
<1>3. DOMAIN hashAuths \subseteq Trackers
  BY <1>2, HashTipo DEF Init
<1>4. QED
  BY <1>1, <1>2, <1>3 DEF Init, TInv, TypeOK, EscritosInv

\* The rest of TypeOK, by who may change it.
MemTipo ==
  /\ opc \in Opciones /\ tiempo \in Nat \ {0} /\ usuario \in Usuarios /\ clave \in Claves
  /\ lista \in Seq(Regla) /\ listAuths \in Seq(Auth)
  /\ DOMAIN hashAuths \subseteq Trackers
  /\ pendiente \in [Clientes -> {<<>>} \cup {<<p>> : p \in Claves}]
PasoTipo ==
  /\ cerrojo \in Clientes \cup {Principal, Nadie}
  /\ paso \in {"no", "copia", "principal", "vaciaReglas", "reglas", "vaciaAuths",
                "auths", "sync"}
  /\ n \in Nat \ {0} /\ (paso = "principal" => n <= 4)
  /\ (paso = "no") <=> (cerrojo = Nadie)
DiscoTipo == BienFormado(cache) /\ BienFormado(fichero) /\ EscritosInv

LEMMA TInvPartes == TInv <=> MemTipo /\ PasoTipo /\ DiscoTipo
  BY DEF TInv, TypeOK, MemTipo, PasoTipo, DiscoTipo

LEMMA MemPaso ==
  ASSUME TInv, [Next]_vars
  PROVE  MemTipo'
<1>1. MemTipo /\ BienFormado(fichero)
  BY TInvPartes DEF DiscoTipo
<1>t. /\ opc \in Opciones /\ tiempo \in Nat \ {0} /\ usuario \in Usuarios /\ clave \in Claves
      /\ lista \in Seq(Regla) /\ listAuths \in Seq(Auth)
      /\ DOMAIN hashAuths \subseteq Trackers
      /\ pendiente \in [Clientes -> {<<>>} \cup {<<p>> : p \in Claves}]
  BY <1>1 DEF MemTipo
<1>2. CASE UNCHANGED <<memoria, pendiente>>
  BY <1>1, <1>2 DEF MemTipo, memoria
<1>3. ASSUME NEW o \in Opciones, PonerOpciones(o) PROVE MemTipo'
  BY <1>t, <1>3 DEF PonerOpciones, MemTipo
<1>4. ASSUME NEW t \in Intervalos, CambiaTimer(t) PROVE MemTipo'
  <2>1. t \in Nat \ {0}
    BY <1>4, SettingsAssumption DEF CambiaTimer
  <2>2. QED
    BY <1>t, <1>4, <2>1 DEF CambiaTimer, MemTipo
<1>5. ASSUME NEW c \in Clientes, NEW u \in Usuarios, NEW p \in Claves, PonerUsuario(c, u, p)
      PROVE  MemTipo'
  <2>1. pendiente' \in [Clientes -> {<<>>} \cup {<<q>> : q \in Claves}]
    BY <1>t, <1>5 DEF PonerUsuario
  <2>2. QED
    BY <1>t, <1>5, <2>1 DEF PonerUsuario, MemTipo
<1>6. ASSUME NEW c \in Clientes, PonerClave(c) PROVE MemTipo'
  <2>1. pendiente' \in [Clientes -> {<<>>} \cup {<<q>> : q \in Claves}]
    BY <1>t, <1>6 DEF PonerClave
  <2>2. pendiente[c] \in {<<q>> : q \in Claves}
    BY <1>t, <1>6 DEF PonerClave
  <2>3. clave' \in Claves
    BY <1>6, <2>2 DEF PonerClave
  <2>4. QED
    BY <1>t, <1>6, <2>1, <2>3 DEF PonerClave, MemTipo
<1>7. ASSUME NEW au \in Auth, AnadirAuth(au) PROVE MemTipo'
  <2>1. listAuths' \in Seq(Auth) /\ au.tracker \in Trackers
    BY <1>t, <1>7 DEF AnadirAuth, Auth
  <2>2. DOMAIN hashAuths' \subseteq Trackers
    BY <1>t, <1>7, <2>1 DEF AnadirAuth
  <2>3. QED
    BY <1>t, <1>7, <2>1, <2>2 DEF AnadirAuth, MemTipo
<1>8. ASSUME NEW t \in Trackers, BorrarAuth(t) PROVE MemTipo'
  <2>1. {k \in DOMAIN listAuths : listAuths[k].tracker # t} \in SUBSET (1 .. Len(listAuths))
    BY <1>t
  <2>2. listAuths' \in Seq(Auth)
    BY <1>t, <1>8, <2>1, EnOrdenPosiciones DEF BorrarAuth, AuthsSin
  <2>3. DOMAIN hashAuths' \subseteq Trackers
    BY <1>t, <1>8 DEF BorrarAuth
  <2>4. QED
    BY <1>t, <1>8, <2>2, <2>3 DEF BorrarAuth, MemTipo
<1>9. ASSUME NEW r \in Nombres, AnadirRegexp(r) PROVE MemTipo'
  <2>1. [nombre |-> r, fecha |-> SinFecha] \in Regla
    BY DEF Regla
  <2>2. lista' \in Seq(Regla)
    BY <1>t, <1>9, <2>1 DEF AnadirRegexp
  <2>3. QED
    BY <1>t, <1>9, <2>2 DEF AnadirRegexp, MemTipo
<1>10. ASSUME NEW k \in DOMAIN lista, lista' = RemoveAt(lista, k)
       PROVE  lista' \in Seq(Regla)
  <2>1. k \in 1 .. Len(lista)
    BY <1>t
  <2>2. QED
    BY <1>t, <1>10, <2>1, RemoveAtPositions
<1>11. ASSUME NEW k \in DOMAIN lista, BorrarRegexpI(k) PROVE MemTipo'
  <2>1. lista' \in Seq(Regla)
    BY <1>10, <1>11 DEF BorrarRegexpI
  <2>2. QED
    BY <1>t, <1>11, <2>1 DEF BorrarRegexpI, MemTipo
<1>12. CASE Metodo
  BY <1>3, <1>4, <1>5, <1>6, <1>7, <1>8, <1>9, <1>11, <1>12 DEF Metodo
<1>13. CASE Escaneo
  <2>1. ASSUME NEW k \in DOMAIN lista, NEW f \in Fechas, lista' = [lista EXCEPT ![k].fecha = f]
        PROVE  lista' \in Seq(Regla)
    <3>1. k \in 1 .. Len(lista) /\ lista[k] \in Regla
      BY <1>t, ElementOfSeq
    <3>2. [lista[k] EXCEPT !.fecha = f] \in Regla
      BY <3>1 DEF Regla
    <3>3. QED
      BY <1>t, <2>1, <3>1, <3>2, ReplacePositions
  <2>2. lista' \in Seq(Regla)
    BY <1>10, <1>13, <2>1 DEF Escaneo
  <2>3. QED
    BY <1>t, <1>13, <2>2 DEF Escaneo, MemTipo
<1>14. CASE \E q \in Clientes \cup {Principal} : Guardar(q)
  BY <1>2, <1>14 DEF Guardar
<1>15. CASE writeSettings
  BY <1>2, <1>15 DEF writeSettings, CopiaSeguridad, EscribePrincipal, VaciaReglas, EscribeRegla,
                     CierraReglas, VaciaAuths, EscribeAuth, CierraAuths, Sync, Escribe
<1>16. CASE Vuelca
  BY <1>2, <1>16 DEF Vuelca
<1>17. CASE Cae
  <2>1. /\ opc' \in Opciones /\ tiempo' \in Nat \ {0} /\ usuario' \in Usuarios /\ clave' \in Claves
        /\ lista' \in Seq(Regla) /\ listAuths' \in Seq(Auth)
    BY <1>1, <1>17, LeeBien DEF Cae
  <2>2. DOMAIN hashAuths' \subseteq Trackers
    BY <1>17, <2>1, HashTipo DEF Cae
  <2>3. pendiente' \in [Clientes -> {<<>>} \cup {<<q>> : q \in Claves}]
    BY <1>17 DEF Cae
  <2>4. QED
    BY <2>1, <2>2, <2>3 DEF MemTipo
<1>18. CASE UNCHANGED vars
  BY <1>2, <1>18 DEF vars
<1>19. QED
  BY <1>12, <1>13, <1>14, <1>15, <1>16, <1>17, <1>18 DEF Next, SinEscaneo

LEMMA PasoPaso ==
  ASSUME TInv, [Next]_vars
  PROVE  PasoTipo'
<1>1. PasoTipo
  BY TInvPartes
<1>2. CASE UNCHANGED <<cerrojo, paso, n>>
  BY <1>1, <1>2 DEF PasoTipo
<1>3. CASE Metodo
  BY <1>2, <1>3 DEF Metodo, PonerOpciones, CambiaTimer, PonerUsuario, PonerClave, AnadirAuth,
                BorrarAuth, AnadirRegexp, BorrarRegexpI, Cambia
<1>4. CASE Escaneo
  BY <1>2, <1>4 DEF Escaneo
<1>5. CASE \E q \in Clientes \cup {Principal} : Guardar(q)
  BY <1>1, <1>5, SettingsAssumption DEF Guardar, PasoTipo
<1>6. CASE CopiaSeguridad
  BY <1>1, <1>6 DEF CopiaSeguridad, Escribe, PasoTipo
<1>7. CASE EscribePrincipal
  BY <1>1, <1>7 DEF EscribePrincipal, Escribe, PasoTipo
<1>8. CASE VaciaReglas \/ EscribeRegla \/ CierraReglas
  BY <1>1, <1>8 DEF VaciaReglas, EscribeRegla, CierraReglas, Escribe, PasoTipo
<1>9. CASE VaciaAuths \/ EscribeAuth \/ CierraAuths
  BY <1>1, <1>9 DEF VaciaAuths, EscribeAuth, CierraAuths, Escribe, PasoTipo
<1>10. CASE Sync
  BY <1>1, <1>10 DEF Sync, Escribe, PasoTipo
<1>11. CASE Vuelca
  BY <1>2, <1>11 DEF Vuelca
<1>12. CASE Cae
  BY <1>12 DEF Cae, PasoTipo
<1>13. CASE UNCHANGED vars
  BY <1>2, <1>13 DEF vars
<1>14. QED
  BY <1>3, <1>4, <1>5, <1>6, <1>7, <1>8, <1>9, <1>10, <1>11, <1>12, <1>13
     DEF Next, SinEscaneo, writeSettings

LEMMA DiscoPaso ==
  ASSUME TInv, [Next]_vars
  PROVE  DiscoTipo'
<1>1. MemTipo /\ PasoTipo /\ DiscoTipo
  BY TInvPartes
<1>m. /\ opc \in Opciones /\ tiempo \in Nat \ {0} /\ usuario \in Usuarios /\ clave \in Claves
      /\ lista \in Seq(Regla) /\ listAuths \in Seq(Auth)
  BY <1>1 DEF MemTipo
<1>p. n \in Nat \ {0} /\ (paso = "principal" => n <= 4)
  BY <1>1 DEF PasoTipo
<1>d. BienFormado(cache) /\ BienFormado(fichero) /\ EscritosInv
  BY <1>1 DEF DiscoTipo
<1>c. /\ cache \in Archivo
      /\ cache.reglas.item \in Seq(Regla) /\ cache.reglas.tam \in Nat
      /\ cache.auths.item \in Seq(Auth) /\ cache.auths.tam \in Nat
      /\ cache.reglas.tam <= Len(cache.reglas.item) /\ cache.auths.tam <= Len(cache.auths.item)
  BY <1>d DEF BienFormado, Archivo
<1>2. CASE UNCHANGED <<disco, paso, n>>
  BY <1>d, <1>2 DEF DiscoTipo, BienFormado, EscritosInv, disco
<1>3. CASE Metodo \/ Escaneo
  BY <1>2, <1>3 DEF Metodo, PonerOpciones, CambiaTimer, PonerUsuario, PonerClave, AnadirAuth,
                BorrarAuth, AnadirRegexp, BorrarRegexpI, Cambia, Escaneo
<1>f. ASSUME UNCHANGED fichero PROVE BienFormado(fichero)'
  BY <1>d, <1>f DEF BienFormado
<1>g. ASSUME UNCHANGED cache PROVE BienFormado(cache)'
  BY <1>d, <1>g DEF BienFormado
<1>4. CASE \E q \in Clientes \cup {Principal} : Guardar(q)
  BY <1>4, <1>f, <1>g DEF Guardar, DiscoTipo, EscritosInv, disco
<1>5. CASE CopiaSeguridad
  BY <1>5, <1>f, <1>g DEF CopiaSeguridad, Escribe, DiscoTipo, EscritosInv
<1>6. CASE EscribePrincipal
  <2>1. n \in 1 .. 4 /\ paso' \notin {"reglas", "auths"} /\ UNCHANGED fichero
    BY <1>6, <1>p DEF EscribePrincipal, Escribe
  <2>2. /\ cache' \in Archivo /\ cache'.reglas = cache.reglas /\ cache'.auths = cache.auths
    <3>1. n = 1 => cache' = [cache EXCEPT !.opc = opc]
      BY <1>6 DEF EscribePrincipal
    <3>2. n = 2 => cache' = [cache EXCEPT !.tiempo = tiempo]
      BY <1>6 DEF EscribePrincipal
    <3>3. n = 3 => cache' = [cache EXCEPT !.usuario = usuario]
      BY <1>6 DEF EscribePrincipal
    <3>4. n = 4 => cache' = [cache EXCEPT !.clave = clave]
      BY <1>6 DEF EscribePrincipal
    <3>5. n = 1 \/ n = 2 \/ n = 3 \/ n = 4
      BY <2>1
    <3>6. opc \in Opciones /\ tiempo \in Int /\ usuario \in Usuarios /\ clave \in Claves
      BY <1>m
    <3>7. QED
      BY <1>c, <3>1, <3>2, <3>3, <3>4, <3>5, <3>6, ArchivoValor
  <2>3. BienFormado(cache)'
    BY <1>c, <2>2 DEF BienFormado
  <2>4. QED
    BY <1>f, <2>1, <2>3 DEF DiscoTipo, EscritosInv
<1>7. CASE VaciaReglas
  <2>1. /\ cache' = [cache EXCEPT !.reglas = [item |-> <<>>, tam |-> 0]]
        /\ paso' = "reglas" /\ n' = 1 /\ UNCHANGED fichero
    BY <1>7 DEF VaciaReglas, Escribe
  <2>2. BienFormado(cache)' /\ Len(cache'.reglas.item) = 0
    <3>1. BienFormado(cache') /\ Len(cache'.reglas.item) = 0
      BY <1>d, <2>1, ReglasVacia
    <3>2. QED
      BY <3>1 DEF BienFormado
  <2>3. QED
    BY <1>f, <2>1, <2>2 DEF DiscoTipo, EscritosInv
<1>8. CASE EscribeRegla
  <2> DEFINE e == Pon(cache.reglas.item, n, ConFecha(cache.reglas.item, n, lista[n]))
  <2>1. /\ cache' = [cache EXCEPT !.reglas.item = e]
        /\ paso = "reglas" /\ paso' = "reglas" /\ n' = n + 1 /\ UNCHANGED fichero
        /\ n \in DOMAIN lista
    BY <1>8 DEF EscribeRegla, Escribe
  <2>2. lista[n] \in Regla
    BY <1>m, <2>1, ElementOfSeq
  <2>3. ConFecha(cache.reglas.item, n, lista[n]) \in Regla
    BY <1>c, <1>p, <2>2, ConFechaTipo
  <2>4. Len(cache.reglas.item) = n - 1
    BY <1>d, <2>1 DEF EscritosInv
  <2>n. n \in Nat \ {0} /\ cache.reglas.item \in Seq(Regla)
    BY <1>c, <1>p
  <2>5. e \in Seq(Regla) /\ Len(e) = n
    <3>1. e \in Seq(Regla)
      BY <2>3, <2>n, PonTipo
    <3>2. PICK i \in Seq(Regla), r \in Regla :
           i = cache.reglas.item /\ r = ConFecha(cache.reglas.item, n, lista[n])
      BY <2>3, <2>n
    <3>3. e = Append(i, r)
      <4>1. e = Pon(i, n, r)
        BY <3>2
      <4>2. Len(i) = n - 1
        BY <2>4, <3>2
      <4> HIDE DEF e
      <4>3. QED
        BY <2>n, <4>1, <4>2 DEF Pon
    <3>4. Len(i) = n - 1
      BY <2>4, <3>2
    <3> HIDE DEF e
    <3>5. Len(e) = n
      BY <2>n, <3>3, <3>4
    <3>6. QED
      BY <3>1, <3>5
  <2> HIDE DEF e
  <2>6. BienFormado(cache)' /\ cache'.reglas.item = e
    <3>1. cache.reglas.tam \in Nat /\ cache.reglas.tam <= Len(e)
      BY <1>c, <1>p, <2>4, <2>5
    <3>2. BienFormado(cache') /\ cache'.reglas.item = e
      <4>1. cache' = [cache EXCEPT !.reglas.item = e] /\ e \in Seq(Regla)
        BY <2>1, <2>5
      <4>2. BienFormado(cache)
        BY <1>d
      <4>3. QED
        BY <3>1, <4>1, <4>2, ReglasItem
    <3>3. QED
      BY <3>2 DEF BienFormado
  <2>7. QED
    BY <1>f, <1>p, <2>1, <2>5, <2>6 DEF DiscoTipo, EscritosInv
<1>9. CASE CierraReglas
  <2>1. /\ cache' = [cache EXCEPT !.reglas.tam = n - 1]
        /\ paso = "reglas" /\ paso' = "vaciaAuths" /\ UNCHANGED fichero
    BY <1>9 DEF CierraReglas, Escribe
  <2>2. Len(cache.reglas.item) = n - 1
    BY <1>d, <2>1 DEF EscritosInv
  <2>3. BienFormado(cache)'
    <3>1. n - 1 \in Nat /\ n - 1 <= Len(cache.reglas.item) /\ cache.reglas.item \in Seq(Regla)
      BY <1>c, <1>p, <2>2
    <3>2. BienFormado(cache')
      BY <1>d, <2>1, <3>1, ReglasTam
    <3>3. QED
      BY <3>2 DEF BienFormado
  <2>4. QED
    BY <1>f, <2>1, <2>3 DEF DiscoTipo, EscritosInv
<1>10. CASE VaciaAuths
  <2>1. /\ cache' = [cache EXCEPT !.auths = [item |-> <<>>, tam |-> 0]]
        /\ paso' = "auths" /\ n' = 1 /\ UNCHANGED fichero
    BY <1>10 DEF VaciaAuths, Escribe
  <2>2. BienFormado(cache)' /\ Len(cache'.auths.item) = 0
    <3>1. BienFormado(cache') /\ Len(cache'.auths.item) = 0
      BY <1>d, <2>1, AuthsVacia
    <3>2. QED
      BY <3>1 DEF BienFormado
  <2>3. QED
    BY <1>f, <2>1, <2>2 DEF DiscoTipo, EscritosInv
<1>11. CASE EscribeAuth
  <2> DEFINE e == Pon(cache.auths.item, n, listAuths[n])
  <2>1. /\ cache' = [cache EXCEPT !.auths.item = e]
        /\ paso = "auths" /\ paso' = "auths" /\ n' = n + 1 /\ UNCHANGED fichero
        /\ n \in DOMAIN listAuths
    BY <1>11 DEF EscribeAuth, Escribe
  <2>2. listAuths[n] \in Auth
    BY <1>m, <2>1, ElementOfSeq
  <2>4. Len(cache.auths.item) = n - 1
    BY <1>d, <2>1 DEF EscritosInv
  <2>n. n \in Nat \ {0} /\ cache.auths.item \in Seq(Auth)
    BY <1>c, <1>p
  <2>5. e \in Seq(Auth) /\ Len(e) = n
    <3>1. e \in Seq(Auth)
      BY <2>2, <2>n, PonTipo
    <3>2. PICK i \in Seq(Auth), r \in Auth : i = cache.auths.item /\ r = listAuths[n]
      BY <2>2, <2>n
    <3>3. e = Append(i, r)
      <4>1. e = Pon(i, n, r)
        BY <3>2
      <4>2. Len(i) = n - 1
        BY <2>4, <3>2
      <4> HIDE DEF e
      <4>3. QED
        BY <2>n, <4>1, <4>2 DEF Pon
    <3>4. Len(i) = n - 1
      BY <2>4, <3>2
    <3> HIDE DEF e
    <3>5. Len(e) = n
      BY <2>n, <3>3, <3>4
    <3>6. QED
      BY <3>1, <3>5
  <2> HIDE DEF e
  <2>6. BienFormado(cache)' /\ cache'.auths.item = e
    <3>1. cache.auths.tam \in Nat /\ cache.auths.tam <= Len(e)
      BY <1>c, <1>p, <2>4, <2>5
    <3>2. BienFormado(cache') /\ cache'.auths.item = e
      <4>1. cache' = [cache EXCEPT !.auths.item = e] /\ e \in Seq(Auth)
        BY <2>1, <2>5
      <4>2. BienFormado(cache)
        BY <1>d
      <4>3. QED
        BY <3>1, <4>1, <4>2, AuthsItem
    <3>3. QED
      BY <3>2 DEF BienFormado
  <2>7. QED
    BY <1>f, <1>p, <2>1, <2>5, <2>6 DEF DiscoTipo, EscritosInv
<1>12. CASE CierraAuths
  <2>1. /\ cache' = [cache EXCEPT !.auths.tam = n - 1]
        /\ paso = "auths" /\ paso' = "sync" /\ UNCHANGED fichero
    BY <1>12 DEF CierraAuths, Escribe
  <2>2. Len(cache.auths.item) = n - 1
    BY <1>d, <2>1 DEF EscritosInv
  <2>3. BienFormado(cache)'
    <3>1. n - 1 \in Nat /\ n - 1 <= Len(cache.auths.item) /\ cache.auths.item \in Seq(Auth)
      BY <1>c, <1>p, <2>2
    <3>2. BienFormado(cache')
      BY <1>d, <2>1, <3>1, AuthsTam
    <3>3. QED
      BY <3>2 DEF BienFormado
  <2>4. QED
    BY <1>f, <2>1, <2>3 DEF DiscoTipo, EscritosInv
<1>13. CASE Sync
  <2>1. fichero' = cache /\ cache' = cache /\ paso' = "no"
    BY <1>13 DEF Sync, Escribe
  <2>2. QED
    BY <1>d, <2>1 DEF DiscoTipo, BienFormado, EscritosInv
<1>14. CASE Vuelca
  <2>1. fichero' = cache /\ UNCHANGED <<cache, paso, n>>
    BY <1>14 DEF Vuelca
  <2>2. QED
    BY <1>d, <2>1 DEF DiscoTipo, BienFormado, EscritosInv
<1>15. CASE Cae
  <2>1. cache' = fichero /\ fichero' = fichero /\ paso' = "no"
    BY <1>15 DEF Cae
  <2>2. QED
    BY <1>d, <2>1 DEF DiscoTipo, BienFormado, EscritosInv
<1>16. CASE UNCHANGED vars
  BY <1>2, <1>16 DEF vars
<1>17. QED
  BY <1>3, <1>4, <1>5, <1>6, <1>7, <1>8, <1>9, <1>10, <1>11, <1>12, <1>13, <1>14, <1>15, <1>16
     DEF Next, SinEscaneo, writeSettings

LEMMA TInvSiempre == Spec => []TInv
<1>1. TInv /\ [Next]_vars => TInv'
  <2>1. (MemTipo /\ PasoTipo /\ DiscoTipo)' => TInv'
    BY DEF TInv, TypeOK, MemTipo, PasoTipo, DiscoTipo
  <2>2. QED
    BY <2>1, MemPaso, PasoPaso, DiscoPaso
<1>2. QED
  BY <1>1, TInvInicial, PTL DEF Spec

\* The values keep their types, the saver holds the mutex, the interval is
\* never 0, and wherever the event loop flushes or the process dies the file
\* can be read.
THEOREM SettingsTypeCorrect == Spec => []TypeOK
<1>1. TInv => TypeOK
  BY DEF TInv
<1>2. QED
  BY <1>1, TInvSiempre, PTL

-----------------------------------------------------------------------------
(* The hash and the list.                                                  *)

\* The last auth of a tracker is the one Ultima chooses.
LEMMA UltimaEs ==
  ASSUME NEW l \in Seq(Auth), NEW k \in DOMAIN l,
         \A j \in DOMAIN l : l[j].tracker = l[k].tracker => j <= k
  PROVE  Ultima(l, l[k].tracker) = l[k]
<1> DEFINE Es(i) == /\ l[i].tracker = l[k].tracker
                    /\ \A j \in DOMAIN l : l[j].tracker = l[k].tracker => j <= i
<1>1. Es(k)
  OBVIOUS
<1>2. ASSUME NEW i \in DOMAIN l, Es(i) PROVE i = k
  <2>1. i <= k /\ k <= i /\ i \in Int /\ k \in Int
    BY <1>2
  <2>2. QED
    BY <2>1
<1> HIDE DEF Es
<1>3. (CHOOSE i \in DOMAIN l : Es(i)) = k
  BY <1>1, <1>2
<1>4. QED
  BY <1>3 DEF Ultima, Es

\* A tracker of the list has a last auth.
LEMMA HayUltima ==
  ASSUME NEW l \in Seq(Auth), NEW i \in DOMAIN l
  PROVE  \E k \in DOMAIN l : /\ l[k].tracker = l[i].tracker
                             /\ \A j \in DOMAIN l : l[j].tracker = l[i].tracker => j <= k
<1> DEFINE P == {k \in DOMAIN l : l[k].tracker = l[i].tracker}
<1>1. P \in SUBSET (1 .. Len(l)) /\ i \in P /\ Len(l) \in Nat
  OBVIOUS
<1>2. PICK k \in P : \A j \in P : j <= k
  <2> HIDE DEF P
  <2>1. QED
    BY <1>1, PrimeraYUltima
<1>3. QED
  BY <1>2

\* h gives the tracker t its last auth in l.
DaUltima(l, h, t) ==
  \E k \in DOMAIN l : /\ l[k].tracker = t /\ h[t] = l[k]
                      /\ \A j \in DOMAIN l : l[j].tracker = t => j <= k

\* A list and a hash that give the same auth to each tracker.
LEMMA HashEs ==
  ASSUME NEW l \in Seq(Auth), NEW h, h = [t \in DOMAIN h |-> h[t]],
         \A k \in DOMAIN l : l[k].tracker \in DOMAIN h,
         \A t \in DOMAIN h : DaUltima(l, h, t)
  PROVE  h = HashDe(l)
<1>1. DOMAIN h = {l[k].tracker : k \in DOMAIN l}
  BY DEF DaUltima
<1>2. ASSUME NEW t \in DOMAIN h PROVE h[t] = Ultima(l, t)
  <2>1. PICK k \in DOMAIN l : /\ l[k].tracker = t /\ h[t] = l[k]
                             /\ \A j \in DOMAIN l : l[j].tracker = t => j <= k
    BY DEF DaUltima
  <2>2. Ultima(l, l[k].tracker) = l[k]
    BY <2>1, UltimaEs
  <2>3. QED
    BY <2>1, <2>2
<1>3. QED
  BY <1>1, <1>2 DEF HashDe

\* ... as HashDe itself does.
LEMMA HashDa ==
  ASSUME NEW l \in Seq(Auth), NEW t \in DOMAIN HashDe(l)
  PROVE  DaUltima(l, HashDe(l), t)
<1>1. PICK i \in DOMAIN l : l[i].tracker = t
  BY DEF HashDe
<1>2. PICK k \in DOMAIN l : /\ l[k].tracker = l[i].tracker
                           /\ \A j \in DOMAIN l : l[j].tracker = l[i].tracker => j <= k
  BY HayUltima
<1>3. Ultima(l, l[k].tracker) = l[k]
  BY <1>1, <1>2, UltimaEs
<1>4. HashDe(l)[t] = Ultima(l, t)
  BY DEF HashDe
<1>5. QED
  BY <1>1, <1>2, <1>3, <1>4 DEF DaUltima

LEMMA HashAlAnadir ==
  ASSUME NEW l \in Seq(Auth), NEW au \in Auth
  PROVE  HashDe(Append(l, au)) =
           [t \in DOMAIN HashDe(l) \cup {au.tracker} |->
              IF t = au.tracker THEN au ELSE HashDe(l)[t]]
<1> DEFINE m == Append(l, au)
           h == [t \in DOMAIN HashDe(l) \cup {au.tracker} |->
                   IF t = au.tracker THEN au ELSE HashDe(l)[t]]
<1>1. /\ m \in Seq(Auth) /\ DOMAIN m = 1 .. Len(l) + 1 /\ DOMAIN l = 1 .. Len(l)
      /\ Len(l) \in Nat /\ m[Len(l) + 1] = au
      /\ \A k \in DOMAIN l : k \in DOMAIN m /\ m[k] = l[k]
  OBVIOUS
<1>2. \A k \in DOMAIN l : l[k].tracker \in DOMAIN HashDe(l)
  BY DEF HashDe
<1>3. h = [t \in DOMAIN h |-> h[t]] /\ DOMAIN h = DOMAIN HashDe(l) \cup {au.tracker}
  OBVIOUS
<1>h. \A t \in DOMAIN h : h[t] = IF t = au.tracker THEN au ELSE HashDe(l)[t]
  OBVIOUS
<1> HIDE DEF m, h
<1>d. ASSUME NEW k \in DOMAIN m PROVE k = Len(l) + 1 \/ k \in DOMAIN l
  BY <1>1
<1>4. \A k \in DOMAIN m : m[k].tracker \in DOMAIN h
  BY <1>1, <1>2, <1>3, <1>d
<1>5. ASSUME NEW t \in DOMAIN h
      PROVE  DaUltima(m, h, t)
  <2>1. CASE t = au.tracker
    <3>1. Len(l) + 1 \in DOMAIN m /\ \A j \in DOMAIN m : j <= Len(l) + 1
      BY <1>1
    <3>2. QED
      BY <1>1, <1>h, <2>1, <3>1 DEF DaUltima
  <2>2. CASE t # au.tracker
    <3>1. t \in DOMAIN HashDe(l) /\ h[t] = HashDe(l)[t]
      BY <1>3, <1>h, <2>2
    <3>2. PICK k \in DOMAIN l : /\ l[k].tracker = t /\ HashDe(l)[t] = l[k]
                               /\ \A j \in DOMAIN l : l[j].tracker = t => j <= k
      BY <3>1, HashDa DEF DaUltima
    <3>3. \A j \in DOMAIN m : m[j].tracker = t => j <= k
      BY <1>1, <1>d, <2>2, <3>2
    <3>4. QED
      BY <1>1, <3>1, <3>2, <3>3 DEF DaUltima
  <2>3. QED
    BY <2>1, <2>2
<1>6. h = HashDe(m)
  BY <1>1, <1>3, <1>4, <1>5, HashEs
<1>7. QED
  BY <1>6 DEF m, h

LEMMA HashAlBorrar ==
  ASSUME NEW l \in Seq(Auth), NEW u
  PROVE  HashDe(AuthsSin(l, u)) = [t \in DOMAIN HashDe(l) \ {u} |-> HashDe(l)[t]]
<1> DEFINE P == {k \in DOMAIN l : l[k].tracker # u}
           m == AuthsSin(l, u)
           h == [t \in DOMAIN HashDe(l) \ {u} |-> HashDe(l)[t]]
<1>1. P \in SUBSET (1 .. Len(l)) /\ m = EnOrden(l, P) /\ DOMAIN l = 1 .. Len(l) /\ Len(l) \in Nat
  BY DEF AuthsSin
<1>p. \A k \in DOMAIN l : k \in P <=> l[k].tracker # u
  OBVIOUS
<1>3. /\ h = [t \in DOMAIN h |-> h[t]] /\ DOMAIN h = DOMAIN HashDe(l) \ {u}
      /\ \A t \in DOMAIN h : h[t] = HashDe(l)[t]
  OBVIOUS
<1> HIDE DEF P, m, h
<1>2. /\ m \in Seq(Auth) /\ Len(m) \in Nat /\ DOMAIN m = 1 .. Len(m)
      /\ \E f : /\ Numera(f, Len(m), P)
               /\ \A j \in 1 .. Len(m) : m[j] = l[f[j]]
  BY <1>1, EnOrdenPosiciones
<1>f. PICK f : Numera(f, Len(m), P) /\ \A j \in 1 .. Len(m) : m[j] = l[f[j]]
  BY <1>2
<1>g. /\ \A j \in 1 .. Len(m) : f[j] \in P /\ f[j] \in DOMAIN l
      /\ \A j, k \in 1 .. Len(m) : j < k => f[j] < f[k]
      /\ \A p \in P : \E j \in 1 .. Len(m) : f[j] = p
  BY <1>1, <1>f DEF Numera
<1>4. ASSUME NEW k \in DOMAIN m PROVE m[k].tracker \in DOMAIN h
  <2>1. m[k] = l[f[k]] /\ f[k] \in DOMAIN l /\ f[k] \in P
    BY <1>2, <1>f, <1>g
  <2>2. l[f[k]].tracker \in DOMAIN HashDe(l) /\ l[f[k]].tracker # u
    BY <1>p, <2>1 DEF HashDe
  <2>3. QED
    BY <1>3, <2>1, <2>2
<1>5. ASSUME NEW t \in DOMAIN h
      PROVE  DaUltima(m, h, t)
  <2>1. t \in DOMAIN HashDe(l) /\ t # u /\ h[t] = HashDe(l)[t]
    BY <1>3
  <2>2. PICK p \in DOMAIN l : /\ l[p].tracker = t /\ HashDe(l)[t] = l[p]
                             /\ \A j \in DOMAIN l : l[j].tracker = t => j <= p
    BY <2>1, HashDa DEF DaUltima
  <2>3. PICK k \in 1 .. Len(m) : f[k] = p
    BY <1>g, <1>p, <2>1, <2>2
  <2>4. ASSUME NEW j \in DOMAIN m, m[j].tracker = t PROVE j <= k
    <3>1. j \in 1 .. Len(m) /\ m[j] = l[f[j]] /\ f[j] \in DOMAIN l
      BY <1>2, <1>f, <1>g
    <3>2. f[j] <= f[k]
      BY <2>2, <2>3, <2>4, <3>1
    <3>3. k < j => f[k] < f[j]
      BY <1>g, <3>1
    <3>4. f[j] \in Int /\ f[k] \in Int /\ j \in Int /\ k \in Int
      BY <1>1, <1>2, <2>2, <2>3, <3>1
    <3>5. QED
      BY <3>2, <3>3, <3>4
  <2>5. m[k] = l[p]
    BY <1>f, <2>3
  <2>6. QED
    BY <1>2, <2>1, <2>2, <2>4, <2>5 DEF DaUltima
<1>6. h = HashDe(m)
  BY <1>2, <1>3, <1>4, <1>5, HashEs
<1>7. QED
  BY <1>6 DEF m, h

\* The hash in which downloads look trackers up is, at every moment, what the
\* list of auths says, whatever is added, removed, saved or lost in a crash.
THEOREM HashSiempreConcuerda == Spec => []HashConcuerda
<1>1. Init => HashConcuerda
  BY DEF Init, HashConcuerda
<1>2. ASSUME TInv, HashConcuerda, [Next]_vars PROVE HashConcuerda'
  <2>0. hashAuths = HashDe(listAuths) /\ listAuths \in Seq(Auth)
    BY <1>2 DEF HashConcuerda, TInv, TypeOK
  <2>1. CASE UNCHANGED <<listAuths, hashAuths>>
    BY <2>0, <2>1 DEF HashConcuerda
  <2>2. ASSUME NEW au \in Auth, AnadirAuth(au) PROVE HashConcuerda'
    <3>1. /\ listAuths' = Append(listAuths, au)
          /\ hashAuths' = [t \in DOMAIN hashAuths \cup {au.tracker} |->
                             IF t = au.tracker THEN au ELSE hashAuths[t]]
      BY <2>2 DEF AnadirAuth
    <3>2. QED
      BY <2>0, <3>1, HashAlAnadir DEF HashConcuerda
  <2>3. ASSUME NEW t \in Trackers, BorrarAuth(t) PROVE HashConcuerda'
    <3>1. /\ listAuths' = AuthsSin(listAuths, t)
          /\ hashAuths' = [u \in DOMAIN hashAuths \ {t} |-> hashAuths[u]]
      BY <2>3 DEF BorrarAuth
    <3>2. HashDe(AuthsSin(listAuths, t)) =
            [u \in DOMAIN HashDe(listAuths) \ {t} |-> HashDe(listAuths)[u]]
      BY <2>0, HashAlBorrar, Zenon
    <3>3. QED
      BY <2>0, <3>1, <3>2 DEF HashConcuerda
  <2>4. CASE Metodo
    BY <2>1, <2>2, <2>3, <2>4 DEF Metodo, PonerOpciones, CambiaTimer, PonerUsuario, PonerClave,
                                  AnadirRegexp, BorrarRegexpI
  <2>5. CASE Escaneo
    BY <2>1, <2>5 DEF Escaneo
  <2>6. CASE \E q \in Clientes \cup {Principal} : Guardar(q)
    BY <2>1, <2>6 DEF Guardar, memoria
  <2>7. CASE writeSettings \/ Vuelca
    BY <2>1, <2>7 DEF writeSettings, CopiaSeguridad, EscribePrincipal, VaciaReglas, EscribeRegla,
                      CierraReglas, VaciaAuths, EscribeAuth, CierraAuths, Sync, Escribe, memoria,
                      Vuelca
  <2>8. CASE Cae
    BY <2>8 DEF Cae, HashConcuerda
  <2>9. CASE UNCHANGED vars
    BY <2>1, <2>9 DEF vars, memoria
  <2>10. QED
    BY <1>2, <2>4, <2>5, <2>6, <2>7, <2>8, <2>9 DEF Next, SinEscaneo
<1>3. QED
  BY <1>1, <1>2, TInvSiempre, PTL DEF Spec

-----------------------------------------------------------------------------
(* The promise of SettingsStore.                                           *)

Estado == [opc : Opciones, tiempo : Nat \ {0}, usuario : Usuarios, clave : Claves,
           reglas : Seq(Regla), auths : Seq(Auth)]

\* The value k of "principal" has been written.
Hecho(k) == paso # "copia" /\ (paso = "principal" => k < n)

\* In a save, what the cache holds: the new values up to where writeSettings
\* is, the old ones from there on, and each array old, empty or new.
PrincipalInv ==
  paso # "no" =>
    /\ Lee(cache).opc = IF Hecho(1) THEN opc ELSE previo.opc
    /\ Lee(cache).tiempo = IF Hecho(2) THEN tiempo ELSE previo.tiempo
    /\ Lee(cache).usuario = IF Hecho(3) THEN usuario ELSE previo.usuario
    /\ Lee(cache).clave = IF Hecho(4) THEN clave ELSE previo.clave

ListasInv ==
  /\ paso \in {"copia", "principal", "vaciaReglas"} => Lee(cache).reglas = previo.reglas
  /\ paso = "reglas" => /\ cache.reglas.tam = 0 /\ n - 1 <= Len(lista)
                        /\ \A k \in 1 .. n - 1 : cache.reglas.item[k] = lista[k]
  /\ paso \in {"vaciaAuths", "auths", "sync"} => Lee(cache).reglas = lista
  /\ paso \in {"copia", "principal", "vaciaReglas", "reglas", "vaciaAuths"} =>
       Lee(cache).auths = previo.auths
  /\ paso = "auths" => /\ cache.auths.tam = 0 /\ n - 1 <= Len(listAuths)
                       /\ \A k \in 1 .. n - 1 : cache.auths.item[k] = listAuths[k]
  /\ paso = "sync" => Lee(cache).auths = listAuths

\* ... and the file, wherever the event loop has flushed the cache, is one of
\* the mixtures that SettingsStore allows.
MezclaInv ==
  /\ previo \in Estado
  /\ paso # "no" => Lee(fichero) \in Almacen!Mezclas(previo, Memoria)

GInv == TInv /\ PrevioInv /\ PrincipalInv /\ ListasInv /\ MezclaInv

LEMMA LeeEstado ==
  ASSUME NEW f, BienFormado(f)
  PROVE  /\ Lee(f) \in Estado
         /\ Lee(f).opc = f.opc /\ Lee(f).usuario = f.usuario /\ Lee(f).clave = f.clave
         /\ Lee(f).tiempo = IF f.tiempo <= 0 THEN PorDefecto ELSE f.tiempo
         /\ Lee(f).reglas = SubSeq(f.reglas.item, 1, f.reglas.tam)
         /\ Lee(f).auths = SubSeq(f.auths.item, 1, f.auths.tam)
         /\ Lee(f) = [opc |-> Lee(f).opc, tiempo |-> Lee(f).tiempo,
                      usuario |-> Lee(f).usuario, clave |-> Lee(f).clave,
                      reglas |-> Lee(f).reglas, auths |-> Lee(f).auths]
<1>1. /\ Lee(f).opc = f.opc /\ Lee(f).usuario = f.usuario /\ Lee(f).clave = f.clave
      /\ Lee(f).tiempo = IF f.tiempo <= 0 THEN PorDefecto ELSE f.tiempo
      /\ Lee(f).reglas = SubSeq(f.reglas.item, 1, f.reglas.tam)
      /\ Lee(f).auths = SubSeq(f.auths.item, 1, f.auths.tam)
      /\ Lee(f) = [opc |-> Lee(f).opc, tiempo |-> Lee(f).tiempo,
                   usuario |-> Lee(f).usuario, clave |-> Lee(f).clave,
                   reglas |-> Lee(f).reglas, auths |-> Lee(f).auths]
  BY DEF Lee, Elementos
<1>2. /\ f.opc \in Opciones /\ f.usuario \in Usuarios /\ f.clave \in Claves
      /\ Lee(f).tiempo \in Nat \ {0}
      /\ Lee(f).reglas \in Seq(Regla) /\ Lee(f).auths \in Seq(Auth)
  BY LeeBien
<1>3. Lee(f) \in Estado
  BY <1>1, <1>2 DEF Estado
<1>4. QED
  BY <1>1, <1>3

\* The values of a Prefijo, one by one.
LEMMA PrefijoCampos ==
  ASSUME NEW v \in Estado, NEW m \in Estado, NEW k \in 0 .. 4
  PROVE  Almacen!Prefijo(v, m, k) =
           [opc |-> IF 1 <= k THEN m.opc ELSE v.opc,
            tiempo |-> IF 2 <= k THEN m.tiempo ELSE v.tiempo,
            usuario |-> IF 3 <= k THEN m.usuario ELSE v.usuario,
            clave |-> IF 4 <= k THEN m.clave ELSE v.clave,
            reglas |-> v.reglas, auths |-> v.auths]
<1> DEFINE C == Almacen!Campos
<1>1. C[1] = "opc" /\ C[2] = "tiempo" /\ C[3] = "usuario" /\ C[4] = "clave"
  BY DEF Almacen!Campos
<1>2. DOMAIN v = {"opc", "tiempo", "usuario", "clave", "reglas", "auths"}
  BY DEF Estado
<1> HIDE DEF C
<1>3. /\ (\E j \in 1 .. k : C[j] = "opc") <=> 1 <= k
      /\ (\E j \in 1 .. k : C[j] = "tiempo") <=> 2 <= k
      /\ (\E j \in 1 .. k : C[j] = "usuario") <=> 3 <= k
      /\ (\E j \in 1 .. k : C[j] = "clave") <=> 4 <= k
      /\ ~ \E j \in 1 .. k : C[j] = "reglas"
      /\ ~ \E j \in 1 .. k : C[j] = "auths"
  <2>1. \A j \in 1 .. k : j = 1 \/ j = 2 \/ j = 3 \/ j = 4
    OBVIOUS
  <2>2. QED
    BY <1>1, <2>1
<1>4. Almacen!Prefijo(v, m, k) =
        [f \in DOMAIN v |-> IF \E j \in 1 .. k : C[j] = f THEN m[f] ELSE v[f]]
  BY DEF Almacen!Prefijo, C
<1>5. QED
  BY <1>2, <1>3, <1>4

\* What the cache holds is a mixture.
LEMMA CacheMezcla ==
  ASSUME TInv, PrincipalInv, ListasInv, previo \in Estado, paso # "no"
  PROVE  Lee(cache) \in Almacen!Mezclas(previo, Memoria)
<1> DEFINE L == Lee(cache)
           M == Memoria
<1>1. BienFormado(cache)
  BY DEF TInv, TypeOK
<1>2. /\ M \in Estado
      /\ M.opc = opc /\ M.tiempo = tiempo /\ M.usuario = usuario /\ M.clave = clave
      /\ M.reglas = lista /\ M.auths = listAuths
      /\ M = [opc |-> opc, tiempo |-> tiempo, usuario |-> usuario, clave |-> clave,
              reglas |-> lista, auths |-> listAuths]
  BY DEF Memoria, TInv, TypeOK, Estado
<1>3. L = [opc |-> L.opc, tiempo |-> L.tiempo, usuario |-> L.usuario, clave |-> L.clave,
           reglas |-> L.reglas, auths |-> L.auths]
  BY <1>1, LeeEstado
<1>4. /\ L.opc = IF Hecho(1) THEN M.opc ELSE previo.opc
      /\ L.tiempo = IF Hecho(2) THEN M.tiempo ELSE previo.tiempo
      /\ L.usuario = IF Hecho(3) THEN M.usuario ELSE previo.usuario
      /\ L.clave = IF Hecho(4) THEN M.clave ELSE previo.clave
  BY <1>2 DEF PrincipalInv
<1>5. /\ paso \in {"copia", "principal", "vaciaReglas", "reglas", "vaciaAuths", "auths", "sync"}
      /\ n \in Nat \ {0} /\ (paso = "principal" => n <= 4)
  BY DEF TInv, TypeOK
<1>r. paso = "reglas" => L.reglas = <<>>
  <2>1. paso = "reglas" => L.reglas = SubSeq(cache.reglas.item, 1, 0)
    BY <1>1, LeeEstado DEF ListasInv
  <2>2. SubSeq(cache.reglas.item, 1, 0) = <<>>
    BY SubSeqEmpty, 1 \in Int, 0 \in Int
  <2>3. QED
    BY <2>1, <2>2
<1>a. paso = "auths" => L.auths = <<>>
  <2>1. paso = "auths" => L.auths = SubSeq(cache.auths.item, 1, 0)
    BY <1>1, LeeEstado DEF ListasInv
  <2>2. SubSeq(cache.auths.item, 1, 0) = <<>>
    BY SubSeqEmpty, 1 \in Int, 0 \in Int
  <2>3. QED
    BY <2>1, <2>2
<1>l. /\ paso \in {"copia", "principal", "vaciaReglas"} => L.reglas = previo.reglas
      /\ paso \in {"vaciaAuths", "auths", "sync"} => L.reglas = M.reglas
      /\ paso \in {"copia", "principal", "vaciaReglas", "reglas", "vaciaAuths"} =>
           L.auths = previo.auths
      /\ paso = "sync" => L.auths = M.auths
  BY <1>2 DEF ListasInv
<1>6. ASSUME NEW k \in 0 .. 4
      PROVE  /\ Almacen!Prefijo(previo, M, k) =
                  [opc |-> IF 1 <= k THEN M.opc ELSE previo.opc,
                   tiempo |-> IF 2 <= k THEN M.tiempo ELSE previo.tiempo,
                   usuario |-> IF 3 <= k THEN M.usuario ELSE previo.usuario,
                   clave |-> IF 4 <= k THEN M.clave ELSE previo.clave,
                   reglas |-> previo.reglas, auths |-> previo.auths]
             /\ Almacen!Prefijo(previo, M, k) \in Almacen!Mezclas(previo, M)
  <2>1. Len(Almacen!Campos) = 4
    BY DEF Almacen!Campos
  <2>2. Almacen!Prefijo(previo, M, k) \in Almacen!Mezclas(previo, M)
    BY <2>1 DEF Almacen!Mezclas
  <2> HIDE DEF M
  <2>3. QED
    BY <1>2, <2>2, PrefijoCampos
<1>7. /\ \A r \in {<<>>, M.reglas} :
           [Almacen!Prefijo(previo, M, 4) EXCEPT !.reglas = r] \in Almacen!Mezclas(previo, M)
      /\ [M EXCEPT !.auths = <<>>] \in Almacen!Mezclas(previo, M)
      /\ M \in Almacen!Mezclas(previo, M)
  <2>1. Len(Almacen!Campos) = 4
    BY DEF Almacen!Campos
  <2>2. QED
    BY <2>1 DEF Almacen!Mezclas
<1> HIDE DEF M, L
<1>8. CASE paso = "copia"
  <2>1. ~Hecho(1) /\ ~Hecho(2) /\ ~Hecho(3) /\ ~Hecho(4)
    BY <1>8 DEF Hecho
  <2>2. L = Almacen!Prefijo(previo, M, 0)
    BY <1>3, <1>4, <1>6, <1>8, <1>l, <2>1
  <2>3. QED
    BY <1>6, <2>2 DEF L, M
<1>9. CASE paso = "principal"
  <2>1. PICK k \in 0 .. 4 : k = n - 1
    BY <1>5, <1>9
  <2>2. /\ (Hecho(1) <=> 1 <= k) /\ (Hecho(2) <=> 2 <= k)
        /\ (Hecho(3) <=> 3 <= k) /\ (Hecho(4) <=> 4 <= k)
    BY <1>5, <1>9, <2>1 DEF Hecho
  <2>3. L = Almacen!Prefijo(previo, M, k)
    BY <1>3, <1>4, <1>6, <1>9, <1>l, <2>2
  <2>4. QED
    BY <1>6, <2>3 DEF L, M
<1>h. paso \notin {"copia", "principal"} =>
        L.opc = M.opc /\ L.tiempo = M.tiempo /\ L.usuario = M.usuario /\ L.clave = M.clave
  BY <1>4 DEF Hecho
<1>p. Almacen!Prefijo(previo, M, 4) =
        [opc |-> M.opc, tiempo |-> M.tiempo, usuario |-> M.usuario, clave |-> M.clave,
         reglas |-> previo.reglas, auths |-> previo.auths]
  BY <1>6
<1>10. CASE paso = "vaciaReglas"
  <2>1. L = Almacen!Prefijo(previo, M, 4)
    BY <1>3, <1>10, <1>h, <1>l, <1>p
  <2>2. QED
    BY <1>6, <2>1 DEF L, M
<1>11. CASE paso = "reglas" \/ paso = "vaciaAuths"
  <2>1. PICK r \in {<<>>, M.reglas} : L.reglas = r
    BY <1>11, <1>r, <1>l
  <2>2. L = [Almacen!Prefijo(previo, M, 4) EXCEPT !.reglas = r]
    BY <1>3, <1>11, <1>h, <1>l, <1>p, <2>1
  <2>3. QED
    BY <1>7, <2>2 DEF L, M
<1>12. CASE paso = "auths"
  <2>1. L = [M EXCEPT !.auths = <<>>]
    BY <1>2, <1>3, <1>12, <1>h, <1>l, <1>a
  <2>2. QED
    BY <1>7, <2>1 DEF L, M
<1>13. CASE paso = "sync"
  <2>1. L = M
    BY <1>2, <1>3, <1>13, <1>h, <1>l
  <2>2. QED
    BY <1>7, <2>1 DEF L, M
<1>14. QED
  BY <1>5, <1>8, <1>9, <1>10, <1>11, <1>12, <1>13

\* The old state is one of its mixtures, the empty one.
LEMMA ViejoEsMezcla ==
  ASSUME NEW v \in Estado, NEW m \in Estado
  PROVE  v \in Almacen!Mezclas(v, m)
<1>1. Len(Almacen!Campos) = 4
  BY DEF Almacen!Campos
<1>2. Almacen!Prefijo(v, m, 0) \in Almacen!Mezclas(v, m)
  BY <1>1 DEF Almacen!Mezclas
<1>3. v = [opc |-> v.opc, tiempo |-> v.tiempo, usuario |-> v.usuario, clave |-> v.clave,
           reglas |-> v.reglas, auths |-> v.auths]
  BY DEF Estado
<1>4. Almacen!Prefijo(v, m, 0) = v
  BY <1>3, PrefijoCampos, 0 \in 0 .. 4
<1>5. QED
  BY <1>2, <1>4

\* The values of the record that a step of writeSettings leaves alone.
LEMMA LeeIgual ==
  ASSUME NEW f, NEW g, BienFormado(f), BienFormado(g)
  PROVE  /\ f.opc = g.opc => Lee(f).opc = Lee(g).opc
         /\ f.tiempo = g.tiempo => Lee(f).tiempo = Lee(g).tiempo
         /\ f.usuario = g.usuario => Lee(f).usuario = Lee(g).usuario
         /\ f.clave = g.clave => Lee(f).clave = Lee(g).clave
         /\ f.reglas = g.reglas => Lee(f).reglas = Lee(g).reglas
         /\ f.auths = g.auths => Lee(f).auths = Lee(g).auths
  BY LeeEstado

LEMMA CamposIgual ==
  ASSUME NEW f \in Archivo, NEW g, NEW r, NEW a,
         \/ g = [f EXCEPT !.reglas = r] \/ g = [f EXCEPT !.reglas.item = r]
         \/ g = [f EXCEPT !.reglas.tam = r]
         \/ g = [f EXCEPT !.auths = a] \/ g = [f EXCEPT !.auths.item = a]
         \/ g = [f EXCEPT !.auths.tam = a]
  PROVE  g.opc = f.opc /\ g.tiempo = f.tiempo /\ g.usuario = f.usuario /\ g.clave = f.clave
  BY DEF Archivo

LEMMA PrincipalPaso ==
  ASSUME GInv, TInv', writeSettings
  PROVE  PrincipalInv'
<1>1. /\ BienFormado(cache) /\ cache \in Archivo
      /\ n \in Nat \ {0} /\ (paso = "principal" => n <= 4)
      /\ tiempo \in Nat \ {0}
  BY DEF GInv, TInv, TypeOK, BienFormado
<1>2. BienFormado(cache')
  BY DEF TInv, TypeOK, BienFormado
<1>3. Lee(cache)' = Lee(cache')
  BY DEF Lee, Elementos
<1>4. UNCHANGED <<opc, tiempo, usuario, clave, previo>>
  BY DEF writeSettings, CopiaSeguridad, EscribePrincipal, VaciaReglas, EscribeRegla,
         CierraReglas, VaciaAuths, EscribeAuth, CierraAuths, Sync, Escribe, memoria
<1>5. paso # "no"
  BY DEF writeSettings, CopiaSeguridad, EscribePrincipal, VaciaReglas, EscribeRegla,
         CierraReglas, VaciaAuths, EscribeAuth, CierraAuths, Sync, Escribe
<1>6. /\ Lee(cache).opc = IF Hecho(1) THEN opc ELSE previo.opc
      /\ Lee(cache).tiempo = IF Hecho(2) THEN tiempo ELSE previo.tiempo
      /\ Lee(cache).usuario = IF Hecho(3) THEN usuario ELSE previo.usuario
      /\ Lee(cache).clave = IF Hecho(4) THEN clave ELSE previo.clave
  BY <1>5 DEF GInv, PrincipalInv
<1>7. ASSUME /\ Lee(cache').opc = Lee(cache).opc /\ Lee(cache').tiempo = Lee(cache).tiempo
             /\ Lee(cache').usuario = Lee(cache).usuario /\ Lee(cache').clave = Lee(cache).clave,
             \A k \in 1 .. 4 : Hecho(k)' = Hecho(k)
      PROVE  PrincipalInv'
  <2>1. Hecho(1)' = Hecho(1) /\ Hecho(2)' = Hecho(2) /\ Hecho(3)' = Hecho(3) /\ Hecho(4)' = Hecho(4)
    BY <1>7
  <2>2. QED
    BY <1>3, <1>4, <1>6, <1>7, <2>1 DEF PrincipalInv
<1>8. CASE CopiaSeguridad
  <2>1. cache' = cache /\ paso = "copia" /\ paso' = "principal" /\ n' = 1
    BY <1>8 DEF CopiaSeguridad, Escribe
  <2>2. \A k \in 1 .. 4 : Hecho(k)' = Hecho(k)
    BY <2>1 DEF Hecho
  <2>3. QED
    BY <1>7, <2>1, <2>2
<1>9. CASE EscribePrincipal
  <2>1. /\ paso = "principal" /\ n \in 1 .. 4
        /\ paso' = IF n < 4 THEN "principal" ELSE "vaciaReglas"
        /\ n' = IF n < 4 THEN n + 1 ELSE 1
    BY <1>1, <1>9 DEF EscribePrincipal, Escribe
  <2>2. \A k \in 1 .. 4 : (Hecho(k) <=> k < n) /\ (Hecho(k)' <=> k <= n)
    BY <2>1 DEF Hecho
  <2>3. /\ n = 1 => cache' = [cache EXCEPT !.opc = opc]
        /\ n = 2 => cache' = [cache EXCEPT !.tiempo = tiempo]
        /\ n = 3 => cache' = [cache EXCEPT !.usuario = usuario]
        /\ n = 4 => cache' = [cache EXCEPT !.clave = clave]
    BY <1>9 DEF EscribePrincipal
  <2>4. /\ cache'.opc = IF n = 1 THEN opc ELSE cache.opc
        /\ cache'.tiempo = IF n = 2 THEN tiempo ELSE cache.tiempo
        /\ cache'.usuario = IF n = 3 THEN usuario ELSE cache.usuario
        /\ cache'.clave = IF n = 4 THEN clave ELSE cache.clave
    <3>1. n = 1 \/ n = 2 \/ n = 3 \/ n = 4
      BY <2>1
    <3>2. QED
      BY <1>1, <2>3, <3>1 DEF Archivo
  <2>5. /\ Lee(cache').opc = IF n = 1 THEN opc ELSE Lee(cache).opc
        /\ Lee(cache').tiempo = IF n = 2 THEN tiempo ELSE Lee(cache).tiempo
        /\ Lee(cache').usuario = IF n = 3 THEN usuario ELSE Lee(cache).usuario
        /\ Lee(cache').clave = IF n = 4 THEN clave ELSE Lee(cache).clave
    <3>1. n = 2 => Lee(cache').tiempo = tiempo
      BY <1>1, <1>2, <2>4, LeeEstado
    <3>2. n = 1 => Lee(cache').opc = opc
      BY <1>2, <2>4, LeeEstado
    <3>3. n = 3 => Lee(cache').usuario = usuario
      BY <1>2, <2>4, LeeEstado
    <3>4. n = 4 => Lee(cache').clave = clave
      BY <1>2, <2>4, LeeEstado
    <3>5. /\ n # 1 => Lee(cache').opc = Lee(cache).opc
          /\ n # 2 => Lee(cache').tiempo = Lee(cache).tiempo
          /\ n # 3 => Lee(cache').usuario = Lee(cache).usuario
          /\ n # 4 => Lee(cache').clave = Lee(cache).clave
      BY <1>1, <1>2, <2>4, LeeIgual
    <3>6. QED
      BY <3>1, <3>2, <3>3, <3>4, <3>5
  <2>6. /\ Lee(cache').opc = IF Hecho(1)' THEN opc ELSE previo.opc
        /\ Lee(cache').tiempo = IF Hecho(2)' THEN tiempo ELSE previo.tiempo
        /\ Lee(cache').usuario = IF Hecho(3)' THEN usuario ELSE previo.usuario
        /\ Lee(cache').clave = IF Hecho(4)' THEN clave ELSE previo.clave
    <3>1. /\ (Hecho(1) <=> 1 < n) /\ (Hecho(2) <=> 2 < n)
          /\ (Hecho(3) <=> 3 < n) /\ (Hecho(4) <=> 4 < n)
          /\ (Hecho(1)' <=> 1 <= n) /\ (Hecho(2)' <=> 2 <= n)
          /\ (Hecho(3)' <=> 3 <= n) /\ (Hecho(4)' <=> 4 <= n)
      BY <2>2
    <3>2. QED
      BY <1>6, <2>1, <2>5, <3>1
  <2>7. QED
    BY <1>3, <1>4, <2>6 DEF PrincipalInv
<1>10. CASE VaciaReglas \/ EscribeRegla \/ CierraReglas \/ VaciaAuths \/ EscribeAuth \/ CierraAuths
  <2>1. \E r, a : \/ cache' = [cache EXCEPT !.reglas = r]
                 \/ cache' = [cache EXCEPT !.reglas.item = r]
                 \/ cache' = [cache EXCEPT !.reglas.tam = r]
                 \/ cache' = [cache EXCEPT !.auths = a] \/ cache' = [cache EXCEPT !.auths.item = a]
                 \/ cache' = [cache EXCEPT !.auths.tam = a]
    BY <1>10 DEF VaciaReglas, EscribeRegla, CierraReglas, VaciaAuths, EscribeAuth, CierraAuths
  <2>2. /\ cache'.opc = cache.opc /\ cache'.tiempo = cache.tiempo
        /\ cache'.usuario = cache.usuario /\ cache'.clave = cache.clave
    BY <1>1, <2>1, CamposIgual
  <2>3. paso \notin {"copia", "principal"} /\ paso' \notin {"copia", "principal"}
    BY <1>10 DEF VaciaReglas, EscribeRegla, CierraReglas, VaciaAuths, EscribeAuth, CierraAuths,
                 Escribe
  <2>4. \A k \in 1 .. 4 : Hecho(k)' = Hecho(k)
    BY <2>3 DEF Hecho
  <2>5. QED
    BY <1>1, <1>2, <1>7, <2>2, <2>4, LeeIgual
<1>11. CASE Sync
  BY <1>11 DEF Sync, Escribe, PrincipalInv
<1>12. QED
  BY <1>8, <1>9, <1>10, <1>11 DEF writeSettings

\* The lists have the same first m elements.
Coinciden(s, l, m) == \A k \in 1 .. m : s[k] = l[k]

\* A size and the elements that were set, one by one, make the list.
LEMMA ListaEscrita ==
  ASSUME NEW S, NEW s \in Seq(S), NEW l \in Seq(S), NEW m \in Nat,
         m = Len(l), m <= Len(s), Coinciden(s, l, m)
  PROVE  SubSeq(s, 1, m) = l
<1>1. /\ SubSeq(s, 1, m) \in Seq(S) /\ Len(SubSeq(s, 1, m)) = m
      /\ \A k \in 1 .. m : SubSeq(s, 1, m)[k] = s[1 + k - 1]
  <2>1. \A k \in 1 .. m : s[k] \in S
    BY ElementOfSeq
  <2>2. QED
    BY <2>1, SubSeqProperties, 1 \in Int, m \in Int
<1>2. \A k \in 1 .. m : SubSeq(s, 1, m)[k] = l[k]
  BY <1>1 DEF Coinciden
<1>3. QED
  BY <1>1, <1>2, SeqEqual

\* The element set last joins the ones before it.
LEMMA UnElementoMas ==
  ASSUME NEW S, NEW s \in Seq(S), NEW l \in Seq(S), NEW m \in Nat \ {0},
         Len(s) = m - 1, m \in DOMAIN l, Coinciden(s, l, m - 1)
  PROVE  Coinciden(Pon(s, m, l[m]), l, m)
<1>1. m \notin DOMAIN s /\ l[m] \in S
  BY ElementOfSeq
<1>2. Pon(s, m, l[m]) = Append(s, l[m])
  BY <1>1 DEF Pon
<1>3. QED
  BY <1>1, <1>2 DEF Coinciden

LEMMA ListasPaso ==
  ASSUME GInv, TInv', writeSettings
  PROVE  ListasInv'
<1>1. /\ BienFormado(cache) /\ cache \in Archivo /\ n \in Nat \ {0}
      /\ lista \in Seq(Regla) /\ listAuths \in Seq(Auth) /\ EscritosInv
  BY DEF GInv, TInv, TypeOK, BienFormado
<1>2. BienFormado(cache')
  BY DEF TInv, TypeOK, BienFormado
<1>3. Lee(cache)' = Lee(cache')
  BY DEF Lee, Elementos
<1>4. UNCHANGED <<lista, listAuths, previo>>
  BY DEF writeSettings, CopiaSeguridad, EscribePrincipal, VaciaReglas, EscribeRegla,
         CierraReglas, VaciaAuths, EscribeAuth, CierraAuths, Sync, Escribe, memoria
<1>5. /\ cache.reglas.item \in Seq(Regla) /\ cache.auths.item \in Seq(Auth)
      /\ cache.reglas.tam \in Nat /\ cache.auths.tam \in Nat
  BY <1>1 DEF Archivo
<1>6. /\ paso \in {"copia", "principal", "vaciaReglas"} => Lee(cache).reglas = previo.reglas
      /\ paso = "reglas" => /\ cache.reglas.tam = 0 /\ n - 1 <= Len(lista)
                            /\ \A k \in 1 .. n - 1 : cache.reglas.item[k] = lista[k]
      /\ paso \in {"vaciaAuths", "auths", "sync"} => Lee(cache).reglas = lista
      /\ paso \in {"copia", "principal", "vaciaReglas", "reglas", "vaciaAuths"} =>
           Lee(cache).auths = previo.auths
      /\ paso = "auths" => /\ cache.auths.tam = 0 /\ n - 1 <= Len(listAuths)
                           /\ \A k \in 1 .. n - 1 : cache.auths.item[k] = listAuths[k]
      /\ paso = "sync" => Lee(cache).auths = listAuths
  BY DEF GInv, ListasInv
<1>7. CASE CopiaSeguridad
  <2>1. cache' = cache /\ paso = "copia" /\ paso' = "principal"
    BY <1>7 DEF CopiaSeguridad, Escribe
  <2>2. QED
    BY <1>3, <1>4, <1>6, <2>1 DEF ListasInv
<1>8. CASE EscribePrincipal
  <2>1. paso = "principal" /\ paso' \in {"principal", "vaciaReglas"}
    BY <1>8 DEF EscribePrincipal, Escribe
  <2>2. n \in 1 .. 4
    BY <1>1, <2>1 DEF GInv, TInv, TypeOK
  <2>3. cache'.reglas = cache.reglas /\ cache'.auths = cache.auths
    <3>1. /\ n = 1 => cache' = [cache EXCEPT !.opc = opc]
          /\ n = 2 => cache' = [cache EXCEPT !.tiempo = tiempo]
          /\ n = 3 => cache' = [cache EXCEPT !.usuario = usuario]
          /\ n = 4 => cache' = [cache EXCEPT !.clave = clave]
      BY <1>8 DEF EscribePrincipal
    <3>2. n = 1 \/ n = 2 \/ n = 3 \/ n = 4
      BY <2>2
    <3>3. QED
      BY <1>1, <3>1, <3>2 DEF Archivo
  <2>4. Lee(cache').reglas = Lee(cache).reglas /\ Lee(cache').auths = Lee(cache).auths
    BY <1>1, <1>2, <2>3, LeeIgual
  <2>5. QED
    BY <1>3, <1>4, <1>6, <2>1, <2>4 DEF ListasInv
<1>9. CASE VaciaReglas
  <2>1. /\ cache' = [cache EXCEPT !.reglas = [item |-> <<>>, tam |-> 0]]
        /\ paso = "vaciaReglas" /\ paso' = "reglas" /\ n' = 1
    BY <1>9 DEF VaciaReglas, Escribe
  <2>2. cache'.reglas.tam = 0 /\ cache'.auths = cache.auths
    BY <1>1, <2>1 DEF Archivo
  <2>3. Lee(cache').auths = Lee(cache).auths
    BY <1>1, <1>2, <2>2, LeeIgual
  <2>4. n' - 1 <= Len(lista) /\ \A k \in 1 .. n' - 1 : FALSE
    BY <1>1, <2>1
  <2>5. QED
    BY <1>3, <1>4, <1>6, <2>1, <2>2, <2>3, <2>4 DEF ListasInv
<1>10. CASE EscribeRegla
  <2>1. /\ cache' = [cache EXCEPT !.reglas.item =
                      Pon(cache.reglas.item, n, ConFecha(cache.reglas.item, n, lista[n]))]
        /\ paso = "reglas" /\ paso' = "reglas" /\ n' = n + 1 /\ n \in DOMAIN lista
    BY <1>10 DEF EscribeRegla, Escribe
  <2>2. Len(cache.reglas.item) = n - 1
    BY <1>1, <2>1 DEF EscritosInv
  <2>3. ConFecha(cache.reglas.item, n, lista[n]) = lista[n]
    BY <1>1, <1>5, <2>2 DEF ConFecha
  <2> DEFINE e == Pon(cache.reglas.item, n, lista[n])
  <2>4. cache' = [cache EXCEPT !.reglas.item = e]
    BY <2>1, <2>3
  <2>5. \A k \in 1 .. n : e[k] = lista[k]
    <3>1. PICK s : s = cache.reglas.item
      OBVIOUS
    <3>2. s \in Seq(Regla) /\ Len(s) = n - 1 /\ Coinciden(s, lista, n - 1)
      BY <1>5, <1>6, <2>1, <2>2, <3>1 DEF Coinciden
    <3>3. Coinciden(Pon(s, n, lista[n]), lista, n)
      BY <1>1, <2>1, <3>2, UnElementoMas
    <3>4. QED
      BY <3>1, <3>3 DEF Coinciden
  <2> HIDE DEF e
  <2>6. cache'.reglas.item = e /\ cache'.reglas.tam = cache.reglas.tam /\ cache'.auths = cache.auths
    BY <1>1, <2>4 DEF Archivo
  <2>7. Lee(cache').auths = Lee(cache).auths
    BY <1>1, <1>2, <2>6, LeeIgual
  <2>8. n' - 1 = n /\ n <= Len(lista)
    BY <1>1, <2>1
  <2>9. QED
    BY <1>3, <1>4, <1>6, <2>1, <2>5, <2>6, <2>7, <2>8 DEF ListasInv
<1>11. CASE CierraReglas
  <2>1. /\ cache' = [cache EXCEPT !.reglas.tam = n - 1]
        /\ paso = "reglas" /\ paso' = "vaciaAuths" /\ n \notin DOMAIN lista
    BY <1>11 DEF CierraReglas, Escribe
  <2>2. Len(cache.reglas.item) = n - 1
    BY <1>1, <2>1 DEF EscritosInv
  <2>3. /\ cache'.reglas.item = cache.reglas.item /\ cache'.reglas.tam = n - 1
        /\ cache'.auths = cache.auths
    BY <1>1, <2>1 DEF Archivo
  <2>4. Lee(cache').auths = Lee(cache).auths
    BY <1>1, <1>2, <2>3, LeeIgual
  <2>5. n - 1 \in Nat /\ n - 1 = Len(lista)
    BY <1>1, <1>6, <2>1
  <2>6. SubSeq(cache.reglas.item, 1, n - 1) = lista
    <3>1. PICK s, m : s = cache.reglas.item /\ m = n - 1
      OBVIOUS
    <3>2. s \in Seq(Regla) /\ m \in Nat /\ m = Len(lista) /\ m <= Len(s) /\ Coinciden(s, lista, m)
      BY <1>5, <1>6, <2>1, <2>2, <2>5, <3>1 DEF Coinciden
    <3>3. SubSeq(s, 1, m) = lista
      BY <1>1, <3>2, ListaEscrita
    <3>4. QED
      BY <3>1, <3>3
  <2>7. Lee(cache').reglas = lista
    BY <1>2, <2>3, <2>6, LeeEstado
  <2>8. QED
    BY <1>3, <1>4, <1>6, <2>1, <2>4, <2>7 DEF ListasInv
<1>12. CASE VaciaAuths
  <2>1. /\ cache' = [cache EXCEPT !.auths = [item |-> <<>>, tam |-> 0]]
        /\ paso = "vaciaAuths" /\ paso' = "auths" /\ n' = 1
    BY <1>12 DEF VaciaAuths, Escribe
  <2>2. cache'.auths.tam = 0 /\ cache'.reglas = cache.reglas
    BY <1>1, <2>1 DEF Archivo
  <2>3. Lee(cache').reglas = Lee(cache).reglas
    BY <1>1, <1>2, <2>2, LeeIgual
  <2>4. n' - 1 <= Len(listAuths) /\ \A k \in 1 .. n' - 1 : FALSE
    BY <1>1, <2>1
  <2>5. QED
    BY <1>3, <1>4, <1>6, <2>1, <2>2, <2>3, <2>4 DEF ListasInv
<1>13. CASE EscribeAuth
  <2> DEFINE e == Pon(cache.auths.item, n, listAuths[n])
  <2>1. /\ cache' = [cache EXCEPT !.auths.item = e]
        /\ paso = "auths" /\ paso' = "auths" /\ n' = n + 1 /\ n \in DOMAIN listAuths
    BY <1>13 DEF EscribeAuth, Escribe
  <2>2. Len(cache.auths.item) = n - 1
    BY <1>1, <2>1 DEF EscritosInv
  <2>5. \A k \in 1 .. n : e[k] = listAuths[k]
    <3>1. PICK s : s = cache.auths.item
      OBVIOUS
    <3>2. s \in Seq(Auth) /\ Len(s) = n - 1 /\ Coinciden(s, listAuths, n - 1)
      BY <1>5, <1>6, <2>1, <2>2, <3>1 DEF Coinciden
    <3>3. Coinciden(Pon(s, n, listAuths[n]), listAuths, n)
      BY <1>1, <2>1, <3>2, UnElementoMas
    <3>4. QED
      BY <3>1, <3>3 DEF Coinciden
  <2> HIDE DEF e
  <2>6. cache'.auths.item = e /\ cache'.auths.tam = cache.auths.tam /\ cache'.reglas = cache.reglas
    BY <1>1, <2>1 DEF Archivo
  <2>7. Lee(cache').reglas = Lee(cache).reglas
    BY <1>1, <1>2, <2>6, LeeIgual
  <2>8. n' - 1 = n /\ n <= Len(listAuths)
    BY <1>1, <2>1
  <2>9. QED
    BY <1>3, <1>4, <1>6, <2>1, <2>5, <2>6, <2>7, <2>8 DEF ListasInv
<1>14. CASE CierraAuths
  <2>1. /\ cache' = [cache EXCEPT !.auths.tam = n - 1]
        /\ paso = "auths" /\ paso' = "sync" /\ n \notin DOMAIN listAuths
    BY <1>14 DEF CierraAuths, Escribe
  <2>2. Len(cache.auths.item) = n - 1
    BY <1>1, <2>1 DEF EscritosInv
  <2>3. /\ cache'.auths.item = cache.auths.item /\ cache'.auths.tam = n - 1
        /\ cache'.reglas = cache.reglas
    BY <1>1, <2>1 DEF Archivo
  <2>4. Lee(cache').reglas = Lee(cache).reglas
    BY <1>1, <1>2, <2>3, LeeIgual
  <2>5. n - 1 \in Nat /\ n - 1 = Len(listAuths)
    BY <1>1, <1>6, <2>1
  <2>6. SubSeq(cache.auths.item, 1, n - 1) = listAuths
    <3>1. PICK s, m : s = cache.auths.item /\ m = n - 1
      OBVIOUS
    <3>2. /\ s \in Seq(Auth) /\ m \in Nat /\ m = Len(listAuths) /\ m <= Len(s)
          /\ Coinciden(s, listAuths, m)
      BY <1>5, <1>6, <2>1, <2>2, <2>5, <3>1 DEF Coinciden
    <3>3. SubSeq(s, 1, m) = listAuths
      BY <1>1, <3>2, ListaEscrita
    <3>4. QED
      BY <3>1, <3>3
  <2>7. Lee(cache').auths = listAuths
    BY <1>2, <2>3, <2>6, LeeEstado
  <2>8. QED
    BY <1>3, <1>4, <1>6, <2>1, <2>4, <2>7 DEF ListasInv
<1>15. CASE Sync
  BY <1>15 DEF Sync, Escribe, ListasInv
<1>16. QED
  BY <1>7, <1>8, <1>9, <1>10, <1>11, <1>12, <1>13, <1>14, <1>15 DEF writeSettings

LEMMA MezclaIgual ==
  ASSUME UNCHANGED <<previo, memoria>>
  PROVE  /\ Memoria' = Memoria
         /\ Almacen!Mezclas(previo, Memoria)' = Almacen!Mezclas(previo, Memoria)
  BY DEF Memoria, memoria, Almacen!Mezclas, Almacen!Prefijo, Almacen!Campos

\* Out of a save nothing is asked of the cache.
LEMMA GPasoFuera ==
  ASSUME GInv, TInv', PrevioInv', paso' = "no", previo' = previo
  PROVE  GInv'
  BY DEF GInv, PrincipalInv, ListasInv, MezclaInv, Estado

LEMMA GInvInicial == Init => GInv
<1> SUFFICES ASSUME Init PROVE GInv
  OBVIOUS
<1>1. TInv /\ PrevioInv
  BY TInvInicial DEF Init, PrevioInv
<1>2. previo \in Estado
  BY <1>1, LeeEstado DEF Init, TInv, TypeOK
<1>3. QED
  BY <1>1, <1>2 DEF Init, GInv, PrincipalInv, ListasInv, MezclaInv

LEMMA GPaso ==
  ASSUME GInv, [NextEnCalma]_vars
  PROVE  GInv'
<1>0. [Next]_vars
  BY DEF NextEnCalma, Next
<1>1. TInv /\ PrevioInv /\ PrincipalInv /\ ListasInv /\ MezclaInv
  BY DEF GInv
<1>2. TInv' /\ PrevioInv'
  <2>1. MemTipo' /\ PasoTipo' /\ DiscoTipo'
    BY <1>0, <1>1, MemPaso, PasoPaso, DiscoPaso
  <2>2. TInv'
    BY <2>1 DEF TInv, TypeOK, MemTipo, PasoTipo, DiscoTipo
  <2>3. QED
    BY <1>0, <1>1, <2>2, PrevioPaso
<1>3. (paso = "no") <=> (cerrojo = Nadie)
  BY <1>1 DEF PrevioInv
<1>4. Lee(fichero)' = Lee(fichero') /\ Lee(cache)' = Lee(cache')
  BY DEF Lee, Elementos
<1>5. CASE Metodo
  <2>1. cerrojo = Nadie /\ UNCHANGED <<paso, previo>>
    BY <1>5 DEF Metodo, PonerOpciones, CambiaTimer, PonerUsuario, PonerClave, AnadirAuth,
                BorrarAuth, AnadirRegexp, BorrarRegexpI, Cambia
  <2>2. QED
    BY <1>2, <1>3, <2>1, GPasoFuera
<1>6. CASE paso = "no" /\ Escaneo
  <2>1. UNCHANGED <<paso, previo>>
    BY <1>6 DEF Escaneo
  <2>2. QED
    BY <1>2, <1>6, <2>1, GPasoFuera
<1>7. ASSUME NEW q \in Clientes \cup {Principal}, Guardar(q) PROVE GInv'
  <2>1. /\ paso = "no" /\ paso' = "copia" /\ previo' = Lee(fichero)
        /\ UNCHANGED <<memoria, cache, fichero>>
    BY <1>3, <1>7 DEF Guardar, disco
  <2>2. cache = fichero /\ BienFormado(fichero)
    BY <1>1, <2>1 DEF PrevioInv, TInv, TypeOK
  <2>3. Lee(cache') = previo' /\ Lee(fichero') = previo' /\ previo' \in Estado
    BY <2>1, <2>2, LeeEstado
  <2>4. ~Hecho(1)' /\ ~Hecho(2)' /\ ~Hecho(3)' /\ ~Hecho(4)'
    BY <2>1 DEF Hecho
  <2>5. PrincipalInv'
    BY <1>4, <2>3, <2>4 DEF PrincipalInv
  <2>6. ListasInv'
    BY <1>4, <2>1, <2>3 DEF ListasInv
  <2>7. MezclaInv'
    <3>1. Memoria' \in Estado
      BY <1>2 DEF TInv, TypeOK, Memoria, Estado
    <3>2. previo' \in Almacen!Mezclas(previo', Memoria')
      BY <2>3, <3>1, ViejoEsMezcla
    <3>3. Almacen!Mezclas(previo, Memoria)' = Almacen!Mezclas(previo', Memoria')
      BY DEF Almacen!Mezclas, Almacen!Prefijo, Almacen!Campos
    <3>4. QED
      BY <1>4, <2>3, <3>2, <3>3 DEF MezclaInv, Estado
  <2>8. QED
    BY <1>2, <2>5, <2>6, <2>7 DEF GInv
<1>8. CASE writeSettings
  <2>1. PrincipalInv' /\ ListasInv'
    BY <1>2, <1>8, PrincipalPaso, ListasPaso
  <2>2. UNCHANGED <<previo, memoria>>
    BY <1>8 DEF writeSettings, CopiaSeguridad, EscribePrincipal, VaciaReglas, EscribeRegla,
                CierraReglas, VaciaAuths, EscribeAuth, CierraAuths, Sync, Escribe
  <2>3. paso' = "no" \/ (fichero' = fichero /\ paso # "no")
    BY <1>8 DEF writeSettings, CopiaSeguridad, EscribePrincipal, VaciaReglas, EscribeRegla,
                CierraReglas, VaciaAuths, EscribeAuth, CierraAuths, Sync, Escribe
  <2>4. MezclaInv'
    BY <1>1, <1>4, <2>2, <2>3, MezclaIgual DEF MezclaInv, Estado
  <2>5. QED
    BY <1>2, <2>1, <2>4 DEF GInv
<1>9. CASE Vuelca
  <2>1. /\ fichero' = cache /\ paso # "no"
        /\ UNCHANGED <<memoria, paso, n, cache, previo>>
    BY <1>1, <1>9 DEF Vuelca, PrevioInv
  <2>2. Lee(cache) \in Almacen!Mezclas(previo, Memoria)
    BY <1>1, <2>1, CacheMezcla DEF MezclaInv
  <2>3. MezclaInv'
    BY <1>1, <1>4, <2>1, <2>2, MezclaIgual DEF MezclaInv, Estado
  <2>4. PrincipalInv' /\ ListasInv'
    BY <1>1, <1>4, <2>1 DEF PrincipalInv, ListasInv, Hecho, memoria
  <2>5. QED
    BY <1>2, <2>3, <2>4 DEF GInv
<1>10. CASE Cae
  <2>1. paso' = "no" /\ previo' = previo
    BY <1>10 DEF Cae
  <2>2. QED
    BY <1>2, <2>1, GPasoFuera
<1>11. CASE UNCHANGED vars
  <2>1. UNCHANGED <<memoria, paso, n, cache, fichero, previo>>
    BY <1>11 DEF vars, disco
  <2>2. MezclaInv'
    BY <1>1, <1>4, <2>1, MezclaIgual DEF MezclaInv, Estado
  <2>3. PrincipalInv' /\ ListasInv'
    BY <1>1, <1>4, <2>1 DEF PrincipalInv, ListasInv, Hecho, memoria
  <2>4. QED
    BY <1>2, <2>2, <2>3 DEF GInv
<1>12. QED
  BY <1>5, <1>6, <1>7, <1>8, <1>9, <1>10, <1>11 DEF NextEnCalma, SinEscaneo

\* writeSettings and readSettings, value by value, with the flushes of the event
\* loop and crashes at any point, keep the promise of SettingsStore when no scan
\* falls inside a save: a save stores all of memory at once, a start loads what
\* is stored, and a save cut short leaves one of the mixtures.
THEOREM SettingsKeepTheStore == SpecEnCalma => GuardaTodo
<1>1. Init => Almacen!SSInit
  <2> SUFFICES ASSUME Init PROVE Almacen!SSInit
    OBVIOUS
  <2>1. Guardado = Lee(fichero) /\ fichero \in Ficheros
    BY DEF Init, Guardado
  <2>2. Memoria = Lee(fichero)
    <3>1. /\ opc = Lee(fichero).opc /\ tiempo = Lee(fichero).tiempo
          /\ usuario = Lee(fichero).usuario /\ clave = Lee(fichero).clave
          /\ lista = Lee(fichero).reglas /\ listAuths = Lee(fichero).auths
      BY DEF Init, Lee
    <3>2. BienFormado(fichero)
      BY <2>1, SettingsAssumption
    <3>3. QED
      BY <3>1, <3>2, LeeEstado DEF Memoria
  <2>3. QED
    BY <2>1, <2>2 DEF Init, Almacen!SSInit
<1>2. ASSUME GInv, GInv', [NextEnCalma]_vars
      PROVE  [Almacen!SSNext]_<<Memoria, Guardado, caidas>>
  <2>1. TInv /\ PrevioInv /\ PrincipalInv /\ ListasInv /\ MezclaInv
    BY <1>2 DEF GInv
  <2>2. (paso = "no") <=> (cerrojo = Nadie)
    BY <2>1 DEF PrevioInv
  <2>3. Lee(fichero)' = Lee(fichero')
    BY DEF Lee, Elementos
  <2>4. Guardado' = IF paso' = "no" THEN Lee(fichero') ELSE previo'
    BY <2>3 DEF Guardado
  <2>5. ASSUME Guardado' = Guardado, caidas' = caidas PROVE Almacen!SSNext
    BY <2>5 DEF Almacen!SSNext, Almacen!SSCambia
  <2>6. CASE Metodo
    <3>1. cerrojo = Nadie /\ UNCHANGED <<paso, previo, fichero, caidas>>
      BY <2>6 DEF Metodo, PonerOpciones, CambiaTimer, PonerUsuario, PonerClave, AnadirAuth,
                  BorrarAuth, AnadirRegexp, BorrarRegexpI, Cambia, disco, cuentas
    <3>2. QED
      BY <2>2, <2>4, <2>5, <3>1 DEF Guardado
  <2>7. CASE paso = "no" /\ Escaneo
    <3>1. UNCHANGED <<paso, previo, fichero, caidas>>
      BY <2>7 DEF Escaneo, disco
    <3>2. QED
      BY <2>4, <2>5, <2>7, <3>1 DEF Guardado
  <2>8. CASE \E q \in Clientes \cup {Principal} : Guardar(q)
    <3>1. /\ paso = "no" /\ paso' = "copia" /\ previo' = Lee(fichero) /\ UNCHANGED caidas
      BY <2>2, <2>8 DEF Guardar
    <3>2. QED
      BY <2>4, <2>5, <3>1 DEF Guardado
  <2>9. CASE Sync
    <3>1. /\ paso = "sync" /\ paso' = "no" /\ fichero' = cache /\ UNCHANGED <<memoria, caidas>>
      BY <2>9 DEF Sync, Escribe, cuentas
    <3>2. Memoria' = Memoria
      BY <3>1 DEF Memoria, memoria
    <3>3. Lee(cache) = Memoria
      <4>1. BienFormado(cache)
        BY <2>1 DEF TInv, TypeOK
      <4>2. /\ Lee(cache).opc = opc /\ Lee(cache).tiempo = tiempo
            /\ Lee(cache).usuario = usuario /\ Lee(cache).clave = clave
        BY <2>1, <3>1 DEF PrincipalInv, Hecho
      <4>3. Lee(cache).reglas = lista /\ Lee(cache).auths = listAuths
        BY <2>1, <3>1 DEF ListasInv
      <4>4. QED
        BY <4>1, <4>2, <4>3, LeeEstado DEF Memoria
    <3>4. QED
      BY <2>4, <3>1, <3>2, <3>3 DEF Almacen!SSNext, Almacen!SSGuarda
  <2>10. CASE writeSettings /\ ~Sync
    <3>1. paso # "no" /\ paso' # "no" /\ UNCHANGED <<previo, caidas>>
      BY <2>10 DEF writeSettings, CopiaSeguridad, EscribePrincipal, VaciaReglas, EscribeRegla,
                   CierraReglas, VaciaAuths, EscribeAuth, CierraAuths, Escribe, cuentas
    <3>2. QED
      BY <2>4, <2>5, <3>1 DEF Guardado
  <2>11. CASE Vuelca
    <3>1. paso # "no" /\ UNCHANGED <<paso, previo, caidas>>
      BY <2>1, <2>11 DEF Vuelca, PrevioInv, cuentas
    <3>2. QED
      BY <2>4, <2>5, <3>1 DEF Guardado
  <2>12. CASE Cae
    <3>1. /\ paso' = "no" /\ fichero' = fichero /\ caidas' = caidas + 1
          /\ opc' = fichero.opc /\ tiempo' = Lee(fichero).tiempo
          /\ usuario' = fichero.usuario /\ clave' = fichero.clave
          /\ lista' = Lee(fichero).reglas /\ listAuths' = Lee(fichero).auths
      BY <2>12 DEF Cae
    <3>2. BienFormado(fichero)
      BY <2>1 DEF TInv, TypeOK
    <3>3. Memoria' = Lee(fichero)
      BY <3>1, <3>2, LeeEstado DEF Memoria
    <3>4. Guardado' = Lee(fichero)
      BY <2>4, <3>1
    <3>5. Almacen!Arranca
      BY <3>1, <3>3, <3>4 DEF Almacen!Arranca
    <3>6. CASE paso = "no"
      <4>1. Guardado' = Guardado
        BY <3>4, <3>6 DEF Guardado
      <4>2. QED
        BY <3>5, <4>1 DEF Almacen!SSNext, Almacen!SSReinicia
    <3>7. CASE paso # "no"
      <4>1. Guardado = previo /\ Guardado' \in Almacen!Mezclas(previo, Memoria)
        BY <2>1, <3>4, <3>7 DEF Guardado, MezclaInv
      <4>2. QED
        BY <3>5, <4>1 DEF Almacen!SSNext, Almacen!SSCorte
    <3>8. QED
      BY <3>6, <3>7
  <2>13. CASE UNCHANGED vars
    <3>1. UNCHANGED <<memoria, paso, previo, fichero, caidas>>
      BY <2>13 DEF vars, disco, cuentas
    <3>2. Memoria' = Memoria /\ Guardado' = Guardado
      BY <2>4, <3>1 DEF Memoria, memoria, Guardado
    <3>3. QED
      BY <3>1, <3>2
  <2>14. QED
    BY <1>2, <2>6, <2>7, <2>8, <2>9, <2>10, <2>11, <2>12, <2>13 DEF NextEnCalma, SinEscaneo
<1>3. SpecEnCalma => []GInv
  BY GInvInicial, GPaso, PTL DEF SpecEnCalma
<1>4. QED
  BY <1>1, <1>2, <1>3, PTL DEF SpecEnCalma, GuardaTodo, Almacen!SSSpec
=============================================================================
