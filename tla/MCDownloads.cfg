SPECIFICATION Spec
CONSTANTS
  ta = ta
  tb = tb
  dl = dl
  id = id
  barra = barra
  raya = raya
  c1 = c1
  c2 = c2
  Sitios = {ta, tb}
  Trackers = {ta}
  Absolutos = {ta}
  Rutas = {dl, id}
  Camino <- MCCamino
  Enlaces <- MCEnlaces
  Nombres = {barra, raya, Vacio}
  Titulos = {barra, raya}
  Vacio = Vacio
  Limpio <- MCLimpio
  Clientes = {c1, c2}
  Nadie = Nadie
  MaxPeticiones = 3
  MaxConsultas = 2
INVARIANTS TypeOK RegistroFiel
PROPERTIES NoSobrescribe VerLogEntero
CHECK_DEADLOCK FALSE
